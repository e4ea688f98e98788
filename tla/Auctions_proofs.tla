-------------------------- MODULE Auctions_proofs --------------------------
EXTENDS Auctions, SumTheorems, TLAPS

-----------------------------------------------------------------------------
(* Numbers                                                                 *)

(* The cut is at most the house's percentage of the bid, and less only if  *)
(* the product overflows.                                                  *)
LEMMA CutType ==
  ASSUME NEW bid \in Nat
  PROVE  /\ Cut(bid) \in Nat /\ Cut(bid) <= bid
         /\ Percentage(bid) \in Nat /\ Cut(bid) <= Percentage(bid)
         /\ CutPercent * bid < Word => Cut(bid) = Percentage(bid)
<1> DEFINE n == CutPercent * bid
<1> DEFINE r == n % Word
<1>1. CutPercent \in Nat /\ CutPercent <= 100 /\ Word \in Nat /\ Word > 0
  BY AuctionsAssumption
<1>2. n \in Nat /\ n <= 100 * bid
  BY <1>1
<1>3. Percentage(bid) = n \div 100 /\ Cut(bid) = r \div 100
  BY DEF Percentage, Cut
<1> HIDE DEF n
<1>4. r \in Nat /\ r <= n /\ (n < Word => r = n)
  BY <1>1, <1>2
<1> HIDE DEF r
<1>5. /\ n \div 100 \in Nat /\ r \div 100 \in Nat
      /\ r \div 100 <= n \div 100 /\ n \div 100 <= bid
  BY <1>2, <1>4
<1>6. n < Word => Cut(bid) = Percentage(bid)
  BY <1>3, <1>4
<1> QED
  BY <1>3, <1>5, <1>6 DEF n

-----------------------------------------------------------------------------
(* Sending mails                                                           *)

(* Who asks for cash on delivery is a player, so the cash can be sent.     *)
Letters == {m \in Mail : m.sender = NoPlayer => m.cod = 0}

(* Just the mail at position k of the drafts, if any, carries an item, and *)
(* it is this one.                                                         *)
Carries(drafts, k, item) ==
  \A j \in 1 .. Len(drafts) :
    drafts[j].item = IF j = k THEN item ELSE NoItem

LEMMA Sent ==
  ASSUME mailId \in Nat, NEW rows, DOMAIN rows \subseteq 1 .. mailId,
         \A m \in DOMAIN rows : rows[m] \in Letters,
         NEW drafts \in Seq(Letters), SendTo(rows, drafts)
  PROVE  /\ mailId' = mailId + Len(drafts) /\ mailId' \in 0 .. MaxMails
         /\ DOMAIN mails' = DOMAIN rows \cup {mailId + k : k \in 1 .. Len(drafts)}
         /\ DOMAIN mails' \subseteq 1 .. mailId'
         /\ \A m \in DOMAIN rows : mails'[m] = rows[m]
         /\ \A k \in 1 .. Len(drafts) : mails'[mailId + k] = drafts[k]
         /\ \A m \in DOMAIN mails' : mails'[m] \in Letters
<1> DEFINE n == Len(drafts)
<1>1. /\ n \in Nat /\ mailId + n <= MaxMails /\ mailId' = mailId + n
      /\ mails' = [m \in DOMAIN rows \cup ((mailId + 1) .. mailId') |->
                     IF m > mailId THEN drafts[m - mailId] ELSE rows[m]]
      /\ \A k \in 1 .. n : drafts[k] \in Letters
  BY DEF SendTo
<1> HIDE DEF n
<1>2. mailId' \in 0 .. MaxMails
  BY <1>1, AuctionsAssumption
<1>3. (mailId + 1) .. mailId' = {mailId + k : k \in 1 .. n}
  <2>1. ASSUME NEW m \in (mailId + 1) .. mailId'
        PROVE  m - mailId \in 1 .. n /\ mailId + (m - mailId) = m
    BY <1>1, <2>1
  <2>2. \A k \in 1 .. n : mailId + k \in (mailId + 1) .. mailId'
    BY <1>1
  <2> QED
    BY <2>1, <2>2
<1>4. \A m \in DOMAIN rows : mails'[m] = rows[m]
  BY <1>1
<1>5. \A k \in 1 .. n : mails'[mailId + k] = drafts[k]
  BY <1>1
<1>6. DOMAIN mails' = DOMAIN rows \cup {mailId + k : k \in 1 .. n}
  BY <1>1, <1>3
<1>7. DOMAIN mails' \subseteq 1 .. mailId'
  BY <1>1
<1>8. \A m \in DOMAIN mails' : mails'[m] \in Letters
  BY <1>1, <1>4, <1>5, <1>6
<1> QED
  BY <1>1, <1>2, <1>4, <1>5, <1>6, <1>7, <1>8 DEF n

(* Where the item is afterwards.                                           *)
LEMMA MailedAfter ==
  ASSUME mailId \in Nat, NEW rows, DOMAIN rows \subseteq 1 .. mailId,
         \A m \in DOMAIN rows : rows[m] \in Letters,
         NEW drafts \in Seq(Letters), SendTo(rows, drafts),
         NEW k \in 0 .. Len(drafts), NEW item, Carries(drafts, k, item),
         NEW x \in Items
  PROVE  Mailed(x)' = {m \in DOMAIN rows : rows[m].item = x}
                      \cup (IF x = item /\ k # 0 THEN {mailId + k} ELSE {})
<1> DEFINE n == Len(drafts)
<1>1. /\ DOMAIN mails' = DOMAIN rows \cup {mailId + j : j \in 1 .. n}
      /\ \A m \in DOMAIN rows : mails'[m] = rows[m]
      /\ \A j \in 1 .. n : mails'[mailId + j] = drafts[j]
  BY Sent
<1>2. n \in Nat /\ k \in Nat /\ (k # 0 => k \in 1 .. n)
  OBVIOUS
<1> HIDE DEF n
<1>3. \A j \in 1 .. n : mails'[mailId + j].item = IF j = k THEN item ELSE NoItem
  BY <1>1 DEF Carries, n
<1>4. x # NoItem
  BY AuctionsAssumption
<1>5. Mailed(x)' = {m \in DOMAIN mails' : mails'[m].item = x}
  BY DEF Mailed
<1>6. ASSUME NEW m \in DOMAIN mails', mails'[m].item = x
      PROVE  \/ m \in DOMAIN rows /\ rows[m].item = x
             \/ x = item /\ k # 0 /\ m = mailId + k
  <2>1. CASE m \in DOMAIN rows
    BY <1>1, <1>6, <2>1
  <2>2. ASSUME NEW j \in 1 .. n, m = mailId + j
        PROVE  x = item /\ k # 0 /\ m = mailId + k
    <3>1. mails'[m].item = IF j = k THEN item ELSE NoItem
      BY <1>3, <2>2
    <3>2. j = k /\ x = item
      BY <1>4, <1>6, <3>1
    <3> QED
      BY <1>2, <2>2, <3>2
  <2> QED
    BY <1>1, <2>1, <2>2
<1>7. ASSUME x = item, k # 0
      PROVE  mailId + k \in DOMAIN mails' /\ mails'[mailId + k].item = x
  BY <1>1, <1>2, <1>3, <1>7
<1>8. \A m \in DOMAIN rows : m \in DOMAIN mails' /\ mails'[m].item = rows[m].item
  BY <1>1
<1> QED
  BY <1>5, <1>6, <1>7, <1>8

LEMMA MailedWithOne ==
  ASSUME mailId \in Nat, NEW rows, DOMAIN rows \subseteq 1 .. mailId,
         \A m \in DOMAIN rows : rows[m] \in Letters,
         NEW drafts \in Seq(Letters), SendTo(rows, drafts), Len(drafts) = 1,
         NEW item, Carries(drafts, 1, item), NEW x \in Items
  PROVE  Mailed(x)' = {m \in DOMAIN rows : rows[m].item = x}
                      \cup (IF x = item THEN {mailId + 1} ELSE {})
<1>1. \A k \in 0 .. Len(drafts) : Carries(drafts, k, item) =>
        Mailed(x)' = {m \in DOMAIN rows : rows[m].item = x}
                     \cup (IF x = item /\ k # 0 THEN {mailId + k} ELSE {})
  BY MailedAfter
<1>2. 1 \in 0 .. Len(drafts)
  OBVIOUS
<1> QED
  BY <1>1, <1>2

(* The mails of auctions are well formed and carry at most the item.       *)
LEMMA OutbiddedType ==
  ASSUME NEW a \in Auction, NEW bidder, NEW price
  PROVE  LET d == OutbiddedMail(a, bidder, price)
         IN d \in Seq(Letters) /\ Carries(d, 0, NoItem) /\ Len(d) \in {0, 1}
<1> DEFINE m == Draft(NoPlayer, a.bidder, a.bid, NoItem, 0)
<1>1. CASE a.bidder \in {NoPlayer, bidder}
  BY <1>1 DEF OutbiddedMail, Carries
<1>2. CASE a.bidder \notin {NoPlayer, bidder}
  <2>1. OutbiddedMail(a, bidder, price) = <<m>>
    BY <1>2 DEF OutbiddedMail
  <2>2. a.bidder \in Players /\ a.bid \in Nat
    BY <1>2 DEF Auction
  <2>3. m \in Letters /\ m.item = NoItem
    BY <2>2 DEF Draft, Letters, Mail
  <2> HIDE DEF m
  <2> QED
    BY <2>1, <2>3 DEF Carries
<1> QED
  BY <1>1, <1>2

LEMMA SaleType ==
  ASSUME NEW a \in Auction, NEW bidder \in Players, NEW bid \in Nat
  PROVE  LET d == SaleMails(a, bidder, bid)
         IN d \in Seq(Letters) /\ Carries(d, 2, a.item) /\ Len(d) = 2
<1>1. bid + Deposit - Cut(bid) \in Nat
  BY CutType, AuctionsAssumption
<1> QED
  BY <1>1 DEF SaleMails, Draft, Letters, Mail, Auction, Carries

LEMMA JoinType ==
  ASSUME NEW d \in Seq(Letters), NEW e \in Seq(Letters), NEW item, NEW k \in 1 .. Len(e),
         Carries(d, 0, NoItem), Carries(e, k, item)
  PROVE  /\ d \o e \in Seq(Letters)
         /\ Len(d) + k \in Nat \ {0} /\ Len(d) + k <= Len(d \o e)
         /\ Carries(d \o e, Len(d) + k, item)
<1>1. /\ d \o e \in Seq(Letters) /\ Len(d) \in Nat /\ Len(e) \in Nat
      /\ Len(d \o e) = Len(d) + Len(e)
      /\ \A j \in 1 .. Len(d) : (d \o e)[j] = d[j]
      /\ \A j \in Len(d) + 1 .. Len(d) + Len(e) : (d \o e)[j] = e[j - Len(d)]
  OBVIOUS
<1>2. k \in Nat \ {0} /\ k <= Len(e)
  BY <1>1
<1>3. Len(d) + k \in Nat \ {0} /\ Len(d) + k <= Len(d \o e)
  BY <1>1, <1>2
<1>4. ASSUME NEW j \in 1 .. Len(d \o e)
      PROVE  (d \o e)[j].item = IF j = Len(d) + k THEN item ELSE NoItem
  <2>1. CASE j \in 1 .. Len(d)
    <3>1. j # Len(d) + k /\ j # 0
      BY <1>1, <1>2, <2>1
    <3>2. d[j].item = NoItem
      BY <2>1, <3>1 DEF Carries
    <3> QED
      BY <1>1, <2>1, <3>1, <3>2
  <2>2. CASE j \notin 1 .. Len(d)
    <3>1. /\ j \in Len(d) + 1 .. Len(d) + Len(e) /\ j - Len(d) \in 1 .. Len(e)
          /\ j - Len(d) = k <=> j = Len(d) + k
      BY <1>1, <1>2, <2>2
    <3>2. e[j - Len(d)].item = IF j - Len(d) = k THEN item ELSE NoItem
      BY <3>1 DEF Carries
    <3> QED
      BY <1>1, <3>1, <3>2
  <2> QED
    BY <2>1, <2>2
<1>5. Carries(d \o e, Len(d) + k, item)
  BY <1>4 DEF Carries
<1> QED
  BY <1>1, <1>3, <1>5

LEMMA OneType ==
  ASSUME NEW m \in Letters
  PROVE  /\ <<m>> \in Seq(Letters) /\ Len(<<m>>) = 1
         /\ Carries(<<m>>, 1, m.item)
         /\ m.item = NoItem => Carries(<<m>>, 0, NoItem)
  BY DEF Carries

-----------------------------------------------------------------------------
(* Types                                                                   *)

RowTypes ==
  /\ DOMAIN mails \subseteq 1 .. mailId /\ mailId \in 0 .. MaxMails
  /\ \A m \in DOMAIN mails : mails[m] \in Letters

BoxTypes ==
  /\ box \in [Players -> SUBSET (1 .. mailId)]
  /\ mitems \in [Players -> SUBSET Items]
  /\ adding \in [Players -> 0 .. mailId]
  /\ torn \in BOOLEAN

HouseTypes ==
  /\ auctionId \in 0 .. MaxAuctions
  /\ DOMAIN auctions \subseteq 1 .. auctionId
  /\ \A a \in DOMAIN auctions : auctions[a] \in Auction
  /\ aitems \subseteq Items

PurseTypes ==
  /\ gold \in [Players -> 0 .. MaxMoney]
  /\ inventory \in [Players -> SUBSET Items]
  /\ spent \in Nat /\ forgone \in Nat

Typed == RowTypes /\ BoxTypes /\ HouseTypes /\ PurseTypes

LEMMA TypeParts == Typed => TypeOK
  BY DEF Typed, TypeOK, RowTypes, BoxTypes, HouseTypes, PurseTypes, Letters

(* A step pays n: the fees and the cut of the house, all of it booked as   *)
(* spent unless the cut overflowed, and then as forgone if not.            *)
Booked(n) ==
  /\ spent' \in Nat /\ forgone' \in Nat
  /\ spent' <= spent + n
  /\ spent + forgone + n <= spent' + forgone'

LEMMA SpendBooks ==
  ASSUME PurseTypes, NEW fee \in Nat, NEW bid \in Nat, Spend(fee, bid)
  PROVE  Booked(fee + Cut(bid))
<1> DEFINE cut == Cut(bid)
<1> DEFINE due == Percentage(bid)
<1>1. spent \in Nat /\ forgone \in Nat /\ cut \in Nat /\ due \in Nat /\ cut <= due
  BY CutType DEF PurseTypes
<1>2. \/ spent' = spent + fee + due /\ forgone' = forgone /\ cut = due
      \/ spent' = spent + fee /\ forgone' = forgone + due
  BY CutType DEF Spend
<1> HIDE DEF cut, due
<1>3. Booked(fee + cut)
  BY <1>1, <1>2 DEF Booked
<1> QED
  BY <1>3 DEF cut

LEMMA NoCut == Cut(0) = 0
<1>1. CutPercent * 0 = 0 /\ Word \in Nat /\ Word > 0
  BY AuctionsAssumption
<1>2. 0 % Word = 0
  BY <1>1
<1> QED
  BY <1>1, <1>2 DEF Cut

(* A fee only.                                                             *)
LEMMA FeeBooks ==
  ASSUME PurseTypes, NEW fee \in Nat, Spend(fee, 0)
  PROVE  Booked(fee)
<1>1. Booked(fee + Cut(0))
  BY SpendBooks
<1>2. fee + Cut(0) = fee
  BY NoCut
<1> QED
  BY <1>1, <1>2

LEMMA NothingBooked ==
  ASSUME PurseTypes, UNCHANGED books
  PROVE  Booked(0)
  BY DEF PurseTypes, books, Booked

(* A mail that is read, or thrown away, leaves rows of mails.             *)
LEMMA LessType ==
  ASSUME RowTypes, NEW m \in DOMAIN mails
  PROVE  /\ mailId \in Nat
         /\ DOMAIN Without(mails, m) = DOMAIN mails \ {m}
         /\ \A n \in DOMAIN Without(mails, m) :
              Without(mails, m)[n] = mails[n] /\ mails[n] \in Letters
  BY AuctionsAssumption DEF RowTypes, Without

LEMMA SendMailTypes ==
  ASSUME RowTypes, NEW drafts \in Seq(Letters), SendMail(drafts)
  PROVE  RowTypes'
<1>1. mailId \in Nat
  BY AuctionsAssumption DEF RowTypes
<1> QED
  BY <1>1, Sent DEF SendMail, RowTypes

LEMMA RemoveTypes ==
  ASSUME HouseTypes, NEW a, RemoveAuction(a), UNCHANGED auctionId
  PROVE  HouseTypes'
  BY DEF HouseTypes, RemoveAuction, Without

LEMMA PayTypes ==
  ASSUME PurseTypes, NEW p \in Players, NEW n \in Nat, n <= gold[p],
         gold' = [gold EXCEPT ![p] = @ - n]
  PROVE  gold' \in [Players -> 0 .. MaxMoney]
<1>1. gold[p] - n \in 0 .. MaxMoney
  BY AuctionsAssumption DEF PurseTypes
<1> QED
  BY <1>1 DEF PurseTypes

(* What the handlers send: the drafts, and the item one of them carries.   *)
Sends(item) ==
  \E d \in Seq(Letters), k \in Nat \ {0} :
    SendMail(d) /\ k <= Len(d) /\ Carries(d, k, item)

LEMMA SendsBy ==
  ASSUME NEW d \in Seq(Letters), NEW k \in Nat, k # 0, NEW item,
         SendMail(d), k <= Len(d), Carries(d, k, item)
  PROVE  Sends(item)
  BY DEF Sends

LEMMA BidMails ==
  ASSUME HouseTypes, NEW p, NEW a \in DOMAIN auctions, NEW price,
         Bid(p, a, price)
  PROVE  \E d \in Seq(Letters) : SendMail(d) /\ Carries(d, 0, NoItem)
  BY OutbiddedType DEF Bid, HouseTypes

LEMMA SendsOne ==
  ASSUME NEW m \in Letters, SendMail(<<m>>)
  PROVE  Sends(m.item)
<1> DEFINE d == <<m>>
<1>1. d \in Seq(Letters) /\ Len(d) = 1 /\ Carries(d, 1, m.item) /\ SendMail(d)
  BY OneType
<1> HIDE DEF d
<1>2. 1 \in Nat /\ 1 # 0 /\ 1 <= Len(d)
  BY <1>1
<1> QED
  BY <1>1, <1>2, SendsBy

LEMMA NamedPrices == Prices \cup {0} \subseteq Nat /\ Amounts \cup {0} \subseteq Nat
  BY AuctionsAssumption

LEMMA BuyoutMails ==
  ASSUME HouseTypes, NEW p \in Players, NEW a \in DOMAIN auctions, NEW price,
         Buyout(p, a, price)
  PROVE  Sends(auctions[a].item)
<1> DEFINE d == OutbiddedMail(auctions[a], p, auctions[a].buyout)
<1> DEFINE e == SaleMails(auctions[a], p, auctions[a].buyout)
<1>1. auctions[a] \in Auction /\ auctions[a].buyout \in Nat
  <2>1. auctions[a] \in Auction /\ auctions[a].buyout \in Prices \cup {0}
    BY DEF HouseTypes, Auction
  <2> QED
    BY <2>1, NamedPrices
<1>2. SendMail(d \o e)
  BY DEF Buyout
<1>3. /\ d \in Seq(Letters) /\ Carries(d, 0, NoItem)
      /\ e \in Seq(Letters) /\ Carries(e, 2, auctions[a].item) /\ Len(e) = 2
  BY <1>1, OutbiddedType, SaleType
<1> HIDE DEF d, e
<1>4. 2 \in 1 .. Len(e)
  BY <1>3
<1>5. /\ d \o e \in Seq(Letters)
      /\ Len(d) + 2 \in Nat \ {0} /\ Len(d) + 2 <= Len(d \o e)
      /\ Carries(d \o e, Len(d) + 2, auctions[a].item)
  BY <1>3, <1>4, JoinType
<1> QED
  BY <1>2, <1>5, SendsBy

LEMMA CancelMails ==
  ASSUME HouseTypes, NEW p \in Players, NEW a \in DOMAIN auctions,
         Cancel(p, a)
  PROVE  Sends(auctions[a].item)
<1> DEFINE back == Draft(NoPlayer, p, 0, auctions[a].item, 0)
<1> DEFINE refund ==
      Draft(NoPlayer, auctions[a].bidder, auctions[a].bid, NoItem, 0)
<1>1. auctions[a] \in Auction /\ back \in Letters /\ back.item = auctions[a].item
  BY DEF HouseTypes, Auction, Draft, Letters, Mail
<1>2. /\ <<back>> \in Seq(Letters) /\ Len(<<back>>) = 1 /\ 1 \in Nat \ {0}
      /\ Carries(<<back>>, 1, auctions[a].item)
  BY <1>1, OneType
<1>3. CASE auctions[a].bidder = NoPlayer
  <2>1. SendMail(<<>> \o <<back>>)
    BY <1>3 DEF Cancel
  <2> HIDE DEF back
  <2>2. <<>> \o <<back>> = <<back>>
    OBVIOUS
  <2> QED
    BY <1>1, <2>1, <2>2, SendsOne
<1>4. CASE auctions[a].bidder # NoPlayer
  <2>1. SendMail(<<refund>> \o <<back>>)
    BY <1>4 DEF Cancel
  <2>2. refund \in Letters /\ refund.item = NoItem
    BY <1>1, <1>4 DEF Auction, Draft, Letters, Mail
  <2> HIDE DEF back, refund
  <2>3. <<refund>> \in Seq(Letters) /\ Carries(<<refund>>, 0, NoItem)
    BY <2>2, OneType
  <2>4. 1 \in 1 .. Len(<<back>>)
    BY <1>2
  <2>5. /\ <<refund>> \o <<back>> \in Seq(Letters)
        /\ Len(<<refund>>) + 1 \in Nat \ {0}
        /\ Len(<<refund>>) + 1 <= Len(<<refund>> \o <<back>>)
        /\ Carries(<<refund>> \o <<back>>, Len(<<refund>>) + 1, auctions[a].item)
    BY <1>2, <2>3, <2>4, JoinType
  <2> QED
    BY <2>1, <2>5, SendsBy
<1> QED
  BY <1>3, <1>4

LEMMA ExpireMails ==
  ASSUME HouseTypes, NEW a \in DOMAIN auctions, Expire(a)
  PROVE  Sends(auctions[a].item)
<1> DEFINE back == Draft(NoPlayer, auctions[a].owner, 0, auctions[a].item, 0)
<1>1. /\ auctions[a] \in Auction
      /\ auctions[a].bid \in Nat /\ auctions[a].bidder \in Players \cup {NoPlayer}
      /\ back \in Letters /\ back.item = auctions[a].item
  BY DEF HouseTypes, Auction, Draft, Letters, Mail
<1>2. CASE auctions[a].bidder = NoPlayer
  <2>1. SendMail(<<back>>)
    BY <1>2 DEF Expire
  <2> HIDE DEF back
  <2> QED
    BY <1>1, <2>1, SendsOne
<1>3. CASE auctions[a].bidder # NoPlayer
  <2> DEFINE e == SaleMails(auctions[a], auctions[a].bidder, auctions[a].bid)
  <2>1. SendMail(e)
    BY <1>3 DEF Expire
  <2>2. /\ e \in Seq(Letters) /\ Len(e) = 2 /\ 2 \in Nat \ {0}
        /\ Carries(e, 2, auctions[a].item)
    BY <1>1, <1>3, SaleType
  <2> HIDE DEF e
  <2> QED
    BY <2>1, <2>2, SendsBy
<1> QED
  BY <1>2, <1>3

LEMMA PostMails ==
  ASSUME RowTypes, NEW p \in Players, NEW q \in Players,
         NEW item \in Items \cup {NoItem},
         NEW money \in Amounts \cup {0}, NEW cod \in Amounts \cup {0},
         Post(p, q, item, money, cod)
  PROVE  /\ RowTypes'
         /\ \E k : \A x \in Items :
              Mailed(x)' = Mailed(x) \cup (IF x = item THEN {k} ELSE {})
<1> DEFINE m == Draft(p, q, money, item, cod)
<1> DEFINE d == <<m>>
<1>1. m \in Letters /\ m.item = item
  BY AuctionsAssumption DEF Draft, Letters, Mail
<1>2. SendTo(mails, d)
  BY DEF Post
<1> HIDE DEF m
<1>3. d \in Seq(Letters) /\ Len(d) = 1 /\ Carries(d, 1, item)
  BY <1>1, OneType
<1> HIDE DEF d
<1>4. /\ mailId \in Nat /\ DOMAIN mails \subseteq 1 .. mailId
      /\ \A n \in DOMAIN mails : mails[n] \in Letters
  BY AuctionsAssumption DEF RowTypes
<1>5. RowTypes'
  BY <1>2, <1>3, <1>4, Sent DEF RowTypes
<1>6. ASSUME NEW x \in Items
      PROVE  Mailed(x)' = Mailed(x) \cup (IF x = item THEN {mailId + 1} ELSE {})
  <2>1. Mailed(x)' = {n \in DOMAIN mails : mails[n].item = x}
                     \cup (IF x = item THEN {mailId + 1} ELSE {})
    BY <1>2, <1>3, <1>4, MailedWithOne
  <2> QED
    BY <2>1 DEF Mailed
<1> QED
  BY <1>5, <1>6

LEMMA TakeItemMails ==
  ASSUME RowTypes, NEW p \in Players, NEW m \in DOMAIN mails, TakeItem(p, m)
  PROVE  RowTypes' /\ \A x \in Items : Mailed(x)' = Mailed(x) \ {m}
<1> DEFINE rows == [mails EXCEPT ![m].item = NoItem, ![m].cod = 0]
<1> DEFINE draft == Draft(p, mails[m].sender, mails[m].cod, NoItem, 0)
<1> DEFINE d == IF mails[m].cod = 0 THEN <<>> ELSE <<draft>>
<1>1. SendTo(rows, d)
  BY DEF TakeItem
<1>2. mails[m] \in Letters /\ DOMAIN mails \subseteq 1 .. mailId /\ mailId \in Nat
  BY AuctionsAssumption DEF RowTypes
<1>3. /\ DOMAIN rows = DOMAIN mails
      /\ rows[m] = [mails[m] EXCEPT !.item = NoItem, !.cod = 0]
      /\ \A n \in DOMAIN mails : n # m => rows[n] = mails[n]
  OBVIOUS
<1>4. rows[m] \in Letters /\ rows[m].item = NoItem
  BY <1>2, <1>3 DEF Letters, Mail
<1>5. \A n \in DOMAIN rows : rows[n] \in Letters
  BY <1>3, <1>4 DEF RowTypes
<1>6. d \in Seq(Letters) /\ Carries(d, 0, NoItem) /\ 0 \in 0 .. Len(d)
  <2>1. CASE mails[m].cod = 0
    BY <2>1 DEF Carries
  <2>2. CASE mails[m].cod # 0
    <3>1. draft \in Letters /\ draft.item = NoItem
      BY <1>2, <2>2, AuctionsAssumption DEF Draft, Letters, Mail
    <3> HIDE DEF draft
    <3>2. <<draft>> \in Seq(Letters) /\ Carries(<<draft>>, 0, NoItem)
          /\ Len(<<draft>>) = 1
      BY <3>1, OneType
    <3> QED
      BY <2>2, <3>2
  <2> QED
    BY <2>1, <2>2
<1> HIDE DEF rows, d
<1>7. RowTypes'
  BY <1>1, <1>2, <1>3, <1>5, <1>6, Sent DEF RowTypes
<1>8. ASSUME NEW x \in Items PROVE Mailed(x)' = Mailed(x) \ {m}
  <2>1. Mailed(x)' = {n \in DOMAIN rows : rows[n].item = x}
    BY <1>1, <1>2, <1>3, <1>5, <1>6, MailedAfter
  <2>2. x # NoItem
    BY AuctionsAssumption
  <2> QED
    BY <1>3, <1>4, <2>1, <2>2 DEF Mailed
<1> QED
  BY <1>7, <1>8

LEMMA TakeMoneyMails ==
  ASSUME RowTypes, NEW p \in Players, NEW m \in DOMAIN mails, TakeMoney(p, m)
  PROVE  RowTypes' /\ \A x \in Items : Mailed(x)' = Mailed(x)
<1>1. /\ mails' = [mails EXCEPT ![m].money = 0] /\ mailId' = mailId
      /\ mails[m] \in Letters
  BY DEF TakeMoney, RowTypes
<1>2. /\ DOMAIN mails' = DOMAIN mails
      /\ mails'[m] = [mails[m] EXCEPT !.money = 0]
      /\ \A n \in DOMAIN mails : n # m => mails'[n] = mails[n]
  BY <1>1
<1>3. mails'[m] \in Letters /\ mails'[m].item = mails[m].item
  BY <1>1, <1>2 DEF Letters, Mail
<1>4. RowTypes'
  BY <1>1, <1>2, <1>3 DEF RowTypes
<1>5. \A x \in Items : Mailed(x)' = Mailed(x)
  BY <1>2, <1>3 DEF Mailed
<1> QED
  BY <1>4, <1>5

LEMMA DeleteMails ==
  ASSUME RowTypes, NEW p \in Players, NEW m \in DOMAIN mails, Delete(p, m)
  PROVE  RowTypes' /\ \A x \in Items : Mailed(x)' = Mailed(x) \ {m}
<1>1. mails' = Without(mails, m) /\ mailId' = mailId
  BY DEF Delete
<1>2. /\ DOMAIN mails' = DOMAIN mails \ {m}
      /\ \A n \in DOMAIN mails' : mails'[n] = mails[n]
  BY <1>1 DEF Without
<1> QED
  BY <1>1, <1>2 DEF RowTypes, Mailed

LEMMA ReturnMails ==
  ASSUME RowTypes, NEW p \in Players, NEW m \in DOMAIN mails, Return(p, m)
  PROVE  /\ RowTypes'
         /\ \/ \A x \in Items : Mailed(x)' = Mailed(x) \ {m}
            \/ \A x \in Items : Mailed(x)' = (Mailed(x) \ {m})
                 \cup (IF x = mails[m].item THEN {mailId + 1} ELSE {})
<1> DEFINE rows == Without(mails, m)
<1>1. /\ mails[m] \in Letters /\ DOMAIN mails \subseteq 1 .. mailId
      /\ mailId \in Nat
  BY AuctionsAssumption DEF RowTypes
<1>2. /\ DOMAIN rows = DOMAIN mails \ {m}
      /\ \A n \in DOMAIN rows : rows[n] = mails[n] /\ rows[n] \in Letters
      /\ DOMAIN rows \subseteq 1 .. mailId
  BY LessType, <1>1
<1>3. \/ mails[m].sender = NoPlayer /\ SendTo(rows, <<>>)
      \/ mails[m].sender # NoPlayer /\ SendTo(rows, <<ReturnDraft(p, mails[m])>>)
  BY DEF Return
<1> HIDE DEF rows
<1>4. \A x \in Items : {n \in DOMAIN rows : rows[n].item = x} = Mailed(x) \ {m}
  BY <1>2 DEF Mailed
<1>5. CASE mails[m].sender = NoPlayer /\ SendTo(rows, <<>>)
  <2> DEFINE d == <<>>
  <2>1. /\ d \in Seq(Letters) /\ Carries(d, 0, NoItem) /\ 0 \in 0 .. Len(d)
        /\ SendTo(rows, d)
    BY <1>5 DEF Carries
  <2> HIDE DEF d
  <2>2. RowTypes'
    BY <1>1, <1>2, <2>1, Sent DEF RowTypes
  <2>3. ASSUME NEW x \in Items PROVE Mailed(x)' = Mailed(x) \ {m}
    <3>1. Mailed(x)' = {n \in DOMAIN rows : rows[n].item = x}
      BY <1>1, <1>2, <2>1, MailedAfter
    <3> QED
      BY <1>4, <3>1
  <2> QED
    BY <2>2, <2>3
<1>6. CASE mails[m].sender # NoPlayer /\ SendTo(rows, <<ReturnDraft(p, mails[m])>>)
  <2> DEFINE r == ReturnDraft(p, mails[m])
  <2>1. r \in Letters /\ r.item \in {mails[m].item, NoItem}
    BY <1>1, <1>6, AuctionsAssumption DEF ReturnDraft, Draft, Letters, Mail
  <2> DEFINE d == <<r>>
  <2>2. SendTo(rows, d)
    BY <1>6
  <2> HIDE DEF r
  <2>3. d \in Seq(Letters) /\ Carries(d, 1, r.item) /\ Len(d) = 1
    BY <2>1, OneType
  <2> HIDE DEF d
  <2>4. RowTypes'
    BY <1>1, <1>2, <2>2, <2>3, Sent DEF RowTypes
  <2>5. ASSUME NEW x \in Items
        PROVE  Mailed(x)' = (Mailed(x) \ {m}) \cup (IF x = r.item THEN {mailId + 1} ELSE {})
    <3>1. Mailed(x)' = {n \in DOMAIN rows : rows[n].item = x}
            \cup (IF x = r.item THEN {mailId + 1} ELSE {})
      BY <1>1, <1>2, <2>2, <2>3, MailedWithOne
    <3> QED
      BY <1>4, <3>1
  <2>6. CASE r.item = mails[m].item
    BY <2>4, <2>5, <2>6
  <2>7. CASE r.item = NoItem
    <3>1. \A x \in Items : x # r.item
      BY <2>7, AuctionsAssumption
    <3>2. \A x \in Items : Mailed(x)' = Mailed(x) \ {m}
      BY <2>5, <3>1
    <3> QED
      BY <2>4, <3>2
  <2> QED
    BY <2>1, <2>6, <2>7
<1> QED
  BY <1>3, <1>5, <1>6

-----------------------------------------------------------------------------
(* Every step keeps the types                                              *)

LEMMA SendsTypes ==
  ASSUME RowTypes, NEW item, Sends(item)
  PROVE  RowTypes'
  BY SendMailTypes DEF Sends

(* The rows that were there keep their receivers.                          *)
OldMails ==
  /\ mailId \in Nat /\ mailId' \in Nat /\ mailId <= mailId'
  /\ \A m \in DOMAIN mails' :
       m <= mailId => m \in DOMAIN mails /\ mails'[m].to = mails[m].to

(* What is in a mailbox is addressed to its player.                        *)
Addressed ==
  \A p \in Players : \A m \in box[p] \cap DOMAIN mails : mails[m].to = p

LEMMA OldSent ==
  ASSUME RowTypes, NEW rows, DOMAIN rows \subseteq DOMAIN mails,
         \A m \in DOMAIN rows : rows[m].to = mails[m].to,
         NEW d, Len(d) \in Nat, SendTo(rows, d)
  PROVE  OldMails
<1>1. mailId \in Nat
  BY AuctionsAssumption DEF RowTypes
<1>2. /\ mailId' = mailId + Len(d)
      /\ mails' = [m \in DOMAIN rows \cup ((mailId + 1) .. mailId') |->
                     IF m > mailId THEN d[m - mailId] ELSE rows[m]]
  BY DEF SendTo
<1>3. mailId' \in Nat /\ mailId <= mailId'
  BY <1>1, <1>2
<1>4. ASSUME NEW m \in DOMAIN mails', m <= mailId
      PROVE  m \in DOMAIN mails /\ mails'[m].to = mails[m].to
  <2>1. m \in DOMAIN rows \cup ((mailId + 1) .. mailId')
    BY <1>2, <1>4
  <2>2. m \in DOMAIN rows
    BY <1>1, <1>3, <1>4, <2>1
  <2>3. m \in Nat
    BY <1>1, <2>2 DEF RowTypes
  <2>4. mails'[m] = rows[m]
    BY <1>1, <1>2, <1>4, <2>2, <2>3
  <2> QED
    BY <2>2, <2>4
<1> QED
  BY <1>1, <1>3, <1>4 DEF OldMails

(* Mailboxes that only lose mails, and who adds one.                       *)
LEMMA BoxesShrink ==
  ASSUME BoxTypes, Addressed, OldMails, \A q \in Players : box'[q] \subseteq box[q],
         box' \in [Players -> SUBSET (1 .. mailId)],
         mitems' \in [Players -> SUBSET Items],
         adding' \in [Players -> 0 .. mailId'], torn' \in BOOLEAN
  PROVE  BoxTypes' /\ Addressed'
<1>1. 1 .. mailId \subseteq 1 .. mailId'
  BY DEF OldMails
<1>2. box' \in [Players -> SUBSET (1 .. mailId')]
  BY <1>1
<1>3. ASSUME NEW q \in Players, NEW m \in box'[q], m \in DOMAIN mails'
      PROVE  mails'[m].to = q
  <2>1. m \in box[q] /\ m \in 1 .. mailId
    BY <1>3
  <2>2. m <= mailId
    BY <2>1 DEF OldMails
  <2>3. m \in DOMAIN mails /\ mails'[m].to = mails[m].to
    BY <1>3, <2>2 DEF OldMails
  <2> QED
    BY <2>1, <2>3 DEF Addressed
<1>4. BoxTypes'
  BY <1>2 DEF BoxTypes
<1>5. Addressed'
  BY <1>3 DEF Addressed
<1> QED
  BY <1>4, <1>5

LEMMA AddingKept ==
  ASSUME BoxTypes, OldMails, UNCHANGED adding
  PROVE  adding' \in [Players -> 0 .. mailId']
<1>1. 0 .. mailId \subseteq 0 .. mailId'
  BY DEF OldMails
<1> QED
  BY <1>1 DEF BoxTypes

LEMMA Delivered ==
  ASSUME RowTypes, BoxTypes, Addressed,
         NEW rows, DOMAIN rows \subseteq DOMAIN mails,
         \A m \in DOMAIN rows : rows[m].to = mails[m].to,
         NEW d, Len(d) \in Nat, DOMAIN d = 1 .. Len(d), SendTo(rows, d),
         NEW b, \A q \in Players : b[q] \subseteq box[q],
         NEW i \in [Players -> SUBSET Items], Deliver(b, i, d)
  PROVE  BoxTypes' /\ Addressed'
<1> DEFINE To(q) == {n \in DOMAIN d : d[n].to = q}
<1>1. OldMails
  BY OldSent
<1>2. /\ box' = [q \in Players |-> b[q] \cup {mailId + n : n \in To(q)}]
      /\ mitems' = [q \in Players |-> i[q] \cup (Items \cap {d[n].item : n \in To(q)})]
      /\ adding' = adding /\ torn' = torn
  BY DEF Deliver
<1>3. mailId \in Nat /\ mailId' = mailId + Len(d)
  BY <1>1 DEF OldMails, SendTo
<1>4. \A n \in DOMAIN d : /\ mailId + n \in 1 .. mailId' /\ mailId + n > mailId
                          /\ (mailId + n) - mailId = n
  BY <1>3
<1>5. \A q \in Players : b[q] \subseteq 1 .. mailId'
  <2>1. 1 .. mailId \subseteq 1 .. mailId'
    BY <1>3
  <2> QED
    BY <2>1 DEF BoxTypes
<1>6. box' \in [Players -> SUBSET (1 .. mailId')]
  BY <1>2, <1>4, <1>5
<1>7. mitems' \in [Players -> SUBSET Items]
  BY <1>2
<1>8. BoxTypes'
  BY <1>1, <1>2, <1>6, <1>7, AddingKept DEF BoxTypes
<1>9. ASSUME NEW q \in Players, NEW m \in box'[q], m \in DOMAIN mails'
      PROVE  mails'[m].to = q
  <2>1. CASE m \in b[q]
    <3>1. m \in box[q] /\ m \in 1 .. mailId
      BY <2>1 DEF BoxTypes
    <3>2. m <= mailId
      BY <1>3, <3>1
    <3>3. m \in DOMAIN mails /\ mails'[m].to = mails[m].to
      BY <1>1, <1>9, <3>2 DEF OldMails
    <3> QED
      BY <3>1, <3>3 DEF Addressed
  <2>2. ASSUME NEW n \in To(q), m = mailId + n
        PROVE  mails'[m].to = q
    <3>1. mails'[m] = d[n]
      BY <1>4, <1>9, <2>2 DEF SendTo
    <3> QED
      BY <3>1
  <2> QED
    BY <1>2, <1>9, <2>1, <2>2
<1>10. Addressed'
  BY <1>9 DEF Addressed
<1> QED
  BY <1>8, <1>10

LEMMA SendMailBoxes ==
  ASSUME RowTypes, BoxTypes, Addressed, NEW d \in Seq(Letters), SendMail(d)
  PROVE  BoxTypes' /\ Addressed'
<1>1. /\ Len(d) \in Nat /\ DOMAIN d = 1 .. Len(d)
      /\ SendTo(mails, d) /\ Deliver(box, mitems, d)
      /\ mitems \in [Players -> SUBSET Items]
  BY DEF SendMail, BoxTypes
<1> QED
  BY <1>1, Delivered

LEMMA BoxStep ==
  ASSUME Typed, Addressed, [Next]_vars
  PROVE  BoxTypes' /\ Addressed'
<1>1. RowTypes /\ BoxTypes /\ HouseTypes
  BY DEF Typed
<1>2. mailId \in Nat /\ DOMAIN mails \subseteq 1 .. mailId
  BY <1>1, AuctionsAssumption DEF RowTypes
<1>3. ASSUME UNCHANGED mailId, DOMAIN mails' \subseteq DOMAIN mails,
             \A m \in DOMAIN mails' : mails'[m].to = mails[m].to
      PROVE  OldMails
  BY <1>2, <1>3 DEF OldMails
<1>4. ASSUME OldMails, UNCHANGED <<box, mitems>>,
             adding' \in [Players -> 0 .. mailId'], torn' \in BOOLEAN
      PROVE  BoxTypes' /\ Addressed'
  BY <1>1, <1>4, BoxesShrink DEF BoxTypes
<1>5. ASSUME OldMails, UNCHANGED boxes PROVE BoxTypes' /\ Addressed'
  BY <1>1, <1>4, <1>5, AddingKept DEF boxes, BoxTypes
<1>6. ASSUME NEW p \in Players, NEW item, NEW startbid, NEW buyout,
             Sell(p, item, startbid, buyout)
      PROVE  BoxTypes' /\ Addressed'
  BY <1>3, <1>5, <1>6 DEF Sell
<1>7. ASSUME NEW p \in Players, NEW a \in DOMAIN auctions, NEW price \in Prices,
             Bid(p, a, price)
      PROVE  BoxTypes' /\ Addressed'
  BY <1>1, <1>7, BidMails, SendMailBoxes
<1>8. ASSUME NEW item, Sends(item) PROVE BoxTypes' /\ Addressed'
  BY <1>1, <1>8, SendMailBoxes DEF Sends
<1>9. ASSUME NEW p \in Players, NEW q \in Players, NEW item, NEW money, NEW cod,
             Post(p, q, item, money, cod)
      PROVE  BoxTypes' /\ Addressed'
  <2> DEFINE d == <<Draft(p, q, money, item, cod)>>
  <2>1. SendTo(mails, d) /\ Len(d) \in Nat
    BY <1>9 DEF Post
  <2> HIDE DEF d
  <2>2. OldMails
    BY <1>1, <2>1, OldSent
  <2>3. /\ UNCHANGED <<box, mitems>> /\ adding' = [adding EXCEPT ![p] = mailId']
        /\ torn' \in BOOLEAN
    BY <1>9 DEF Post
  <2>4. adding' \in [Players -> 0 .. mailId']
    <3>1. 0 .. mailId \subseteq 0 .. mailId' /\ mailId' \in 0 .. mailId'
      BY <2>2 DEF OldMails
    <3> QED
      BY <1>1, <2>3, <3>1 DEF BoxTypes
  <2> QED
    BY <1>4, <2>2, <2>3, <2>4
<1>10. ASSUME NEW p \in Players, Added(p) PROVE BoxTypes' /\ Addressed'
  <2> DEFINE m == adding[p]
  <2> DEFINE q == mails[m].to
  <2>1. /\ UNCHANGED <<mails, mailId>> /\ torn' \in BOOLEAN /\ m # 0
        /\ box' = [box EXCEPT ![q] = @ \cup {m}] \/ UNCHANGED box
        /\ \E found \in SUBSET (mitems[q] \cup (Items \cap {mails[m].item})) :
             mitems' = [mitems EXCEPT ![q] = found]
        /\ adding' = [adding EXCEPT ![p] = 0]
    BY <1>10 DEF Added
  <2>2. m \in 1 .. mailId
    BY <1>1, <1>2, <2>1 DEF BoxTypes
  <2> HIDE DEF m
  <2>3. mitems' \in [Players -> SUBSET Items]
    BY <1>1, <2>1 DEF BoxTypes
  <2>4. adding' \in [Players -> 0 .. mailId]
    BY <1>1, <1>2, <2>1 DEF BoxTypes
  <2>5. box' \in [Players -> SUBSET (1 .. mailId)]
    BY <1>1, <2>1, <2>2 DEF BoxTypes
  <2>6. BoxTypes'
    BY <2>1, <2>3, <2>4, <2>5 DEF BoxTypes
  <2>7. Addressed'
    BY <1>1, <2>1 DEF Addressed, BoxTypes
  <2> QED
    BY <2>6, <2>7
<1>11. ASSUME NEW p \in Players, NEW m \in DOMAIN mails, TakeItem(p, m)
       PROVE  BoxTypes' /\ Addressed'
  <2> DEFINE rows == [mails EXCEPT ![m].item = NoItem, ![m].cod = 0]
  <2> DEFINE d == IF mails[m].cod = 0 THEN <<>>
                  ELSE <<Draft(p, mails[m].sender, mails[m].cod, NoItem, 0)>>
  <2> DEFINE i == [mitems EXCEPT ![p] = @ \ {mails[m].item}]
  <2>1. SendTo(rows, d) /\ Deliver(Saved(p), i, d)
    BY <1>11 DEF TakeItem
  <2>2. Len(d) \in Nat /\ DOMAIN d = 1 .. Len(d)
    <3> DEFINE e == <<Draft(p, mails[m].sender, mails[m].cod, NoItem, 0)>>
    <3>1. Len(<<>>) \in Nat /\ DOMAIN <<>> = 1 .. Len(<<>>)
      OBVIOUS
    <3>2. Len(e) \in Nat /\ DOMAIN e = 1 .. Len(e)
      OBVIOUS
    <3>3. d = <<>> \/ d = e
      OBVIOUS
    <3> HIDE DEF d, e
    <3>4. CASE d = <<>>
      BY <3>1, <3>4, Zenon
    <3>5. CASE d = e
      BY <3>2, <3>5, Zenon
    <3> QED
      BY <3>3, <3>4, <3>5
  <2>3. DOMAIN rows = DOMAIN mails /\ \A n \in DOMAIN rows : rows[n].to = mails[n].to
    BY <1>1 DEF RowTypes, Letters, Mail
  <2>4. \A q \in Players : Saved(p)[q] \subseteq box[q]
    BY <1>1 DEF Saved, BoxTypes
  <2>5. i \in [Players -> SUBSET Items]
    BY <1>1 DEF BoxTypes
  <2> HIDE DEF rows, d, i
  <2> QED
    BY <1>1, <2>1, <2>2, <2>3, <2>4, <2>5, Delivered
<1>12. ASSUME NEW p \in Players, NEW m \in DOMAIN mails, TakeMoney(p, m)
       PROVE  BoxTypes' /\ Addressed'
  <2>1. mails' = [mails EXCEPT ![m].money = 0] /\ mailId' = mailId /\ SaveMails(p)
    BY <1>12 DEF TakeMoney
  <2>2. OldMails
    BY <1>1, <1>3, <2>1 DEF RowTypes, Letters, Mail
  <2>3. /\ box' = Saved(p) /\ torn' \in BOOLEAN /\ UNCHANGED mitems
        /\ \E missing : adding' = [r \in Players |-> IF r \in missing THEN 0 ELSE adding[r]]
    BY <2>1 DEF SaveMails
  <2>4. /\ box' \in [Players -> SUBSET (1 .. mailId)]
        /\ \A q \in Players : box'[q] \subseteq box[q]
    BY <1>1, <2>3 DEF Saved, BoxTypes
  <2>5. adding' \in [Players -> 0 .. mailId']
    BY <1>1, <1>2, <2>1, <2>3 DEF BoxTypes
  <2>6. mitems' \in [Players -> SUBSET Items]
    BY <1>1, <2>3 DEF BoxTypes
  <2> QED
    BY <1>1, <2>2, <2>3, <2>4, <2>5, <2>6, BoxesShrink
<1>13. ASSUME NEW p \in Players, NEW m \in DOMAIN mails, Delete(p, m)
       PROVE  BoxTypes' /\ Addressed'
  <2>1. /\ mails' = Without(mails, m) /\ mailId' = mailId
        /\ UNCHANGED <<box, mitems, adding>> /\ torn' \in BOOLEAN
    BY <1>13 DEF Delete
  <2>2. OldMails
    BY <1>3, <2>1 DEF Without
  <2> QED
    BY <1>1, <1>4, <2>1, <2>2, AddingKept
<1>14. ASSUME NEW p \in Players, NEW m \in DOMAIN mails, Return(p, m)
       PROVE  BoxTypes' /\ Addressed'
  <2> DEFINE rows == Without(mails, m)
  <2> DEFINE left == [box EXCEPT ![p] = @ \ {m}]
  <2> DEFINE i == [mitems EXCEPT ![p] = @ \ {mails[m].item}]
  <2> DEFINE e == <<ReturnDraft(p, mails[m])>>
  <2>1. \/ SendTo(rows, e) /\ Deliver(left, i, e)
        \/ SendTo(rows, <<>>) /\ Deliver(left, mitems, <<>>)
    BY <1>14 DEF Return
  <2>2. /\ Len(e) \in Nat /\ DOMAIN e = 1 .. Len(e)
        /\ Len(<<>>) \in Nat /\ DOMAIN <<>> = 1 .. Len(<<>>)
    OBVIOUS
  <2>3. DOMAIN rows \subseteq DOMAIN mails /\ \A n \in DOMAIN rows : rows[n].to = mails[n].to
    BY DEF Without
  <2>4. \A q \in Players : left[q] \subseteq box[q]
    BY <1>1 DEF BoxTypes
  <2>5. i \in [Players -> SUBSET Items] /\ mitems \in [Players -> SUBSET Items]
    BY <1>1 DEF BoxTypes
  <2> HIDE DEF rows, left, i, e
  <2>6. ASSUME SendTo(rows, e), Deliver(left, i, e) PROVE BoxTypes' /\ Addressed'
    BY <1>1, <2>2, <2>3, <2>4, <2>5, <2>6, Delivered
  <2>7. ASSUME SendTo(rows, <<>>), Deliver(left, mitems, <<>>)
        PROVE  BoxTypes' /\ Addressed'
    <3> DEFINE d == <<>>
    <3>1. /\ Len(d) \in Nat /\ DOMAIN d = 1 .. Len(d)
          /\ SendTo(rows, d) /\ Deliver(left, mitems, d)
      BY <2>2, <2>7
    <3> HIDE DEF d
    <3> QED
      BY <1>1, <2>3, <2>4, <2>5, <3>1, Delivered
  <2> QED
    BY <2>1, <2>6, <2>7
<1>15. ASSUME NEW p \in Players, Relog(p) PROVE BoxTypes' /\ Addressed'
  <2> DEFINE mine == {m \in DOMAIN mails : mails[m].to = p}
  <2>1. /\ box' = [box EXCEPT ![p] = mine]
        /\ mitems' = [mitems EXCEPT ![p] = Items \cap {mails[m].item : m \in mine}]
        /\ UNCHANGED <<mails, mailId, adding, torn>>
    BY <1>15 DEF Relog
  <2>2. mine \subseteq 1 .. mailId
    BY <1>2
  <2>3. BoxTypes'
    <3> HIDE DEF mine
    <3>1. box' \in [Players -> SUBSET (1 .. mailId)]
      BY <1>1, <2>1, <2>2 DEF BoxTypes
    <3>2. mitems' \in [Players -> SUBSET Items]
      BY <1>1, <2>1 DEF BoxTypes
    <3> QED
      BY <1>1, <2>1, <3>1, <3>2 DEF BoxTypes
  <2>4. Addressed'
    BY <1>1, <2>1 DEF Addressed, BoxTypes
  <2> QED
    BY <2>3, <2>4
<1>16. CASE UNCHANGED vars
  BY <1>3, <1>5, <1>16 DEF vars
<1>17. ASSUME NEW a \in DOMAIN auctions, Expire(a) PROVE BoxTypes' /\ Addressed'
  BY <1>1, <1>8, <1>17, ExpireMails
<1>18. ASSUME NEW p \in Players, NEW a \in DOMAIN auctions, NEW price \in Prices,
              Buyout(p, a, price)
       PROVE  BoxTypes' /\ Addressed'
  BY <1>1, <1>8, <1>18, BuyoutMails
<1>19. ASSUME NEW p \in Players, NEW a \in DOMAIN auctions, Cancel(p, a)
       PROVE  BoxTypes' /\ Addressed'
  BY <1>1, <1>8, <1>19, CancelMails
<1>20. ASSUME NEW p \in Players, Request(p) PROVE BoxTypes' /\ Addressed'
  BY <1>6, <1>7, <1>9, <1>11, <1>12, <1>13, <1>14, <1>18, <1>19, <1>20
  DEF Request, WorldRequest, MapRequest
<1> QED
  BY <1>10, <1>15, <1>16, <1>17, <1>20 DEF Next

(* A bid that reaches the buyout price ends the auction, so none is listed *)
(* with such a bid, and no bidder is paid for his buyout.                  *)
BidsAreBelow ==
  \A a \in DOMAIN auctions :
    auctions[a].buyout # 0 => auctions[a].bid < auctions[a].buyout

LEMMA TypeStep ==
  ASSUME Typed, Addressed, BidsAreBelow, [Next]_vars
  PROVE  Typed'
<1> USE AuctionsAssumption
<1>1. RowTypes /\ HouseTypes /\ PurseTypes
  BY DEF Typed
<1>2. ASSUME RowTypes', HouseTypes', PurseTypes' PROVE Typed'
  BY <1>2, BoxStep DEF Typed
<1>3. ASSUME UNCHANGED <<mails, mailId>> PROVE RowTypes'
  BY <1>1, <1>3 DEF RowTypes
<1>4. ASSUME UNCHANGED houses PROVE HouseTypes'
  BY <1>1, <1>4 DEF HouseTypes, houses
<1>5. \A a \in DOMAIN auctions :
        /\ auctions[a] \in Auction
        /\ auctions[a].bid \in Nat /\ auctions[a].buyout \in Nat
        /\ auctions[a].owner \in Players
  BY <1>1, NamedPrices DEF HouseTypes, Auction
<1>6. /\ \A n : Booked(n) => spent' \in Nat /\ forgone' \in Nat
      /\ UNCHANGED books => spent' \in Nat /\ forgone' \in Nat
  BY <1>1 DEF Booked, PurseTypes, books
<1>7. ASSUME NEW p \in Players, NEW item \in Items, NEW startbid \in Prices,
             NEW buyout \in Prices \cup {0}, Sell(p, item, startbid, buyout)
      PROVE  Typed'
  <2>1. gold' \in [Players -> 0 .. MaxMoney]
    BY <1>1, <1>7, PayTypes DEF Sell
  <2>2. PurseTypes'
    BY <1>1, <1>6, <1>7, <2>1 DEF Sell, PurseTypes
  <2>3. [item |-> item, owner |-> p, startbid |-> startbid, buyout |-> buyout,
         bidder |-> NoPlayer, bid |-> 0] \in Auction
    BY DEF Auction
  <2>4. /\ auctionId' = auctionId + 1 /\ auctionId' \in 0 .. MaxAuctions
        /\ DOMAIN auctions' = DOMAIN auctions \cup {auctionId'}
        /\ \A a \in DOMAIN auctions' : auctions'[a] \in Auction
    BY <1>1, <1>7, <2>3 DEF Sell, HouseTypes
  <2>5. HouseTypes'
    <3>1. DOMAIN auctions' \subseteq 1 .. auctionId'
      BY <1>1, <2>4 DEF HouseTypes
    <3>2. aitems' \subseteq Items
      BY <1>1, <1>7 DEF Sell, HouseTypes
    <3> QED
      BY <2>4, <3>1, <3>2 DEF HouseTypes
  <2> QED
    BY <1>2, <1>3, <1>7, <2>2, <2>5 DEF Sell
<1>8. ASSUME NEW p \in Players, NEW a \in DOMAIN auctions, NEW price \in Prices,
             Bid(p, a, price)
      PROVE  Typed'
  <2>1. price \in Nat /\ price > auctions[a].bid /\ price <= gold[p]
    BY <1>8 DEF Bid, Accepted
  <2>2. Due(auctions[a], p, price) \in Nat /\ Due(auctions[a], p, price) <= price
    BY <1>5, <2>1 DEF Due
  <2>3. Due(auctions[a], p, price) <= gold[p]
    <3>1. gold[p] \in Nat
      BY <1>1 DEF PurseTypes
    <3> QED
      BY <2>1, <2>2, <3>1
  <2>4. gold' \in [Players -> 0 .. MaxMoney]
    <3>1. gold' = [gold EXCEPT ![p] = @ - Due(auctions[a], p, price)]
      BY <1>8 DEF Bid
    <3> QED
      BY <1>1, <2>2, <2>3, <3>1, PayTypes
  <2>5. PurseTypes'
    BY <1>1, <1>6, <1>8, <2>4 DEF Bid, PurseTypes
  <2>6. RowTypes'
    BY <1>1, <1>8, BidMails, SendMailTypes
  <2>7. HouseTypes'
    BY <1>1, <1>8, <2>1 DEF Bid, HouseTypes, Auction
  <2> QED
    BY <1>2, <2>5, <2>6, <2>7
<1>9. ASSUME NEW p \in Players, NEW a \in DOMAIN auctions, NEW price \in Prices,
             Buyout(p, a, price)
      PROVE  Typed'
  <2> DEFINE paid == auctions[a].buyout
  <2>1. /\ price \in Nat /\ price <= gold[p]
        /\ paid \in Nat /\ price >= paid /\ paid # 0
    BY <1>5, <1>9 DEF Buyout
  <2>2. auctions[a].bid < paid
    BY <2>1 DEF BidsAreBelow
  <2>3. /\ gold' = [gold EXCEPT ![p] = @ - Due(auctions[a], p, paid)]
        /\ RemoveAuction(a) /\ Spend(0, paid)
        /\ UNCHANGED <<inventory, auctionId>>
    BY <1>9 DEF Buyout
  <2> HIDE DEF paid
  <2>4. Due(auctions[a], p, paid) \in Nat /\ Due(auctions[a], p, paid) <= gold[p]
    <3>1. gold[p] \in Nat
      BY <1>1 DEF PurseTypes
    <3> QED
      BY <1>5, <2>1, <2>2, <3>1 DEF Due
  <2>5. gold' \in [Players -> 0 .. MaxMoney]
    BY <1>1, <2>3, <2>4, PayTypes
  <2>6. spent' \in Nat /\ forgone' \in Nat
    BY <1>1, <1>6, <2>1, <2>3, SpendBooks
  <2>7. PurseTypes'
    BY <1>1, <2>3, <2>5, <2>6 DEF PurseTypes
  <2>8. RowTypes'
    BY <1>1, <1>9, BuyoutMails, SendsTypes
  <2> QED
    BY <1>1, <1>2, <2>3, <2>7, <2>8, RemoveTypes
<1>10. ASSUME NEW p \in Players, NEW a \in DOMAIN auctions, Cancel(p, a)
       PROVE  Typed'
  <2> DEFINE cut == IF auctions[a].bidder = NoPlayer THEN 0 ELSE Cut(auctions[a].bid)
  <2> DEFINE bid == IF auctions[a].bidder = NoPlayer THEN 0 ELSE auctions[a].bid
  <2>1. cut \in Nat /\ bid \in Nat
    BY <1>5, CutType
  <2>2. /\ gold' = [gold EXCEPT ![p] = @ - cut] /\ cut <= gold[p]
        /\ RemoveAuction(a) /\ Spend(Deposit, bid)
        /\ UNCHANGED <<inventory, auctionId>>
    <3>1. gold[p] >= cut
      BY <1>10 DEF Cancel
    <3>2. gold[p] \in Nat
      BY <1>1 DEF PurseTypes
    <3> QED
      BY <1>10, <2>1, <3>1, <3>2 DEF Cancel
  <2> HIDE DEF cut, bid
  <2>3. gold' \in [Players -> 0 .. MaxMoney]
    BY <1>1, <2>1, <2>2, PayTypes
  <2>4. spent' \in Nat /\ forgone' \in Nat
    BY <1>1, <1>6, <2>1, <2>2, SpendBooks
  <2>5. PurseTypes'
    BY <1>1, <2>2, <2>3, <2>4 DEF PurseTypes
  <2>6. RowTypes'
    BY <1>1, <1>10, CancelMails, SendsTypes
  <2> QED
    BY <1>1, <1>2, <2>2, <2>5, <2>6, RemoveTypes
<1>11. ASSUME NEW a \in DOMAIN auctions, Expire(a) PROVE Typed'
  <2>1. /\ RemoveAuction(a) /\ UNCHANGED <<gold, inventory, auctionId>>
        /\ Spend(Deposit, 0) \/ Spend(0, auctions[a].bid)
    BY <1>11 DEF Expire
  <2>2. spent' \in Nat /\ forgone' \in Nat
    BY <1>1, <1>5, <1>6, <2>1, SpendBooks
  <2>3. PurseTypes'
    BY <1>1, <2>1, <2>2 DEF PurseTypes
  <2>4. RowTypes'
    BY <1>1, <1>11, ExpireMails, SendsTypes
  <2> QED
    BY <1>1, <1>2, <2>1, <2>3, <2>4, RemoveTypes
<1>12. ASSUME NEW p \in Players, NEW q \in Players,
              NEW item \in Items \cup {NoItem},
              NEW money \in Amounts \cup {0}, NEW cod \in Amounts \cup {0},
              Post(p, q, item, money, cod)
       PROVE  Typed'
  <2>1. /\ gold' = [gold EXCEPT ![p] = @ - (money + Postage)]
        /\ gold[p] >= money + Postage
        /\ inventory' = [inventory EXCEPT ![p] = @ \ {item}]
        /\ Spend(Postage, 0) /\ UNCHANGED houses
    BY <1>12 DEF Post
  <2>2. money + Postage \in Nat /\ gold[p] \in Nat
    BY <1>1, NamedPrices DEF PurseTypes
  <2>3. money + Postage <= gold[p]
    BY <2>1, <2>2
  <2>4. gold' \in [Players -> 0 .. MaxMoney]
    BY <1>1, <2>1, <2>2, <2>3, PayTypes
  <2>5. PurseTypes'
    BY <1>1, <1>6, <2>1, <2>4, SpendBooks DEF PurseTypes
  <2>6. RowTypes'
    BY <1>1, <1>12, PostMails
  <2> QED
    BY <1>2, <1>4, <2>1, <2>5, <2>6
<1>13. ASSUME NEW p \in Players, NEW m \in DOMAIN mails,
              \/ TakeItem(p, m) \/ TakeMoney(p, m) \/ Delete(p, m)
              \/ Return(p, m)
       PROVE  RowTypes'
  BY <1>1, <1>13, TakeItemMails, TakeMoneyMails, DeleteMails, ReturnMails
<1>14. ASSUME NEW p \in Players, NEW m \in DOMAIN mails, TakeItem(p, m)
       PROVE  Typed'
  <2>1. /\ gold' = [gold EXCEPT ![p] = @ - mails[m].cod]
        /\ gold[p] >= mails[m].cod /\ mails[m].item \in mitems[p]
        /\ inventory' = [inventory EXCEPT ![p] = @ \cup {mails[m].item}]
        /\ UNCHANGED <<houses, books>>
    BY <1>14 DEF TakeItem
  <2>2. mails[m].cod \in Nat /\ mails[m].item \in Items /\ gold[p] \in Nat
    <3>1. mails[m].item \in Items
      <4>1. mitems[p] \subseteq Items
        <5>1. mitems \in [Players -> SUBSET Items]
          BY DEF Typed, BoxTypes
        <5> QED
          BY <5>1
      <4> QED
        BY <2>1, <4>1
    <3>2. mails[m].cod \in Nat
      BY <1>1 DEF RowTypes, Letters, Mail
    <3>3. gold[p] \in Nat
      BY <1>1 DEF PurseTypes
    <3> QED
      BY <3>1, <3>2, <3>3
  <2>3. mails[m].cod <= gold[p]
    BY <2>1, <2>2
  <2>4. gold' \in [Players -> 0 .. MaxMoney]
    BY <1>1, <2>1, <2>2, <2>3, PayTypes
  <2>5. PurseTypes'
    BY <1>1, <1>6, <2>1, <2>2, <2>4 DEF PurseTypes
  <2> QED
    BY <1>2, <1>4, <1>13, <1>14, <2>1, <2>5
<1>15. ASSUME NEW p \in Players, NEW m \in DOMAIN mails, TakeMoney(p, m)
       PROVE  Typed'
  <2>1. mails[m].money \in Nat
    BY <1>1 DEF RowTypes, Letters, Mail
  <2>2. PurseTypes'
    BY <1>1, <1>6, <1>15, <2>1 DEF TakeMoney, PurseTypes
  <2> QED
    BY <1>2, <1>4, <1>13, <1>15, <2>2 DEF TakeMoney
<1>16. ASSUME NEW p \in Players, NEW m \in DOMAIN mails,
              Delete(p, m) \/ Return(p, m)
       PROVE  Typed'
  <2>1. mails[m].money \in Nat
    BY <1>1 DEF RowTypes, Letters, Mail
  <2>2. /\ UNCHANGED <<gold, inventory, houses>>
        /\ UNCHANGED books \/ Spend(mails[m].money, 0)
    BY <1>16 DEF Delete, Return
  <2>3. PurseTypes'
    BY <1>1, <1>6, <2>1, <2>2, SpendBooks DEF PurseTypes
  <2> QED
    BY <1>2, <1>4, <1>13, <1>16, <2>2, <2>3
<1>17. ASSUME UNCHANGED <<gold, inventory, houses, mails, mailId, books>> PROVE Typed'
  <2>1. PurseTypes'
    BY <1>1, <1>6, <1>17 DEF PurseTypes
  <2> QED
    BY <1>2, <1>3, <1>4, <1>17, <2>1
<1>18. ASSUME NEW p \in Players, Added(p) \/ Relog(p) PROVE Typed'
  BY <1>17, <1>18 DEF Added, Relog
<1>19. CASE UNCHANGED vars
  BY <1>17, <1>19 DEF vars
<1>20. ASSUME NEW p \in Players, Request(p) PROVE Typed'
  BY <1>7, <1>8, <1>9, <1>10, <1>12, <1>14, <1>15, <1>16, <1>20
  DEF Request, WorldRequest, MapRequest
<1> QED
  BY <1>11, <1>18, <1>19, <1>20 DEF Next

LEMMA BidsStep ==
  ASSUME Typed, BidsAreBelow, [Next]_vars
  PROVE  BidsAreBelow'
<1>1. HouseTypes
  BY DEF Typed
<1>2. ASSUME NEW p \in Players, NEW item \in Items, NEW startbid \in Prices,
             NEW buyout \in Prices \cup {0}, Sell(p, item, startbid, buyout)
      PROVE  BidsAreBelow'
  <2> DEFINE new == [item |-> item, owner |-> p, startbid |-> startbid,
                     buyout |-> buyout, bidder |-> NoPlayer, bid |-> 0]
  <2>1. auctions' = [a \in DOMAIN auctions \cup {auctionId'} |->
                       IF a = auctionId' THEN new ELSE auctions[a]]
    BY <1>2 DEF Sell
  <2>2. new.buyout # 0 => new.bid < new.buyout
    BY NamedPrices
  <2> HIDE DEF new
  <2> QED
    BY <2>1, <2>2 DEF BidsAreBelow
<1>3. ASSUME NEW p \in Players, NEW a \in DOMAIN auctions, NEW price \in Prices,
             Bid(p, a, price)
      PROVE  BidsAreBelow'
  <2>1. /\ auctions' = [auctions EXCEPT ![a].bidder = p, ![a].bid = price]
        /\ auctions[a] \in Auction
        /\ price < auctions[a].buyout \/ auctions[a].buyout = 0
    BY <1>1, <1>3 DEF Bid, HouseTypes
  <2>2. /\ DOMAIN auctions' = DOMAIN auctions
        /\ auctions'[a].buyout = auctions[a].buyout /\ auctions'[a].bid = price
        /\ \A b \in DOMAIN auctions : b # a => auctions'[b] = auctions[b]
    BY <2>1 DEF Auction
  <2> QED
    BY <2>1, <2>2 DEF BidsAreBelow
<1>4. ASSUME NEW a, RemoveAuction(a) PROVE BidsAreBelow'
  BY <1>4 DEF RemoveAuction, Without, BidsAreBelow
<1>5. ASSUME UNCHANGED auctions PROVE BidsAreBelow'
  BY <1>5 DEF BidsAreBelow
<1>6. ASSUME NEW a \in DOMAIN auctions, Expire(a) PROVE BidsAreBelow'
  BY <1>4, <1>6 DEF Expire
<1>7. ASSUME NEW p, NEW a, NEW price, Buyout(p, a, price)
      PROVE  BidsAreBelow'
  BY <1>4, <1>7 DEF Buyout
<1>8. ASSUME NEW p \in Players, NEW a \in DOMAIN auctions, Cancel(p, a)
      PROVE  BidsAreBelow'
  BY <1>4, <1>8 DEF Cancel
<1>9. ASSUME NEW p, NEW q, NEW item, NEW money, NEW cod,
             Post(p, q, item, money, cod)
      PROVE  BidsAreBelow'
  BY <1>5, <1>9 DEF Post, houses
<1>10. ASSUME NEW p, NEW m, \/ TakeItem(p, m) \/ TakeMoney(p, m)
                            \/ Delete(p, m) \/ Return(p, m)
       PROVE  BidsAreBelow'
  BY <1>5, <1>10 DEF TakeItem, TakeMoney, Delete, Return, houses
<1>11. ASSUME NEW p, Added(p) \/ Relog(p) PROVE BidsAreBelow'
  BY <1>5, <1>11 DEF Added, Relog, houses
<1>12. ASSUME NEW p \in Players, Request(p) PROVE BidsAreBelow'
  BY <1>2, <1>3, <1>7, <1>8, <1>9, <1>10, <1>12 DEF Request, WorldRequest, MapRequest
<1> QED
  BY <1>5, <1>6, <1>11, <1>12 DEF Next, vars, houses

-----------------------------------------------------------------------------
(* Every step keeps each item in one place                                 *)

InOnePlace(item) ==
  /\ \A p, q \in Holders(item) : p = q
  /\ \A a, b \in Listed(item) : a = b
  /\ \A m, n \in Mailed(item) : m = n
  /\ Holders(item) # {} => Listed(item) = {} /\ Mailed(item) = {}
  /\ Listed(item) # {} => Mailed(item) = {}
  /\ item \in aitems <=> Listed(item) # {}

LEMMA PlaceParts == ItemInOnePlace <=> \A item \in Items : InOnePlace(item)
  BY DEF ItemInOnePlace, InOnePlace

(* An item that stays where it is, or is thrown away.                      *)
LEMMA PlaceKept ==
  ASSUME NEW x, InOnePlace(x),
         Holders(x)' \subseteq Holders(x), Mailed(x)' \subseteq Mailed(x),
         Listed(x)' = Listed(x), x \in aitems' <=> x \in aitems
  PROVE  InOnePlace(x)'
  BY DEF InOnePlace

(* An item that went from wherever it was into a mail.                     *)
LEMMA PlaceMailed ==
  ASSUME NEW x, NEW k, Holders(x)' = {}, Listed(x)' = {}, x \notin aitems',
         Mailed(x)' \subseteq {k}
  PROVE  InOnePlace(x)'
  BY DEF InOnePlace

(* Where things are once the drafts are sent.                              *)
LEMMA SendsNothing ==
  ASSUME RowTypes, NEW d \in Seq(Letters), SendMail(d), Carries(d, 0, NoItem),
         NEW x \in Items
  PROVE  Mailed(x)' = Mailed(x)
<1>1. mailId \in Nat /\ 0 \in 0 .. Len(d)
  BY AuctionsAssumption DEF RowTypes
<1>2. Mailed(x)' = {m \in DOMAIN mails : mails[m].item = x}
  BY <1>1, MailedAfter DEF SendMail, RowTypes
<1> QED
  BY <1>2 DEF Mailed

LEMMA SendsItem ==
  ASSUME RowTypes, NEW item, Sends(item)
  PROVE  \E k : \A x \in Items :
           Mailed(x)' = Mailed(x) \cup (IF x = item THEN {k} ELSE {})
<1>1. PICK d \in Seq(Letters), k \in Nat \ {0} :
         SendMail(d) /\ k <= Len(d) /\ Carries(d, k, item)
  BY DEF Sends
<1>2. mailId \in Nat /\ k \in 0 .. Len(d) /\ k # 0
  BY <1>1, AuctionsAssumption DEF RowTypes
<1>3. ASSUME NEW x \in Items
      PROVE  Mailed(x)' = Mailed(x) \cup (IF x = item THEN {mailId + k} ELSE {})
  <2>1. Mailed(x)' = {m \in DOMAIN mails : mails[m].item = x}
                     \cup (IF x = item /\ k # 0 THEN {mailId + k} ELSE {})
    BY <1>1, <1>2, MailedAfter DEF SendMail, RowTypes
  <2> QED
    BY <1>2, <2>1 DEF Mailed
<1> QED
  BY <1>3

(* The auction a ends and its item goes by mail.                           *)
LEMMA AuctionEnds ==
  ASSUME Typed, ItemInOnePlace, NEW a \in DOMAIN auctions, RemoveAuction(a),
         UNCHANGED inventory, Sends(auctions[a].item)
  PROVE  ItemInOnePlace'
<1> DEFINE item == auctions[a].item
<1>1. PICK k : \A x \in Items :
         Mailed(x)' = Mailed(x) \cup (IF x = item THEN {k} ELSE {})
  BY SendsItem DEF Typed
<1>2. /\ item \in Items
      /\ \A x \in Items : /\ Listed(x)' = Listed(x) \ {a}
                          /\ a \in Listed(x) <=> x = item
  BY DEF Typed, HouseTypes, Auction, Listed, RemoveAuction, Without
<1>3. aitems' = aitems \ {item} /\ \A x : Holders(x)' = Holders(x)
  BY DEF RemoveAuction, Holders
<1> HIDE DEF item
<1>4. ASSUME NEW x \in Items PROVE InOnePlace(x)'
  <2>1. InOnePlace(x)
    BY PlaceParts
  <2>2. CASE x = item
    <3>1. Listed(x) = {a} /\ Holders(x) = {} /\ Mailed(x) = {}
      BY <1>2, <2>1, <2>2 DEF InOnePlace
    <3> QED
      BY <1>1, <1>2, <1>3, <2>2, <3>1, PlaceMailed
  <2>3. CASE x # item
    BY <1>1, <1>2, <1>3, <2>1, <2>3, PlaceKept
  <2> QED
    BY <2>2, <2>3
<1> QED
  BY <1>4 DEF ItemInOnePlace, InOnePlace

(* A mail is read, thrown away or returned.                                *)
LEMMA PlaceStep ==
  ASSUME Typed, ItemInOnePlace, [Next]_vars
  PROVE  ItemInOnePlace'
<1> USE AuctionsAssumption
<1>1. RowTypes /\ HouseTypes /\ PurseTypes
  BY DEF Typed
<1>2. \A x \in Items : InOnePlace(x)
  BY PlaceParts
<1>3. ASSUME \A x \in Items : InOnePlace(x)' PROVE ItemInOnePlace'
  BY <1>3 DEF ItemInOnePlace, InOnePlace
<1>4. ASSUME UNCHANGED houses, NEW x \in Items
      PROVE  Listed(x)' = Listed(x) /\ (x \in aitems' <=> x \in aitems)
  BY <1>4 DEF Listed, houses
<1>5. ASSUME UNCHANGED inventory, NEW x \in Items PROVE Holders(x)' = Holders(x)
  BY <1>5 DEF Holders
<1>6. ASSUME UNCHANGED mails, NEW x \in Items PROVE Mailed(x)' = Mailed(x)
  BY <1>6 DEF Mailed
<1>7. ASSUME NEW p \in Players, NEW item \in Items, NEW startbid \in Prices,
             NEW buyout \in Prices \cup {0}, Sell(p, item, startbid, buyout)
      PROVE  ItemInOnePlace'
  <2> DEFINE new == [item |-> item, owner |-> p, startbid |-> startbid,
                     buyout |-> buyout, bidder |-> NoPlayer, bid |-> 0]
  <2>1. /\ auctions' = [a \in DOMAIN auctions \cup {auctionId'} |->
                          IF a = auctionId' THEN new ELSE auctions[a]]
        /\ auctionId' = auctionId + 1
        /\ aitems' = aitems \cup {item}
        /\ inventory' = [inventory EXCEPT ![p] = @ \ {item}]
        /\ item \in inventory[p] /\ UNCHANGED mails
    BY <1>7 DEF Sell
  <2>2. new.item = item /\ auctionId' \notin DOMAIN auctions
    BY <1>1, <2>1 DEF HouseTypes
  <2> HIDE DEF new
  <2>3. \A x \in Items :
          Listed(x)' = Listed(x) \cup (IF x = item THEN {auctionId'} ELSE {})
    BY <2>1, <2>2 DEF Listed
  <2>4. \A x \in Items :
          Holders(x)' = Holders(x) \ (IF x = item THEN {p} ELSE {})
    BY <1>1, <2>1 DEF Holders, PurseTypes
  <2>5. ASSUME NEW x \in Items PROVE InOnePlace(x)'
    <3>1. CASE x = item
      <4>1. Holders(x) = {p} /\ Listed(x) = {} /\ Mailed(x) = {}
        BY <1>2, <2>1, <3>1 DEF InOnePlace, Holders
      <4>2. /\ Holders(x)' = {} /\ Listed(x)' = {auctionId'} /\ Mailed(x)' = {}
            /\ x \in aitems'
        BY <1>6, <2>1, <2>3, <2>4, <3>1, <4>1
      <4> QED
        BY <4>2 DEF InOnePlace
    <3>2. CASE x # item
      BY <1>2, <1>6, <2>1, <2>3, <2>4, <3>2, PlaceKept
    <3> QED
      BY <3>1, <3>2
  <2> QED
    BY <1>3, <2>5
<1>8. ASSUME NEW p \in Players, NEW a \in DOMAIN auctions, NEW price \in Prices,
             Bid(p, a, price)
      PROVE  ItemInOnePlace'
  <2>1. \A x \in Items : Mailed(x)' = Mailed(x)
    BY <1>1, <1>8, BidMails, SendsNothing
  <2>2. /\ auctions' = [auctions EXCEPT ![a].bidder = p, ![a].bid = price]
        /\ auctions[a] \in Auction /\ UNCHANGED <<inventory, aitems>>
    BY <1>1, <1>8 DEF Bid, HouseTypes
  <2>3. /\ DOMAIN auctions' = DOMAIN auctions
        /\ auctions'[a].item = auctions[a].item
        /\ \A b \in DOMAIN auctions : b # a => auctions'[b] = auctions[b]
    BY <2>2 DEF Auction
  <2>4. \A x \in Items : Listed(x)' = Listed(x)
    BY <2>3 DEF Listed
  <2> QED
    BY <1>2, <1>3, <1>5, <2>1, <2>2, <2>4, PlaceKept
<1>9. ASSUME NEW p \in Players, NEW a \in DOMAIN auctions, NEW price \in Prices,
             Buyout(p, a, price)
      PROVE  ItemInOnePlace'
  BY <1>1, <1>9, BuyoutMails, AuctionEnds DEF Buyout
<1>10. ASSUME NEW p \in Players, NEW a \in DOMAIN auctions, Cancel(p, a)
       PROVE  ItemInOnePlace'
  BY <1>1, <1>10, CancelMails, AuctionEnds DEF Cancel
<1>11. ASSUME NEW a \in DOMAIN auctions, Expire(a) PROVE ItemInOnePlace'
  BY <1>1, <1>11, ExpireMails, AuctionEnds DEF Expire
<1>12. ASSUME NEW p \in Players, NEW q \in Players,
              NEW item \in Items \cup {NoItem},
              NEW money \in Amounts \cup {0}, NEW cod \in Amounts \cup {0},
              Post(p, q, item, money, cod)
       PROVE  ItemInOnePlace'
  <2>1. PICK k : \A x \in Items :
          Mailed(x)' = Mailed(x) \cup (IF x = item THEN {k} ELSE {})
    BY <1>1, <1>12, PostMails
  <2>2. /\ inventory' = [inventory EXCEPT ![p] = @ \ {item}]
        /\ item # NoItem => item \in inventory[p]
        /\ UNCHANGED houses
    BY <1>12 DEF Post
  <2>3. \A x \in Items :
          Holders(x)' = Holders(x) \ (IF x = item THEN {p} ELSE {})
    BY <1>1, <2>2 DEF Holders, PurseTypes
  <2>4. ASSUME NEW x \in Items PROVE InOnePlace(x)'
    <3>1. CASE x = item
      <4>1. /\ Holders(x) = {p} /\ Listed(x) = {} /\ Mailed(x) = {}
            /\ x \notin aitems
        BY <1>2, <2>2, <3>1 DEF InOnePlace, Holders
      <4> QED
        BY <1>4, <2>1, <2>2, <2>3, <3>1, <4>1, PlaceMailed
    <3>2. CASE x # item
      BY <1>2, <1>4, <2>1, <2>2, <2>3, <3>2, PlaceKept
    <3> QED
      BY <3>1, <3>2
  <2> QED
    BY <1>3, <2>4
<1>13. ASSUME NEW p \in Players, NEW m \in DOMAIN mails, TakeItem(p, m)
       PROVE  ItemInOnePlace'
  <2>1. \A x \in Items : Mailed(x)' = Mailed(x) \ {m}
    BY <1>1, <1>13, TakeItemMails
  <2>2. /\ inventory' = [inventory EXCEPT ![p] = @ \cup {mails[m].item}]
        /\ UNCHANGED houses
    BY <1>13 DEF TakeItem
  <2>3. \A x \in Items :
          Holders(x)' = Holders(x) \cup (IF x = mails[m].item THEN {p} ELSE {})
    BY <1>1, <2>2 DEF Holders, PurseTypes
  <2>4. ASSUME NEW x \in Items PROVE InOnePlace(x)'
    <3>1. CASE x = mails[m].item
      <4>1. m \in Mailed(x)
        BY <3>1 DEF Mailed
      <4>2. /\ Mailed(x) = {m} /\ Listed(x) = {} /\ Holders(x) = {}
            /\ x \notin aitems
        BY <1>2, <4>1 DEF InOnePlace
      <4>3. /\ Mailed(x)' = {} /\ Listed(x)' = {} /\ Holders(x)' = {p}
            /\ x \notin aitems'
        BY <1>4, <2>1, <2>2, <2>3, <3>1, <4>2
      <4> QED
        BY <4>3 DEF InOnePlace
    <3>2. CASE x # mails[m].item
      BY <1>2, <1>4, <2>1, <2>2, <2>3, <3>2, PlaceKept
    <3> QED
      BY <3>1, <3>2
  <2> QED
    BY <1>3, <2>4
<1>14. ASSUME NEW p \in Players, NEW m \in DOMAIN mails,
              TakeMoney(p, m) \/ Delete(p, m)
       PROVE  ItemInOnePlace'
  <2>1. \A x \in Items : Mailed(x)' \subseteq Mailed(x)
    BY <1>1, <1>14, TakeMoneyMails, DeleteMails
  <2>2. UNCHANGED <<inventory, houses>>
    BY <1>14 DEF TakeMoney, Delete
  <2> QED
    BY <1>2, <1>3, <1>4, <1>5, <2>1, <2>2, PlaceKept
<1>15. ASSUME NEW p \in Players, NEW m \in DOMAIN mails, Return(p, m)
       PROVE  ItemInOnePlace'
  <2>1. UNCHANGED <<inventory, houses>>
    BY <1>15 DEF Return
  <2>2. \A x \in Items :
          \/ Mailed(x)' \subseteq Mailed(x)
          \/ /\ x = mails[m].item
             /\ Mailed(x)' = (Mailed(x) \ {m}) \cup {mailId + 1}
    BY <1>1, <1>15, ReturnMails
  <2>3. ASSUME NEW x \in Items PROVE InOnePlace(x)'
    <3>1. CASE Mailed(x)' \subseteq Mailed(x)
      BY <1>2, <1>4, <1>5, <2>1, <3>1, PlaceKept
    <3>2. CASE /\ x = mails[m].item
               /\ Mailed(x)' = (Mailed(x) \ {m}) \cup {mailId + 1}
      <4>1. m \in Mailed(x)
        BY <3>2 DEF Mailed
      <4>2. /\ Mailed(x) = {m} /\ Listed(x) = {} /\ Holders(x) = {}
            /\ x \notin aitems
        BY <1>2, <4>1 DEF InOnePlace
      <4> QED
        BY <1>4, <1>5, <2>1, <3>2, <4>2, PlaceMailed
    <3> QED
      BY <2>2, <3>1, <3>2
  <2> QED
    BY <1>3, <2>3
<1>16. ASSUME UNCHANGED <<inventory, houses, mails>> PROVE ItemInOnePlace'
  BY <1>2, <1>3, <1>4, <1>5, <1>6, <1>16, PlaceKept
<1>17. ASSUME NEW p \in Players, Added(p) \/ Relog(p) PROVE ItemInOnePlace'
  BY <1>16, <1>17 DEF Added, Relog
<1>18. CASE UNCHANGED vars
  BY <1>16, <1>18 DEF vars
<1>19. ASSUME NEW p \in Players, Request(p) PROVE ItemInOnePlace'
  BY <1>7, <1>8, <1>9, <1>10, <1>12, <1>13, <1>14, <1>15, <1>19
  DEF Request, WorldRequest, MapRequest
<1> QED
  BY <1>11, <1>17, <1>18, <1>19 DEF Next

-----------------------------------------------------------------------------
(* Weighing mails and auctions                                             *)

(* What w makes of all that f holds: w tells how much of a mail, or of an  *)
(* auction, is counted.                                                    *)
Weight(f, w) == SumFunction([x \in DOMAIN f |-> w[f[x]]])

LEMMA WeightSplit ==
  ASSUME NEW f, IsFiniteSet(DOMAIN f), NEW R, NEW w \in [R -> Nat],
         \A x \in DOMAIN f : f[x] \in R, NEW x \in DOMAIN f
  PROVE  /\ Weight(f, w) = w[f[x]] + Weight(Without(f, x), w)
         /\ Weight(f, w) \in Nat /\ Weight(Without(f, x), w) \in Nat
<1> DEFINE S == DOMAIN f
<1> DEFINE F == [y \in S |-> w[f[y]]]
<1> DEFINE G == [y \in S \ {x} |-> w[f[y]]]
<1>1. /\ F \in [S -> Nat] /\ G \in [S \ {x} -> Nat]
      /\ \A y \in S \ {x} : G[y] = F[y]
      /\ F[x] = w[f[x]]
  OBVIOUS
<1>2. Weight(f, w) = SumFunction(F)
  BY DEF Weight
<1>3. Weight(Without(f, x), w) = SumFunction(G)
  <2>1. [y \in DOMAIN Without(f, x) |-> w[Without(f, x)[y]]] = G
    BY DEF Without
  <2> QED
    BY <2>1 DEF Weight
<1>4. IsFiniteSet(S) /\ IsFiniteSet(S \ {x}) /\ x \in S
  BY FS_Difference
<1> HIDE DEF F, G, S
<1>5. SumFunction(F) = F[x] + SumFunction(G)
  BY <1>1, <1>4, SumSplit
<1>6. SumFunction(F) \in Nat /\ SumFunction(G) \in Nat
  BY <1>1, <1>4, SumType
<1> QED
  BY <1>1, <1>2, <1>3, <1>5, <1>6

LEMMA WeightType ==
  ASSUME NEW f, IsFiniteSet(DOMAIN f), NEW R, NEW w \in [R -> Nat],
         \A x \in DOMAIN f : f[x] \in R
  PROVE  Weight(f, w) \in Nat
<1>1. [x \in DOMAIN f |-> w[f[x]]] \in [DOMAIN f -> Nat]
  OBVIOUS
<1> QED
  BY <1>1, SumType DEF Weight

LEMMA WeightUpdate ==
  ASSUME NEW f, IsFiniteSet(DOMAIN f), NEW R, NEW w \in [R -> Nat],
         \A y \in DOMAIN f : f[y] \in R, NEW x \in DOMAIN f,
         NEW g, DOMAIN g = DOMAIN f, g[x] \in R,
         \A y \in DOMAIN f : y # x => g[y] = f[y]
  PROVE  Weight(g, w) + w[f[x]] = Weight(f, w) + w[g[x]]
<1> DEFINE F == [y \in DOMAIN f |-> w[f[y]]]
<1> DEFINE G == [y \in DOMAIN f |-> w[g[y]]]
<1>1. /\ F \in [DOMAIN f -> Nat] /\ G \in [DOMAIN f -> Nat]
      /\ \A y \in DOMAIN f \ {x} : G[y] = F[y]
      /\ F[x] = w[f[x]] /\ G[x] = w[g[x]]
  OBVIOUS
<1>2. Weight(f, w) = SumFunction(F) /\ Weight(g, w) = SumFunction(G)
  BY DEF Weight
<1> HIDE DEF F, G
<1>3. SumFunction(G) + F[x] = SumFunction(F) + G[x]
  BY <1>1, SumUpdate DEF SameBut
<1> QED
  BY <1>1, <1>2, <1>3

LEMMA WeightExtend ==
  ASSUME NEW f, IsFiniteSet(DOMAIN f), NEW R, NEW w \in [R -> Nat],
         \A y \in DOMAIN f : f[y] \in R, NEW x, x \notin DOMAIN f,
         NEW g, DOMAIN g = DOMAIN f \cup {x}, g[x] \in R,
         \A y \in DOMAIN f : g[y] = f[y]
  PROVE  Weight(g, w) = Weight(f, w) + w[g[x]]
<1> DEFINE S == DOMAIN f
<1> DEFINE F == [y \in S |-> w[f[y]]]
<1> DEFINE G == [y \in S \cup {x} |-> w[g[y]]]
<1>1. /\ F \in [S -> Nat] /\ G \in [S \cup {x} -> Nat]
      /\ \A y \in S : G[y] = F[y]
      /\ G[x] = w[g[x]]
  OBVIOUS
<1>2. Weight(f, w) = SumFunction(F) /\ Weight(g, w) = SumFunction(G)
  BY DEF Weight
<1> HIDE DEF F, G
<1>3. SumFunction(G) = SumFunction(F) + G[x]
  BY <1>1, SumExtend
<1> QED
  BY <1>1, <1>2, <1>3

LEMMA WeightNone ==
  ASSUME NEW f, DOMAIN f = {}, NEW w
  PROVE  Weight(f, w) = 0
<1>1. DOMAIN [x \in DOMAIN f |-> w[f[x]]] = {}
  OBVIOUS
<1> QED
  BY <1>1, SumNone DEF Weight

-----------------------------------------------------------------------------
(* What the drafts add                                                     *)

(* No handler sends more than three mails.                                 *)
Total(d, w) ==
  (IF Len(d) >= 1 THEN w[d[1]] ELSE 0)
  + (IF Len(d) >= 2 THEN w[d[2]] ELSE 0)
  + (IF Len(d) >= 3 THEN w[d[3]] ELSE 0)

(* g is the rows f with the mail m put in at x.                             *)
PutIn(f, g, x, m) ==
  /\ IsFiniteSet(DOMAIN f) /\ \A y \in DOMAIN f : f[y] \in Letters
  /\ x \notin DOMAIN f /\ DOMAIN g = DOMAIN f \cup {x}
  /\ m \in Letters /\ g[x] = m
  /\ \A y \in DOMAIN f : g[y] = f[y]

LEMMA MailAdded ==
  ASSUME NEW f, NEW g, NEW x, NEW m, PutIn(f, g, x, m), NEW w \in [Letters -> Nat]
  PROVE  Weight(g, w) = Weight(f, w) + w[m]
<1>1. Weight(g, w) = Weight(f, w) + w[g[x]]
  <2>1. /\ IsFiniteSet(DOMAIN f) /\ \A y \in DOMAIN f : f[y] \in Letters
        /\ x \notin DOMAIN f /\ DOMAIN g = DOMAIN f \cup {x}
        /\ g[x] \in Letters
        /\ \A y \in DOMAIN f : g[y] = f[y]
    BY DEF PutIn
  <2> QED
    BY <2>1, WeightExtend
<1> QED
  BY <1>1 DEF PutIn

LEMMA SentWeight ==
  ASSUME mailId \in Nat, NEW rows, DOMAIN rows \subseteq 1 .. mailId,
         \A m \in DOMAIN rows : rows[m] \in Letters,
         NEW drafts \in Seq(Letters), SendTo(rows, drafts), Len(drafts) <= 3,
         NEW w \in [Letters -> Nat]
  PROVE  Weight(mails', w) = Weight(rows, w) + Total(drafts, w)
<1> DEFINE n == Len(drafts)
<1> DEFINE upto(k) == DOMAIN rows \cup {mailId + j : j \in 1 .. k}
<1> DEFINE f(k) == [m \in upto(k) |-> mails'[m]]
<1>1. /\ DOMAIN mails' = upto(n)
      /\ \A m \in DOMAIN rows : mails'[m] = rows[m]
      /\ \A k \in 1 .. n : mails'[mailId + k] = drafts[k]
      /\ \A m \in DOMAIN mails' : mails'[m] \in Letters
      /\ mails' = [m \in DOMAIN mails' |-> mails'[m]]
  BY Sent DEF SendTo
<1>2. n \in Nat /\ n <= 3
  OBVIOUS
<1>3. \A k \in 1 .. n : drafts[k] \in Letters /\ w[drafts[k]] \in Nat
  OBVIOUS
<1> HIDE DEF n
<1>4. ASSUME NEW k \in 0 .. n, k < n
      PROVE  Weight(f(k + 1), w) = Weight(f(k), w) + w[drafts[k + 1]]
  <2> DEFINE x == mailId + (k + 1)
  <2>1. k \in Nat /\ k + 1 \in 1 .. n
    BY <1>2, <1>4
  <2>2. upto(k + 1) = upto(k) \cup {x}
    <3>1. 1 .. (k + 1) = (1 .. k) \cup {k + 1}
      BY <2>1
    <3> QED
      BY <3>1
  <2>3. x \notin upto(k)
    BY <2>1
  <2>4. upto(k) \subseteq 1 .. x
    BY <2>1
  <2>5. IsFiniteSet(upto(k))
    <3>1. IsFiniteSet(1 .. x)
      BY <2>1, FS_Interval
    <3> HIDE DEF upto, x
    <3> QED
      BY <2>4, <3>1, FS_Subset
  <2>6. upto(k) \subseteq DOMAIN mails'
    <3>1. 1 .. k \subseteq 1 .. n
      BY <1>2, <2>1
    <3> QED
      BY <1>1, <3>1
  <2>7. mails'[x] = drafts[k + 1] /\ drafts[k + 1] \in Letters
    BY <1>1, <1>3, <2>1
  <2>8. /\ DOMAIN f(k) = upto(k) /\ DOMAIN f(k + 1) = upto(k) \cup {x}
        /\ \A y \in upto(k) : f(k)[y] \in Letters /\ f(k + 1)[y] = f(k)[y]
        /\ f(k + 1)[x] = drafts[k + 1]
    BY <1>1, <2>2, <2>6, <2>7
  <2> DEFINE A == f(k)
  <2> DEFINE B == f(k + 1)
  <2> DEFINE m == drafts[k + 1]
  <2>9. PutIn(A, B, x, m)
    <3> HIDE DEF f, upto, x
    <3> QED
      BY <2>3, <2>5, <2>7, <2>8 DEF PutIn
  <2> HIDE DEF A, B, x, m
  <2>10. Weight(B, w) = Weight(A, w) + w[m]
    BY <2>9, MailAdded
  <2> QED
    BY <2>10 DEF A, B, m
<1>5. Weight(f(0), w) = Weight(rows, w)
  <2>1. upto(0) = DOMAIN rows
    <3>1. 1 .. 0 = {}
      OBVIOUS
    <3> QED
      BY <3>1
  <2>2. [m \in DOMAIN f(0) |-> w[f(0)[m]]] = [m \in DOMAIN rows |-> w[rows[m]]]
    BY <1>1, <2>1
  <2> HIDE DEF f
  <2> QED
    BY <2>2 DEF Weight
<1>6. f(n) = mails'
  BY <1>1
<1>7. Weight(rows, w) \in Nat
  <2>1. IsFiniteSet(1 .. mailId)
    BY FS_Interval
  <2>2. IsFiniteSet(DOMAIN rows)
    BY <2>1, FS_Subset
  <2> QED
    BY <2>2, WeightType
<1> HIDE DEF f
<1>8. CASE n = 0
  BY <1>5, <1>6, <1>7, <1>8 DEF Total, n
<1>9. CASE n = 1
  <2>1. Weight(f(0 + 1), w) = Weight(f(0), w) + w[drafts[0 + 1]]
    BY <1>4, <1>9
  <2>2. w[drafts[1]] \in Nat
    BY <1>3, <1>9
  <2>3. Total(drafts, w) = w[drafts[1]]
    BY <1>9, <2>2 DEF Total, n
  <2> QED
    BY <1>5, <1>6, <1>9, <2>1, <2>3
<1>10. CASE n = 2
  <2>1. /\ Weight(f(0 + 1), w) = Weight(f(0), w) + w[drafts[0 + 1]]
        /\ Weight(f(1 + 1), w) = Weight(f(1), w) + w[drafts[1 + 1]]
    BY <1>4, <1>10
  <2>2. w[drafts[1]] \in Nat /\ w[drafts[2]] \in Nat
    BY <1>3, <1>10
  <2>3. Total(drafts, w) = w[drafts[1]] + w[drafts[2]]
    BY <1>10, <2>2 DEF Total, n
  <2> QED
    BY <1>5, <1>6, <1>7, <1>10, <2>1, <2>2, <2>3
<1>11. CASE n = 3
  <2>1. /\ Weight(f(0 + 1), w) = Weight(f(0), w) + w[drafts[0 + 1]]
        /\ Weight(f(1 + 1), w) = Weight(f(1), w) + w[drafts[1 + 1]]
        /\ Weight(f(2 + 1), w) = Weight(f(2), w) + w[drafts[2 + 1]]
    BY <1>4, <1>11
  <2>2. w[drafts[1]] \in Nat /\ w[drafts[2]] \in Nat /\ w[drafts[3]] \in Nat
    BY <1>3, <1>11
  <2>3. Total(drafts, w) = w[drafts[1]] + w[drafts[2]] + w[drafts[3]]
    BY <1>11, <2>2 DEF Total, n
  <2> QED
    BY <1>5, <1>6, <1>7, <1>11, <2>1, <2>2, <2>3, SMTT(30)
<1> QED
  BY <1>2, <1>8, <1>9, <1>10, <1>11

LEMMA TotalOne ==
  ASSUME NEW w \in [Letters -> Nat], NEW m \in Letters
  PROVE  Total(<<m>>, w) = w[m] /\ w[m] \in Nat
<1> DEFINE d == <<m>>
<1>1. Len(d) = 1 /\ d[1] = m /\ w[m] \in Nat
  OBVIOUS
<1> HIDE DEF d
<1> QED
  BY <1>1 DEF Total, d

LEMMA TotalNone == ASSUME NEW w PROVE Total(<<>>, w) = 0
  BY DEF Total

LEMMA TotalJoin ==
  ASSUME NEW w \in [Letters -> Nat],
         NEW d \in Seq(Letters), NEW e \in Seq(Letters),
         Len(d) \in {0, 1}, Len(e) \in {1, 2}
  PROVE  /\ Total(d \o e, w) = Total(d, w) + Total(e, w)
         /\ d \o e \in Seq(Letters) /\ Len(d \o e) <= 3
<1> DEFINE s == d \o e
<1>1. /\ s \in Seq(Letters) /\ Len(s) = Len(d) + Len(e)
      /\ \A j \in 1 .. Len(d) : s[j] = d[j]
      /\ \A j \in 1 .. Len(e) : s[Len(d) + j] = e[j]
  OBVIOUS
<1>2. /\ \A j \in 1 .. Len(d) : w[d[j]] \in Nat
      /\ \A j \in 1 .. Len(e) : w[e[j]] \in Nat
  OBVIOUS
<1> HIDE DEF s
<1>3. CASE Len(d) = 0
  <2>1. Len(s) = Len(e) /\ \A j \in 1 .. Len(e) : s[j] = e[j]
    BY <1>1, <1>3
  <2>2. Total(d, w) = 0
    BY <1>3 DEF Total
  <2>3. CASE Len(e) = 1
    <3>1. s[1] = e[1] /\ w[e[1]] \in Nat /\ Len(s) = 1
      BY <1>2, <2>1, <2>3
    <3> QED
      BY <1>1, <2>2, <2>3, <3>1 DEF Total, s
  <2>4. CASE Len(e) = 2
    <3>1. /\ s[1] = e[1] /\ w[e[1]] \in Nat /\ Len(s) = 2
          /\ s[2] = e[2] /\ w[e[2]] \in Nat
      BY <1>2, <2>1, <2>4
    <3> QED
      BY <1>1, <2>2, <2>4, <3>1 DEF Total, s
  <2> QED
    BY <2>3, <2>4
<1>4. CASE Len(d) = 1
  <2>1. s[1] = d[1] /\ w[d[1]] \in Nat
    BY <1>1, <1>2, <1>4
  <2>2. Total(d, w) = w[d[1]]
    BY <1>4, <2>1 DEF Total
  <2>3. CASE Len(e) = 1
    <3>1. s[1 + 1] = e[1] /\ w[e[1]] \in Nat /\ Len(s) = 2
      BY <1>1, <1>2, <1>4, <2>3
    <3> QED
      BY <1>1, <2>1, <2>2, <2>3, <3>1 DEF Total, s
  <2>4. CASE Len(e) = 2
    <3>1. /\ s[1 + 1] = e[1] /\ w[e[1]] \in Nat /\ Len(s) = 3
          /\ s[1 + 2] = e[2] /\ w[e[2]] \in Nat
      BY <1>1, <1>2, <1>4, <2>4
    <3> QED
      BY <1>1, <2>1, <2>2, <2>4, <3>1 DEF Total, s
  <2> QED
    BY <2>3, <2>4
<1> QED
  BY <1>3, <1>4

-----------------------------------------------------------------------------
(* What every handler adds to the mails and the auctions, and takes away   *)

LEMMA RowsFinite == RowTypes => IsFiniteSet(DOMAIN mails) /\ mailId \in Nat
<1> SUFFICES ASSUME RowTypes PROVE IsFiniteSet(DOMAIN mails) /\ mailId \in Nat
  OBVIOUS
<1>1. mailId \in Nat /\ DOMAIN mails \subseteq 1 .. mailId
  BY AuctionsAssumption DEF RowTypes
<1>2. IsFiniteSet(1 .. mailId)
  BY <1>1, FS_Interval
<1> QED
  BY <1>1, <1>2, FS_Subset

LEMMA HouseFinite == HouseTypes => IsFiniteSet(DOMAIN auctions)
<1> SUFFICES ASSUME HouseTypes PROVE IsFiniteSet(DOMAIN auctions)
  OBVIOUS
<1>1. auctionId \in Nat /\ DOMAIN auctions \subseteq 1 .. auctionId
  BY AuctionsAssumption DEF HouseTypes
<1>2. IsFiniteSet(1 .. auctionId)
  BY <1>1, FS_Interval
<1> QED
  BY <1>1, <1>2, FS_Subset

LEMMA SendMailWeight ==
  ASSUME RowTypes, NEW d \in Seq(Letters), SendMail(d), Len(d) <= 3,
         NEW w \in [Letters -> Nat]
  PROVE  Weight(mails', w) = Weight(mails, w) + Total(d, w)
  BY RowsFinite, SentWeight DEF RowTypes, SendMail

(* The mails, by name.                                                     *)
Refund(a) == Draft(NoPlayer, a.bidder, a.bid, NoItem, 0)
Proceeds(a, bid) == Draft(NoPlayer, a.owner, bid + Deposit - Cut(bid), NoItem, 0)
Goods(a, to) == Draft(NoPlayer, to, 0, a.item, 0)
Payment(p, m) == Draft(p, m.sender, m.cod, NoItem, 0)

LEMMA LettersOfAuction ==
  ASSUME NEW a \in Auction
  PROVE  /\ a.bidder # NoPlayer => Refund(a) \in Letters
         /\ \A bid \in Nat : Proceeds(a, bid) \in Letters
         /\ \A to \in Players : Goods(a, to) \in Letters
<1>1. \A bid \in Nat : bid + Deposit - Cut(bid) \in Nat
  BY CutType, AuctionsAssumption
<1> QED
  BY <1>1 DEF Refund, Proceeds, Goods, Draft, Letters, Mail, Auction

LEMMA OutbiddedTotal ==
  ASSUME NEW a \in Auction, NEW bidder, NEW price, NEW w \in [Letters -> Nat]
  PROVE  Total(OutbiddedMail(a, bidder, price), w)
           = IF a.bidder \in {NoPlayer, bidder} THEN 0 ELSE w[Refund(a)]
<1>1. CASE a.bidder \in {NoPlayer, bidder}
  BY <1>1, TotalNone DEF OutbiddedMail
<1>2. CASE a.bidder \notin {NoPlayer, bidder}
  <2>1. OutbiddedMail(a, bidder, price) = <<Refund(a)>>
    BY <1>2 DEF OutbiddedMail, Refund
  <2>2. Refund(a) \in Letters
    BY <1>2, LettersOfAuction
  <2> QED
    BY <1>2, <2>1, <2>2, TotalOne
<1> QED
  BY <1>1, <1>2

LEMMA SaleTotal ==
  ASSUME NEW a \in Auction, NEW bidder \in Players, NEW bid \in Nat,
         NEW w \in [Letters -> Nat]
  PROVE  Total(SaleMails(a, bidder, bid), w)
           = w[Proceeds(a, bid)] + w[Goods(a, bidder)]
<1> DEFINE m == Proceeds(a, bid)
<1> DEFINE n == Goods(a, bidder)
<1>1. SaleMails(a, bidder, bid) = <<m, n>>
  BY DEF SaleMails, Proceeds, Goods
<1>2. m \in Letters /\ n \in Letters
  BY LettersOfAuction
<1> HIDE DEF m, n
<1>3. /\ Len(<<m, n>>) = 2 /\ <<m, n>>[1] = m /\ <<m, n>>[2] = n
      /\ w[m] \in Nat /\ w[n] \in Nat
  BY <1>2
<1> QED
  BY <1>1, <1>3 DEF Total, m, n

LEMMA SellLedger ==
  ASSUME HouseTypes, NEW p, NEW item, NEW startbid, NEW buyout,
         Sell(p, item, startbid, buyout), HouseTypes',
         NEW v \in [Auction -> Nat]
  PROVE  \E a \in Auction :
           /\ a.bidder = NoPlayer /\ a.bid = 0
           /\ Weight(auctions', v) = Weight(auctions, v) + v[a]
<1> DEFINE x == auctionId'
<1> DEFINE a == [item |-> item, owner |-> p, startbid |-> startbid, buyout |-> buyout,
                 bidder |-> NoPlayer, bid |-> 0]
<1>1. /\ DOMAIN auctions' = DOMAIN auctions \cup {x}
      /\ \A b \in DOMAIN auctions : b # x => auctions'[b] = auctions[b]
      /\ auctions'[x] = a /\ x = auctionId + 1
  BY DEF Sell
<1>2. a.bidder = NoPlayer /\ a.bid = 0
  OBVIOUS
<1> HIDE DEF a, x
<1>3. x \notin DOMAIN auctions
  BY <1>1, AuctionsAssumption DEF HouseTypes
<1>4. \A b \in DOMAIN auctions : auctions[b] \in Auction
  BY DEF HouseTypes
<1>5. auctions'[x] \in Auction
  BY <1>1 DEF HouseTypes
<1>6. \A b \in DOMAIN auctions : auctions'[b] = auctions[b]
  BY <1>1, <1>3
<1>7. Weight(auctions', v) = Weight(auctions, v) + v[auctions'[x]]
  <2>1. DOMAIN auctions' = DOMAIN auctions \cup {x}
    BY <1>1
  <2> QED
    BY <1>3, <1>4, <1>5, <1>6, <2>1, HouseFinite, WeightExtend
<1> QED
  BY <1>1, <1>2, <1>5, <1>7

LEMMA BidLedger ==
  ASSUME RowTypes, HouseTypes, NEW p \in Players, NEW a \in DOMAIN auctions,
         NEW price \in Prices, Bid(p, a, price), NEW w \in [Letters -> Nat]
  PROVE  Weight(mails', w) = Weight(mails, w)
           + IF auctions[a].bidder \in {NoPlayer, p} THEN 0 ELSE w[Refund(auctions[a])]
<1> DEFINE d == OutbiddedMail(auctions[a], p, price)
<1>1. auctions[a] \in Auction
  BY DEF HouseTypes
<1>2. SendMail(d) /\ d \in Seq(Letters)
  BY <1>1, OutbiddedType DEF Bid
<1>3. Len(d) <= 3
  <2>1. Len(d) \in {0, 1}
    BY <1>1, OutbiddedType
  <2>2. \A n \in {0, 1} : n <= 3
    OBVIOUS
  <2> QED
    BY <2>1, <2>2, Zenon
<1>4. Total(d, w) = IF auctions[a].bidder \in {NoPlayer, p} THEN 0 ELSE w[Refund(auctions[a])]
  BY <1>1, OutbiddedTotal
<1> HIDE DEF d
<1>5. Weight(mails', w) = Weight(mails, w) + Total(d, w)
  BY <1>2, <1>3, SendMailWeight
<1> QED
  BY <1>4, <1>5

LEMMA BidStakes ==
  ASSUME HouseTypes, NEW p \in Players, NEW a \in DOMAIN auctions,
         NEW price \in Prices, Bid(p, a, price), NEW v \in [Auction -> Nat]
  PROVE  \E b \in Auction :
           /\ b.bidder = p /\ b.bid = price
           /\ Weight(auctions', v) + v[auctions[a]] = Weight(auctions, v) + v[b]
<1> DEFINE b == [auctions[a] EXCEPT !.bidder = p, !.bid = price]
<1>1. auctions[a] \in Auction /\ \A y \in DOMAIN auctions : auctions[y] \in Auction
  BY DEF HouseTypes
<1>2. /\ DOMAIN auctions' = DOMAIN auctions /\ auctions'[a] = b
      /\ \A y \in DOMAIN auctions : y # a => auctions'[y] = auctions[y]
  BY DEF Bid
<1>3. b \in Auction /\ b.bidder = p /\ b.bid = price
  BY <1>1, NamedPrices DEF Auction
<1> HIDE DEF b
<1>4. auctions'[a] \in Auction
  BY <1>2, <1>3
<1>5. Weight(auctions', v) + v[auctions[a]] = Weight(auctions, v) + v[auctions'[a]]
  <2>1. /\ DOMAIN auctions' = DOMAIN auctions
        /\ \A y \in DOMAIN auctions : y # a => auctions'[y] = auctions[y]
    BY <1>2
  <2> QED
    BY <1>1, <1>4, <2>1, HouseFinite, WeightUpdate
<1>6. Weight(auctions', v) + v[auctions[a]] = Weight(auctions, v) + v[b]
  BY <1>2, <1>5
<1> QED
  BY <1>3, <1>6

LEMMA EndLedger ==
  ASSUME HouseTypes, NEW a \in DOMAIN auctions, RemoveAuction(a),
         NEW v \in [Auction -> Nat]
  PROVE  Weight(auctions, v) = v[auctions[a]] + Weight(auctions', v)
<1>1. auctions' = Without(auctions, a)
  BY DEF RemoveAuction
<1>2. \A y \in DOMAIN auctions : auctions[y] \in Auction
  BY DEF HouseTypes
<1> QED
  BY <1>1, <1>2, HouseFinite, WeightSplit

LEMMA BuyoutLedger ==
  ASSUME RowTypes, HouseTypes, NEW p \in Players, NEW a \in DOMAIN auctions,
         NEW price, Buyout(p, a, price), NEW w \in [Letters -> Nat]
  PROVE  LET A == auctions[a]
         IN  Weight(mails', w) = Weight(mails, w)
               + (IF A.bidder \in {NoPlayer, p} THEN 0 ELSE w[Refund(A)])
               + (w[Proceeds(A, A.buyout)] + w[Goods(A, p)])
<1> DEFINE A == auctions[a]
<1> DEFINE d == OutbiddedMail(A, p, A.buyout)
<1> DEFINE e == SaleMails(A, p, A.buyout)
<1>1. A \in Auction /\ A.buyout \in Nat
  <2>1. A \in Auction /\ A.buyout \in Prices \cup {0}
    BY DEF HouseTypes, Auction
  <2> QED
    BY <2>1, NamedPrices
<1>2. SendMail(d \o e)
  BY DEF Buyout
<1> HIDE DEF A
<1>3. /\ d \in Seq(Letters) /\ Len(d) \in {0, 1}
      /\ e \in Seq(Letters) /\ Len(e) \in {1, 2}
  BY <1>1, OutbiddedType, SaleType
<1>4. Total(d, w) = IF A.bidder \in {NoPlayer, p} THEN 0 ELSE w[Refund(A)]
  BY <1>1, OutbiddedTotal
<1>5. Total(e, w) = w[Proceeds(A, A.buyout)] + w[Goods(A, p)]
  BY <1>1, SaleTotal
<1>6. Weight(mails, w) \in Nat
  BY RowsFinite, WeightType DEF RowTypes
<1>7. /\ A.bidder \notin {NoPlayer, p} => w[Refund(A)] \in Nat
      /\ w[Proceeds(A, A.buyout)] \in Nat /\ w[Goods(A, p)] \in Nat
  BY <1>1, LettersOfAuction
<1> HIDE DEF d, e
<1>8. /\ Total(d \o e, w) = Total(d, w) + Total(e, w)
      /\ d \o e \in Seq(Letters) /\ Len(d \o e) <= 3
  BY <1>3, TotalJoin
<1>9. Weight(mails', w) = Weight(mails, w) + Total(d \o e, w)
  BY <1>2, <1>8, SendMailWeight
<1>10. Weight(mails', w) = Weight(mails, w)
         + (IF A.bidder \in {NoPlayer, p} THEN 0 ELSE w[Refund(A)])
         + (w[Proceeds(A, A.buyout)] + w[Goods(A, p)])
  BY <1>4, <1>5, <1>6, <1>7, <1>8, <1>9
<1> QED
  BY <1>10 DEF A

LEMMA CancelLedger ==
  ASSUME RowTypes, HouseTypes, NEW p \in Players, NEW a \in DOMAIN auctions,
         Cancel(p, a), NEW w \in [Letters -> Nat]
  PROVE  LET A == auctions[a]
         IN  Weight(mails', w) = Weight(mails, w)
               + (IF A.bidder = NoPlayer THEN 0 ELSE w[Refund(A)])
               + w[Goods(A, p)]
<1> DEFINE A == auctions[a]
<1> DEFINE d == IF A.bidder = NoPlayer THEN <<>> ELSE <<Refund(A)>>
<1> DEFINE e == <<Goods(A, p)>>
<1>1. A \in Auction
  BY DEF HouseTypes
<1>2. SendMail(d \o e)
  BY DEF Cancel, Refund, Goods
<1> HIDE DEF A
<1>3. /\ A.bidder # NoPlayer => Refund(A) \in Letters
      /\ Goods(A, p) \in Letters
  BY <1>1, LettersOfAuction
<1>4. d \in Seq(Letters) /\ Len(d) \in {0, 1}
  BY <1>3, OneType
<1>5. e \in Seq(Letters) /\ Len(e) \in {1, 2}
  BY <1>3, OneType
<1>6. Total(d, w) = IF A.bidder = NoPlayer THEN 0 ELSE w[Refund(A)]
  <2>1. CASE A.bidder = NoPlayer
    BY <2>1, TotalNone
  <2>2. CASE A.bidder # NoPlayer
    BY <1>3, <2>2, TotalOne
  <2> QED
    BY <2>1, <2>2
<1>7. Total(e, w) = w[Goods(A, p)]
  BY <1>3, TotalOne
<1>8. Weight(mails, w) \in Nat
  BY RowsFinite, WeightType DEF RowTypes
<1>9. /\ A.bidder # NoPlayer => w[Refund(A)] \in Nat
      /\ w[Goods(A, p)] \in Nat
  BY <1>3
<1> HIDE DEF d, e
<1>10. /\ Total(d \o e, w) = Total(d, w) + Total(e, w)
       /\ d \o e \in Seq(Letters) /\ Len(d \o e) <= 3
  BY <1>4, <1>5, TotalJoin
<1>11. Weight(mails', w) = Weight(mails, w) + Total(d \o e, w)
  BY <1>2, <1>10, SendMailWeight
<1>12. Weight(mails', w) = Weight(mails, w)
         + (IF A.bidder = NoPlayer THEN 0 ELSE w[Refund(A)])
         + w[Goods(A, p)]
  BY <1>6, <1>7, <1>8, <1>9, <1>10, <1>11
<1> QED
  BY <1>12 DEF A

LEMMA ExpireLedger ==
  ASSUME RowTypes, HouseTypes, NEW a \in DOMAIN auctions, Expire(a),
         NEW w \in [Letters -> Nat]
  PROVE  LET A == auctions[a]
         IN  Weight(mails', w) = Weight(mails, w)
               + IF A.bidder = NoPlayer THEN w[Goods(A, A.owner)]
                 ELSE w[Proceeds(A, A.bid)] + w[Goods(A, A.bidder)]
<1> DEFINE A == auctions[a]
<1>1. /\ A \in Auction /\ A.bid \in Nat /\ A.owner \in Players
      /\ A.bidder # NoPlayer => A.bidder \in Players
  BY DEF HouseTypes, Auction
<1>2. \/ A.bidder = NoPlayer /\ SendMail(<<Goods(A, A.owner)>>)
      \/ A.bidder # NoPlayer /\ SendMail(SaleMails(A, A.bidder, A.bid))
  BY DEF Expire, Goods
<1> HIDE DEF A
<1>3. CASE A.bidder = NoPlayer /\ SendMail(<<Goods(A, A.owner)>>)
  <2> DEFINE m == Goods(A, A.owner)
  <2>1. m \in Letters
    BY <1>1, LettersOfAuction
  <2>2. SendMail(<<m>>) /\ A.bidder = NoPlayer
    BY <1>3
  <2> HIDE DEF m
  <2>3. <<m>> \in Seq(Letters) /\ Len(<<m>>) <= 3
    BY <2>1
  <2>4. Weight(mails', w) = Weight(mails, w) + Total(<<m>>, w)
    BY <2>2, <2>3, SendMailWeight
  <2>5. Weight(mails', w) = Weight(mails, w) + w[m]
    BY <2>1, <2>4, TotalOne
  <2> QED
    BY <2>2, <2>5 DEF A, m
<1>4. CASE A.bidder # NoPlayer /\ SendMail(SaleMails(A, A.bidder, A.bid))
  <2> DEFINE e == SaleMails(A, A.bidder, A.bid)
  <2>1. e \in Seq(Letters) /\ Len(e) = 2 /\ SendMail(e)
    BY <1>1, <1>4, SaleType
  <2>2. Total(e, w) = w[Proceeds(A, A.bid)] + w[Goods(A, A.bidder)]
    BY <1>1, <1>4, SaleTotal
  <2> HIDE DEF e
  <2>3. Len(e) <= 3
    BY <2>1
  <2>4. Weight(mails', w) = Weight(mails, w) + Total(e, w)
    BY <2>1, <2>3, SendMailWeight
  <2> QED
    BY <1>4, <2>2, <2>4 DEF A
<1> QED
  BY <1>2, <1>3, <1>4

LEMMA PostLedger ==
  ASSUME RowTypes, NEW p \in Players, NEW q \in Players,
         NEW item \in Items \cup {NoItem},
         NEW money \in Amounts \cup {0}, NEW cod \in Amounts \cup {0},
         Post(p, q, item, money, cod), NEW w \in [Letters -> Nat]
  PROVE  /\ Draft(p, q, money, item, cod) \in Letters
         /\ Weight(mails', w) = Weight(mails, w) + w[Draft(p, q, money, item, cod)]
<1> DEFINE m == Draft(p, q, money, item, cod)
<1>1. m \in Letters
  BY AuctionsAssumption DEF Draft, Letters, Mail
<1>2. SendTo(mails, <<m>>)
  BY DEF Post
<1> HIDE DEF m
<1>3. <<m>> \in Seq(Letters) /\ Len(<<m>>) <= 3
  BY <1>1
<1>4. Weight(mails', w) = Weight(mails, w) + Total(<<m>>, w)
  BY <1>2, <1>3, RowsFinite, SentWeight DEF RowTypes
<1>5. Weight(mails', w) = Weight(mails, w) + w[m]
  BY <1>1, <1>4, TotalOne
<1> QED
  BY <1>1, <1>5 DEF m

(* A weight that looks only at the money and at the receiver.              *)
ByMoney(w) ==
  \A m, n \in Letters : m.money = n.money /\ m.to = n.to => w[m] = w[n]

LEMMA TakeItemLedger ==
  ASSUME RowTypes, NEW p \in Players, NEW m \in DOMAIN mails, TakeItem(p, m),
         NEW w \in [Letters -> Nat], ByMoney(w)
  PROVE  /\ mails[m].cod # 0 => Payment(p, mails[m]) \in Letters
         /\ Weight(mails', w) = Weight(mails, w)
              + IF mails[m].cod = 0 THEN 0 ELSE w[Payment(p, mails[m])]
<1> DEFINE rows == [mails EXCEPT ![m].item = NoItem, ![m].cod = 0]
<1> DEFINE draft == Payment(p, mails[m])
<1> DEFINE d == IF mails[m].cod = 0 THEN <<>> ELSE <<draft>>
<1>1. SendTo(rows, d)
  BY DEF TakeItem, Payment
<1>2. mails[m] \in Letters /\ DOMAIN mails \subseteq 1 .. mailId /\ mailId \in Nat
  BY AuctionsAssumption DEF RowTypes
<1>3. /\ DOMAIN rows = DOMAIN mails
      /\ rows[m] = [mails[m] EXCEPT !.item = NoItem, !.cod = 0]
      /\ \A n \in DOMAIN mails : n # m => rows[n] = mails[n]
  OBVIOUS
<1>4. /\ rows[m] \in Letters
      /\ rows[m].money = mails[m].money /\ rows[m].to = mails[m].to
  BY <1>2, <1>3 DEF Letters, Mail
<1>5. \A n \in DOMAIN rows : rows[n] \in Letters
  BY <1>3, <1>4 DEF RowTypes
<1>6. mails[m].cod # 0 => draft \in Letters
  BY <1>2, AuctionsAssumption DEF Payment, Draft, Letters, Mail
<1> HIDE DEF draft
<1>7. d \in Seq(Letters) /\ Len(d) <= 3
  BY <1>6
<1>8. Total(d, w) = IF mails[m].cod = 0 THEN 0 ELSE w[draft]
  <2>1. CASE mails[m].cod = 0
    BY <2>1, TotalNone
  <2>2. CASE mails[m].cod # 0
    BY <1>6, <2>2, TotalOne
  <2> QED
    BY <2>1, <2>2
<1> HIDE DEF rows, d
<1>9. Weight(mails', w) = Weight(rows, w) + Total(d, w)
  <2>1. DOMAIN rows \subseteq 1 .. mailId
    BY <1>2, <1>3
  <2> QED
    BY <1>1, <1>2, <1>5, <1>7, <2>1, SentWeight
<1>10. Weight(rows, w) = Weight(mails, w)
  <2>1. \A n \in DOMAIN mails : w[rows[n]] = w[mails[n]]
    <3>1. w[rows[m]] = w[mails[m]]
      BY <1>2, <1>4 DEF ByMoney
    <3> QED
      BY <1>3, <3>1
  <2>2. [n \in DOMAIN rows |-> w[rows[n]]] = [n \in DOMAIN mails |-> w[mails[n]]]
    BY <1>3, <2>1
  <2> QED
    BY <2>2 DEF Weight
<1> QED
  BY <1>6, <1>8, <1>9, <1>10 DEF draft

LEMMA TakeMoneyLedger ==
  ASSUME RowTypes, NEW p, NEW m \in DOMAIN mails, TakeMoney(p, m),
         NEW w \in [Letters -> Nat]
  PROVE  /\ [mails[m] EXCEPT !.money = 0] \in Letters
         /\ Weight(mails', w) + w[mails[m]]
              = Weight(mails, w) + w[[mails[m] EXCEPT !.money = 0]]
<1> DEFINE n == [mails[m] EXCEPT !.money = 0]
<1>1. mails[m] \in Letters /\ \A y \in DOMAIN mails : mails[y] \in Letters
  BY DEF RowTypes
<1>2. n \in Letters
  BY <1>1 DEF Letters, Mail
<1>3. /\ DOMAIN mails' = DOMAIN mails /\ mails'[m] = n
      /\ \A y \in DOMAIN mails : y # m => mails'[y] = mails[y]
  BY DEF TakeMoney
<1> HIDE DEF n
<1>4. mails'[m] \in Letters
  BY <1>2, <1>3
<1>5. Weight(mails', w) + w[mails[m]] = Weight(mails, w) + w[mails'[m]]
  <2>1. /\ DOMAIN mails' = DOMAIN mails
        /\ \A y \in DOMAIN mails : y # m => mails'[y] = mails[y]
    BY <1>3
  <2> QED
    BY <1>1, <1>4, <2>1, RowsFinite, WeightUpdate
<1>6. Weight(mails', w) + w[mails[m]] = Weight(mails, w) + w[n]
  BY <1>3, <1>5
<1> QED
  BY <1>2, <1>6 DEF n

LEMMA LessWeight ==
  ASSUME RowTypes, NEW m \in DOMAIN mails, NEW w \in [Letters -> Nat]
  PROVE  /\ Weight(mails, w) = w[mails[m]] + Weight(Without(mails, m), w)
         /\ Weight(Without(mails, m), w) \in Nat /\ w[mails[m]] \in Nat
<1>1. \A y \in DOMAIN mails : mails[y] \in Letters
  BY DEF RowTypes
<1>2. /\ Weight(mails, w) = w[mails[m]] + Weight(Without(mails, m), w)
      /\ Weight(Without(mails, m), w) \in Nat
  BY <1>1, RowsFinite, WeightSplit
<1> QED
  BY <1>1, <1>2

LEMMA DeleteLedger ==
  ASSUME RowTypes, NEW p, NEW m \in DOMAIN mails, Delete(p, m),
         NEW w \in [Letters -> Nat]
  PROVE  Weight(mails', w) + w[mails[m]] = Weight(mails, w)
<1>1. mails' = Without(mails, m)
  BY DEF Delete
<1> QED
  BY <1>1, LessWeight

LEMMA ReturnLedger ==
  ASSUME RowTypes, NEW p \in Players, NEW m \in DOMAIN mails, Return(p, m),
         NEW w \in [Letters -> Nat]
  PROVE  \/ /\ Spend(mails[m].money, 0)
            /\ Weight(mails', w) + w[mails[m]] = Weight(mails, w)
         \/ /\ UNCHANGED books /\ ReturnDraft(p, mails[m]) \in Letters
            /\ Weight(mails', w) + w[mails[m]]
                 = Weight(mails, w) + w[ReturnDraft(p, mails[m])]
<1> DEFINE rows == Without(mails, m)
<1> DEFINE r == ReturnDraft(p, mails[m])
<1>1. /\ mails[m] \in Letters /\ DOMAIN mails \subseteq 1 .. mailId
      /\ mailId \in Nat
  BY AuctionsAssumption DEF RowTypes
<1>2. /\ DOMAIN rows \subseteq 1 .. mailId
      /\ \A n \in DOMAIN rows : rows[n] \in Letters
  BY LessType, <1>1
<1>3. \/ mails[m].sender = NoPlayer /\ SendTo(rows, <<>>) /\ Spend(mails[m].money, 0)
      \/ mails[m].sender # NoPlayer /\ SendTo(rows, <<r>>) /\ UNCHANGED books
  BY DEF Return
<1>4. mails[m].sender # NoPlayer => r \in Letters
  BY <1>1, AuctionsAssumption DEF ReturnDraft, Draft, Letters, Mail
<1>5. /\ Weight(mails, w) = w[mails[m]] + Weight(rows, w)
      /\ Weight(rows, w) \in Nat /\ w[mails[m]] \in Nat
  BY LessWeight
<1> HIDE DEF rows, r
<1>6. ASSUME mails[m].sender = NoPlayer, SendTo(rows, <<>>)
      PROVE  Weight(mails', w) + w[mails[m]] = Weight(mails, w)
  <2> DEFINE d == <<>>
  <2>1. d \in Seq(Letters) /\ Len(d) <= 3 /\ SendTo(rows, d) /\ Total(d, w) = 0
    BY <1>6, TotalNone
  <2> HIDE DEF d
  <2>2. Weight(mails', w) = Weight(rows, w) + Total(d, w)
    BY <1>1, <1>2, <2>1, SentWeight
  <2> QED
    BY <1>5, <2>1, <2>2
<1>7. ASSUME mails[m].sender # NoPlayer, SendTo(rows, <<r>>)
      PROVE  Weight(mails', w) + w[mails[m]] = Weight(mails, w) + w[r]
  <2> DEFINE d == <<r>>
  <2>1. /\ d \in Seq(Letters) /\ Len(d) <= 3 /\ SendTo(rows, d)
        /\ Total(d, w) = w[r] /\ w[r] \in Nat
    BY <1>4, <1>7, TotalOne
  <2> HIDE DEF d
  <2>2. Weight(mails', w) = Weight(rows, w) + Total(d, w)
    BY <1>1, <1>2, <2>1, SentWeight
  <2> QED
    BY <1>5, <2>1, <2>2
<1> QED
  BY <1>3, <1>4, <1>6, <1>7 DEF r

-----------------------------------------------------------------------------
(* No gold is made or lost                                                 *)

Money == [m \in Letters |-> m.money]
Stake == [a \in Auction |-> a.bid + Deposit]

(* Who has not bid has no gold in the house.                               *)
NoBidderNoBid ==
  \A a \in DOMAIN auctions : auctions[a].bidder = NoPlayer => auctions[a].bid = 0

LEMMA MoneyType == Money \in [Letters -> Nat] /\ \A m \in Letters : Money[m] = m.money
<1>1. \A m \in Letters : m.money \in Nat
  BY DEF Letters, Mail
<1> QED
  BY <1>1 DEF Money

LEMMA StakeType ==
  Stake \in [Auction -> Nat] /\ \A a \in Auction : Stake[a] = a.bid + Deposit
<1>1. \A a \in Auction : a.bid + Deposit \in Nat
  BY AuctionsAssumption DEF Auction
<1> QED
  BY <1>1 DEF Stake

LEMMA DraftFields ==
  ASSUME NEW sender, NEW to, NEW money, NEW item, NEW cod
  PROVE  LET m == Draft(sender, to, money, item, cod)
         IN m.money = money /\ m.to = to /\ m.item = item
  BY DEF Draft

(* All the gold there is, by weight.                                       *)
LEMMA MoneyWeight ==
  ASSUME NEW rows, \A m \in DOMAIN rows : rows[m] \in Letters
  PROVE  SumFunction([m \in DOMAIN rows |-> rows[m].money]) = Weight(rows, Money)
<1>1. [m \in DOMAIN rows |-> Money[rows[m]]] = [m \in DOMAIN rows |-> rows[m].money]
  BY MoneyType
<1> QED
  BY <1>1 DEF Weight

LEMMA StakeWeight ==
  ASSUME NEW house, \A a \in DOMAIN house : house[a] \in Auction
  PROVE  SumFunction([a \in DOMAIN house |-> house[a].bid + Deposit]) = Weight(house, Stake)
<1>1. [a \in DOMAIN house |-> Stake[house[a]]]
        = [a \in DOMAIN house |-> house[a].bid + Deposit]
  BY StakeType
<1> QED
  BY <1>1 DEF Weight

LEMMA GoldParts ==
  ASSUME Typed
  PROVE  /\ SumFunction(gold) \in Nat
         /\ Weight(mails, Money) \in Nat /\ Weight(auctions, Stake) \in Nat
<1>1. RowTypes /\ HouseTypes /\ PurseTypes
  BY DEF Typed
<1>2. gold \in [Players -> Nat] /\ IsFiniteSet(Players)
  BY <1>1, AuctionsAssumption DEF PurseTypes
<1>3. SumFunction(gold) \in Nat
  BY <1>2, SumType
<1>4. Weight(mails, Money) \in Nat
  BY <1>1, RowsFinite, MoneyType, WeightType DEF RowTypes
<1>5. Weight(auctions, Stake) \in Nat
  BY <1>1, HouseFinite, StakeType, WeightType DEF HouseTypes
<1> QED
  BY <1>3, <1>4, <1>5

(* A step loses no gold but what it books, and books none that is not lost *)
(* but what a cut that overflowed should have been.                        *)
GoldKept ==
  /\ Gold' \in Nat /\ Gold \in Nat
  /\ Gold' + spent' <= Gold + spent
  /\ Gold + spent + forgone <= Gold' + spent' + forgone'

(* Out of a purse, or into it.                                             *)
LEMMA PurseChanges ==
  ASSUME NEW f \in [Players -> Nat], NEW g \in [Players -> Nat], NEW p \in Players,
         \A q \in Players \ {p} : g[q] = f[q]
  PROVE  SumFunction(g) + f[p] = SumFunction(f) + g[p]
<1>1. IsFiniteSet(Players)
  BY AuctionsAssumption
<1>2. SameBut(f, g, Players, p)
  BY <1>1 DEF SameBut
<1> QED
  BY <1>2, SumUpdate

LEMMA PurseGives ==
  ASSUME NEW f \in [Players -> Nat], NEW p \in Players, NEW n \in Int,
         NEW g \in [Players -> Nat], g = [f EXCEPT ![p] = @ - n]
  PROVE  SumFunction(g) + n = SumFunction(f)
<1>1. \A q \in Players \ {p} : g[q] = f[q]
  OBVIOUS
<1>2. SumFunction(g) + f[p] = SumFunction(f) + g[p]
  BY <1>1, PurseChanges, Zenon
<1>3. /\ SumFunction(g) \in Nat /\ SumFunction(f) \in Nat
      /\ f[p] \in Nat /\ g[p] \in Nat
  BY SumType, AuctionsAssumption
<1>4. g[p] = f[p] - n
  OBVIOUS
<1> QED
  BY <1>2, <1>3, <1>4

LEMMA MoneyOfMails ==
  ASSUME NEW a \in Auction
  PROVE  /\ a.bidder # NoPlayer => Money[Refund(a)] = a.bid
         /\ \A bid \in Nat : Money[Proceeds(a, bid)] = bid + Deposit - Cut(bid)
         /\ \A to \in Players : Money[Goods(a, to)] = 0
<1>1. /\ Refund(a).money = a.bid
      /\ \A bid : Proceeds(a, bid).money = bid + Deposit - Cut(bid)
      /\ \A to : Goods(a, to).money = 0
  BY DraftFields DEF Refund, Proceeds, Goods
<1> QED
  BY <1>1, LettersOfAuction, MoneyType

LEMMA Sums ==
  ASSUME NEW g \in Nat, NEW h \in Nat, NEW n \in Nat, g = h + n,
         NEW s \in Nat, NEW f \in Nat, NEW s1 \in Nat, NEW f1 \in Nat,
         s1 <= s + n, s + f + n <= s1 + f1
  PROVE  h + s1 <= g + s /\ g + s + f <= h + s1 + f1
  OBVIOUS

LEMMA Balance ==
  ASSUME NEW g \in Nat, NEW h \in Nat, NEW n \in Nat, g = h + n,
         PurseTypes, Booked(n)
  PROVE  h + spent' <= g + spent /\ g + spent + forgone <= h + spent' + forgone'
<1>1. /\ spent \in Nat /\ forgone \in Nat /\ spent' \in Nat /\ forgone' \in Nat
      /\ spent' <= spent + n /\ spent + forgone + n <= spent' + forgone'
  BY DEF PurseTypes, Booked
<1> QED
  BY <1>1, Sums, Zenon

LEMMA Chain ==
  ASSUME NEW g \in Nat, NEW h \in Nat, NEW start \in Nat,
         NEW s \in Nat, NEW f \in Nat, NEW s1 \in Nat, NEW f1 \in Nat,
         h + s1 <= g + s, g + s + f <= h + s1 + f1,
         g + s <= start, start <= g + s + f
  PROVE  h + s1 <= start /\ start <= h + s1 + f1
  OBVIOUS

LEMMA GoldStep ==
  ASSUME Typed, Typed', BidsAreBelow, NoBidderNoBid, [Next]_vars
  PROVE  GoldKept
<1>1. RowTypes /\ HouseTypes /\ PurseTypes /\ HouseTypes'
  BY DEF Typed
<1>2. /\ gold \in [Players -> Nat] /\ gold' \in [Players -> Nat]
      /\ spent \in Nat /\ forgone \in Nat
  BY AuctionsAssumption DEF Typed, PurseTypes
<1> DEFINE S == SumFunction(gold)
<1> DEFINE M == Weight(mails, Money)
<1> DEFINE H == Weight(auctions, Stake)
<1> DEFINE S1 == SumFunction(gold')
<1> DEFINE M1 == Weight(mails', Money)
<1> DEFINE H1 == Weight(auctions', Stake)
<1>3. /\ S \in Nat /\ M \in Nat /\ H \in Nat
      /\ S1 \in Nat /\ M1 \in Nat /\ H1 \in Nat
  <2>1. S \in Nat /\ M \in Nat /\ H \in Nat
    BY GoldParts
  <2>2. S1 \in Nat
    BY <1>2, AuctionsAssumption, SumType
  <2>3. IsFiniteSet(DOMAIN mails') /\ IsFiniteSet(DOMAIN auctions')
    <3>1. RowTypes'
      BY DEF Typed
    <3>2. DOMAIN mails' \subseteq 1 .. mailId' /\ mailId' \in Nat
      BY <3>1, AuctionsAssumption DEF RowTypes
    <3>3. DOMAIN auctions' \subseteq 1 .. auctionId' /\ auctionId' \in Nat
      BY <1>1, AuctionsAssumption DEF HouseTypes
    <3>4. IsFiniteSet(1 .. mailId') /\ IsFiniteSet(1 .. auctionId')
      BY <3>2, <3>3, FS_Interval
    <3> QED
      BY <3>2, <3>3, <3>4, FS_Subset
  <2>4. M1 \in Nat
    BY <2>3, MoneyType, WeightType DEF Typed, RowTypes
  <2>5. H1 \in Nat
    BY <1>1, <2>3, StakeType, WeightType DEF HouseTypes
  <2> QED
    BY <2>1, <2>2, <2>4, <2>5
<1>4. ASSUME NEW n \in Nat, Booked(n), S1 + M1 + H1 + n = S + M + H PROVE GoldKept
  <2>1. Gold = S + M + H
    BY <1>1, MoneyWeight, StakeWeight DEF Gold, RowTypes, HouseTypes
  <2>2. Gold' = S1 + M1 + H1
    <3>1. \A m \in DOMAIN mails' : mails'[m] \in Letters
      BY DEF Typed, RowTypes
    <3>2. \A a \in DOMAIN auctions' : auctions'[a] \in Auction
      BY DEF Typed, HouseTypes
    <3>3. SumFunction([m \in DOMAIN mails' |-> mails'[m].money]) = M1
      BY <3>1, MoneyWeight
    <3>4. SumFunction([a \in DOMAIN auctions' |-> auctions'[a].bid + Deposit]) = H1
      BY <3>2, StakeWeight
    <3> QED
      BY <3>3, <3>4 DEF Gold
  <2> DEFINE g == S + M + H
  <2> DEFINE h == S1 + M1 + H1
  <2>3. g \in Nat /\ h \in Nat /\ g = h + n
    <3> HIDE DEF S, M, H, S1, M1, H1
    <3> QED
      BY <1>3, <1>4
  <2>4. Gold = g /\ Gold' = h
    BY <2>1, <2>2
  <2> HIDE DEF g, h
  <2>5. h + spent' <= g + spent /\ g + spent + forgone <= h + spent' + forgone'
    BY <1>1, <1>4, <2>3, Balance
  <2> QED
    BY <2>3, <2>4, <2>5, Zenon DEF GoldKept
<1>5. ASSUME UNCHANGED gold PROVE S1 = S
  BY <1>5
<1>6. ASSUME UNCHANGED mails PROVE M1 = M
  BY <1>6
<1>7. ASSUME UNCHANGED auctions PROVE H1 = H
  BY <1>7
<1>8. ASSUME NEW p \in Players, NEW n \in Int, gold' = [gold EXCEPT ![p] = @ - n]
      PROVE  S1 + n = S
  BY <1>2, <1>8, PurseGives
<1>9. Deposit \in Nat /\ Postage \in Nat /\ Deposit \in Int
  BY AuctionsAssumption
<1>10. \A a \in DOMAIN auctions :
         /\ auctions[a] \in Auction
         /\ auctions[a].bid \in Nat /\ auctions[a].buyout \in Nat
         /\ auctions[a].owner \in Players
         /\ auctions[a].bidder # NoPlayer => auctions[a].bidder \in Players
  BY <1>1, NamedPrices DEF HouseTypes, Auction
<1>11. \A m \in DOMAIN mails : /\ mails[m] \in Letters
                               /\ mails[m].money \in Nat /\ mails[m].cod \in Nat
  BY <1>1 DEF RowTypes, Letters, Mail
<1> HIDE DEF S, M, H, S1, M1, H1
<1>12. ASSUME NEW p \in Players, NEW item \in Items, NEW startbid \in Prices,
              NEW buyout \in Prices \cup {0}, Sell(p, item, startbid, buyout)
       PROVE  GoldKept
  <2>1. /\ gold' = [gold EXCEPT ![p] = @ - Deposit]
        /\ UNCHANGED mails /\ Booked(0)
    BY <1>1, <1>12, NothingBooked DEF Sell
  <2>2. PICK a \in Auction : a.bid = 0 /\ H1 = H + Stake[a]
    BY <1>1, <1>12, StakeType, SellLedger DEF H, H1
  <2>3. Stake[a] = Deposit
    BY <1>9, <2>2, StakeType
  <2>4. S1 + Deposit = S
    BY <1>8, <1>9, <2>1, Zenon
  <2> QED
    BY <1>3, <1>4, <1>6, <1>9, <2>1, <2>2, <2>3, <2>4
<1>13. ASSUME NEW p \in Players, NEW a \in DOMAIN auctions, NEW price \in Prices,
              Bid(p, a, price)
       PROVE  GoldKept
  <2> DEFINE A == auctions[a]
  <2> DEFINE due == Due(auctions[a], p, price)
  <2>1. /\ gold' = [gold EXCEPT ![p] = @ - due] /\ Booked(0)
        /\ price \in Nat
    BY <1>1, <1>13, AuctionsAssumption, NothingBooked DEF Bid
  <2>2. M1 = M + IF A.bidder \in {NoPlayer, p} THEN 0 ELSE Money[Refund(A)]
    BY <1>1, <1>13, MoneyType, BidLedger DEF M, M1
  <2>3. A \in Auction /\ A.bid \in Nat /\ (A.bidder = NoPlayer => A.bid = 0)
    BY <1>10 DEF NoBidderNoBid
  <2>4. PICK B \in Auction : B.bid = price /\ H1 + Stake[A] = H + Stake[B]
    BY <1>1, <1>13, StakeType, BidStakes DEF H, H1
  <2>5. Stake[A] = A.bid + Deposit /\ Stake[B] = price + Deposit
    BY <2>3, <2>4, StakeType
  <2>6. A.bidder # NoPlayer => Money[Refund(A)] = A.bid
    BY <2>3, MoneyOfMails
  <2>7. due = IF A.bidder = p THEN price - A.bid ELSE price
    BY DEF Due
  <2> HIDE DEF A, due
  <2>8. due \in Int
    BY <2>1, <2>3, <2>7
  <2>9. S1 + due = S
    BY <1>8, <2>1, <2>8
  <2>10. M1 = M + (IF A.bidder = p THEN 0 ELSE A.bid)
    BY <1>3, <2>2, <2>3, <2>6
  <2>11. H1 + A.bid = H + price
    BY <1>3, <1>9, <2>1, <2>3, <2>4, <2>5
  <2> QED
    BY <1>3, <1>4, <2>1, <2>3, <2>7, <2>9, <2>10, <2>11
<1>14. ASSUME NEW p \in Players, NEW a \in DOMAIN auctions, NEW price \in Prices,
              Buyout(p, a, price)
       PROVE  GoldKept
  <2> DEFINE A == auctions[a]
  <2> DEFINE paid == auctions[a].buyout
  <2> DEFINE due == Due(auctions[a], p, paid)
  <2>1. /\ gold' = [gold EXCEPT ![p] = @ - due] /\ Spend(0, paid)
        /\ RemoveAuction(a)
    BY <1>14 DEF Buyout
  <2>2. M1 = M + (IF A.bidder \in {NoPlayer, p} THEN 0 ELSE Money[Refund(A)])
               + (Money[Proceeds(A, paid)] + Money[Goods(A, p)])
    BY <1>1, <1>14, MoneyType, BuyoutLedger DEF M, M1
  <2>3. H = Stake[A] + H1
    BY <1>1, <2>1, StakeType, EndLedger DEF H, H1
  <2>4. /\ A \in Auction /\ A.bid \in Nat /\ paid \in Nat
        /\ A.bidder = NoPlayer => A.bid = 0
    BY <1>10 DEF NoBidderNoBid
  <2>5. Stake[A] = A.bid + Deposit
    BY <2>4, StakeType
  <2>6. /\ A.bidder # NoPlayer => Money[Refund(A)] = A.bid
        /\ Money[Proceeds(A, paid)] = paid + Deposit - Cut(paid)
        /\ Money[Goods(A, p)] = 0
    BY <2>4, MoneyOfMails
  <2>7. due = IF A.bidder = p THEN paid - A.bid ELSE paid
    BY DEF Due
  <2>8. Cut(paid) \in Nat /\ Booked(0 + Cut(paid))
    BY <1>1, <2>1, <2>4, CutType, SpendBooks
  <2> HIDE DEF A, paid, due
  <2>9. due \in Int
    BY <2>4, <2>7
  <2>10. S1 + due = S
    BY <1>8, <2>1, <2>9
  <2>11. M1 = M + (IF A.bidder = p THEN 0 ELSE A.bid) + (paid + Deposit - Cut(paid))
    BY <1>3, <1>9, <2>2, <2>4, <2>6, <2>8
  <2>12. H = A.bid + Deposit + H1
    BY <2>3, <2>5
  <2> QED
    <3>1. S1 + M1 + H1 + (0 + Cut(paid)) = S + M + H
      BY <1>3, <1>9, <2>4, <2>7, <2>8, <2>10, <2>11, <2>12
    <3> QED
      BY <1>4, <2>8, <3>1
<1>15. ASSUME NEW p \in Players, NEW a \in DOMAIN auctions, Cancel(p, a)
       PROVE  GoldKept
  <2> DEFINE A == auctions[a]
  <2> DEFINE cut == IF auctions[a].bidder = NoPlayer THEN 0 ELSE Cut(auctions[a].bid)
  <2> DEFINE bid == IF auctions[a].bidder = NoPlayer THEN 0 ELSE auctions[a].bid
  <2>1. /\ gold' = [gold EXCEPT ![p] = @ - cut] /\ Spend(Deposit, bid)
        /\ RemoveAuction(a)
    BY <1>15 DEF Cancel
  <2>2. M1 = M + (IF A.bidder = NoPlayer THEN 0 ELSE Money[Refund(A)])
               + Money[Goods(A, p)]
    BY <1>1, <1>15, MoneyType, CancelLedger DEF M, M1
  <2>3. H = Stake[A] + H1
    BY <1>1, <2>1, StakeType, EndLedger DEF H, H1
  <2>4. A \in Auction /\ A.bid \in Nat /\ (A.bidder = NoPlayer => A.bid = 0)
    BY <1>10 DEF NoBidderNoBid
  <2>5. cut \in Nat /\ Booked(Deposit + cut)
    <3>1. bid \in Nat /\ cut = Cut(bid)
      BY <2>4, NoCut
    <3> QED
      BY <1>1, <1>9, <2>1, <3>1, CutType, SpendBooks
  <2>6. /\ Stake[A] = A.bid + Deposit
        /\ A.bidder # NoPlayer => Money[Refund(A)] = A.bid
        /\ Money[Goods(A, p)] = 0
    BY <2>4, StakeType, MoneyOfMails
  <2> HIDE DEF A, cut, bid
  <2>7. S1 + cut = S
    <3>1. cut \in Int
      BY <2>5
    <3> QED
      BY <1>8, <2>1, <3>1, Zenon
  <2>8. M1 = M + A.bid
    BY <1>3, <2>2, <2>4, <2>6
  <2>9. H = A.bid + Deposit + H1
    BY <2>3, <2>6
  <2> QED
    <3>1. cut \in Nat /\ A.bid \in Nat /\ Deposit + cut \in Nat
      BY <1>9, <2>4, <2>5
    <3>2. S1 + M1 + H1 + (Deposit + cut) = S + M + H
      BY <1>3, <1>9, <2>7, <2>8, <2>9, <3>1
    <3> QED
      BY <1>4, <2>5, <3>1, <3>2
<1>16. ASSUME NEW a \in DOMAIN auctions, Expire(a) PROVE GoldKept
  <2> DEFINE A == auctions[a]
  <2>1. /\ UNCHANGED gold /\ RemoveAuction(a)
        /\ \/ A.bidder = NoPlayer /\ Spend(Deposit, 0)
           \/ A.bidder # NoPlayer /\ Spend(0, A.bid)
    BY <1>16 DEF Expire
  <2>2. M1 = M + IF A.bidder = NoPlayer THEN Money[Goods(A, A.owner)]
                 ELSE Money[Proceeds(A, A.bid)] + Money[Goods(A, A.bidder)]
    BY <1>1, <1>16, MoneyType, ExpireLedger DEF M, M1
  <2>3. H = Stake[A] + H1
    BY <1>1, <2>1, StakeType, EndLedger DEF H, H1
  <2>4. A \in Auction /\ A.bid \in Nat /\ (A.bidder = NoPlayer => A.bid = 0)
    BY <1>10 DEF NoBidderNoBid
  <2>5. /\ Stake[A] = A.bid + Deposit
        /\ Money[Proceeds(A, A.bid)] = A.bid + Deposit - Cut(A.bid)
        /\ Money[Goods(A, A.owner)] = 0
        /\ A.bidder # NoPlayer => Money[Goods(A, A.bidder)] = 0
    BY <1>10, <2>4, StakeType, MoneyOfMails
  <2> DEFINE paid == IF A.bidder = NoPlayer THEN Deposit ELSE Cut(A.bid)
  <2>6. Cut(A.bid) \in Nat /\ paid \in Nat /\ Booked(paid)
    <3>1. Cut(A.bid) \in Nat /\ 0 + Cut(A.bid) = Cut(A.bid)
      BY <2>4, CutType
    <3>2. A.bidder = NoPlayer => Booked(Deposit)
      BY <1>1, <1>9, <2>1, FeeBooks
    <3>3. A.bidder # NoPlayer => Booked(0 + Cut(A.bid))
      BY <1>1, <2>1, <2>4, SpendBooks
    <3> QED
      BY <1>9, <3>1, <3>2, <3>3
  <2> HIDE DEF A, paid
  <2>7. M1 = M + IF A.bidder = NoPlayer THEN 0 ELSE A.bid + Deposit - Cut(A.bid)
    BY <1>3, <1>9, <2>2, <2>4, <2>5, <2>6
  <2>8. H = A.bid + Deposit + H1
    BY <2>3, <2>5
  <2> QED
    <3>1. S1 + M1 + H1 + paid = S + M + H
      BY <1>3, <1>5, <1>9, <2>1, <2>4, <2>6, <2>7, <2>8 DEF paid
    <3> QED
      BY <1>4, <2>6, <3>1
<1>17. ASSUME NEW p \in Players, NEW q \in Players,
              NEW item \in Items \cup {NoItem},
              NEW money \in Amounts \cup {0}, NEW cod \in Amounts \cup {0},
              Post(p, q, item, money, cod)
       PROVE  GoldKept
  <2> DEFINE m == Draft(p, q, money, item, cod)
  <2>1. /\ gold' = [gold EXCEPT ![p] = @ - (money + Postage)]
        /\ UNCHANGED auctions /\ Booked(Postage)
    BY <1>1, <1>9, <1>17, FeeBooks DEF Post, houses
  <2>2. m \in Letters /\ M1 = M + Money[m]
    BY <1>1, <1>17, MoneyType, PostLedger DEF M, M1
  <2>3. m.money = money
    BY DraftFields
  <2>4. Money[m] = money /\ money \in Nat
    BY <2>2, <2>3, MoneyType, NamedPrices
  <2> HIDE DEF m
  <2>5. S1 + (money + Postage) = S
    <3>1. money + Postage \in Int
      BY <1>9, <2>4
    <3> QED
      BY <1>8, <2>1, <3>1
  <2> QED
    BY <1>3, <1>4, <1>7, <1>9, <2>1, <2>2, <2>4, <2>5
<1>18. ASSUME NEW p \in Players, NEW m \in DOMAIN mails, TakeItem(p, m)
       PROVE  GoldKept
  <2> DEFINE c == mails[m].cod
  <2>1. /\ gold' = [gold EXCEPT ![p] = @ - c]
        /\ UNCHANGED auctions /\ Booked(0)
    BY <1>1, <1>18, NothingBooked DEF TakeItem, houses
  <2>2. ByMoney(Money)
    BY MoneyType DEF ByMoney
  <2>3. /\ c # 0 => Payment(p, mails[m]) \in Letters
        /\ M1 = M + IF c = 0 THEN 0 ELSE Money[Payment(p, mails[m])]
    BY <1>1, <1>18, <2>2, MoneyType, TakeItemLedger DEF M, M1
  <2>4. Payment(p, mails[m]).money = c /\ c \in Nat
    BY <1>11, DraftFields DEF Payment
  <2>5. c # 0 => Money[Payment(p, mails[m])] = c
    BY <2>3, <2>4, MoneyType
  <2> HIDE DEF c
  <2>6. S1 + c = S
    <3>1. c \in Int
      BY <2>4
    <3> QED
      BY <1>8, <2>1, <3>1, Zenon
  <2>7. M1 = M + c
    BY <1>3, <2>3, <2>4, <2>5
  <2>8. H1 = H
    BY <1>7, <2>1
  <2> QED
    BY <1>3, <1>4, <2>1, <2>4, <2>6, <2>7, <2>8
<1>19. ASSUME NEW p \in Players, NEW m \in DOMAIN mails, TakeMoney(p, m)
       PROVE  GoldKept
  <2> DEFINE n == mails[m].money
  <2> DEFINE left == [mails[m] EXCEPT !.money = 0]
  <2>1. /\ gold' = [gold EXCEPT ![p] = @ + n]
        /\ UNCHANGED auctions /\ Booked(0)
    BY <1>1, <1>19, NothingBooked DEF TakeMoney, houses
  <2>2. left \in Letters /\ M1 + Money[mails[m]] = M + Money[left]
    BY <1>1, <1>19, MoneyType, TakeMoneyLedger DEF M, M1
  <2>3. mails[m] \in Letters /\ n \in Nat /\ left.money = 0
    BY <1>11 DEF Letters, Mail
  <2>4. Money[mails[m]] = n /\ Money[left] = 0
    BY <2>2, <2>3, MoneyType
  <2> HIDE DEF n, left
  <2>5. S1 + (0 - n) = S
    <3>1. gold' = [gold EXCEPT ![p] = @ - (0 - n)]
      <4>1. gold[p] + n = gold[p] - (0 - n)
        BY <1>2, <2>3
      <4> QED
        BY <2>1, <4>1
    <3>2. 0 - n \in Int
      BY <2>3
    <3> HIDE DEF n
    <3> QED
      BY <1>8, <3>1, <3>2
  <2> QED
    BY <1>3, <1>4, <1>7, <2>1, <2>2, <2>3, <2>4, <2>5
<1>20. ASSUME NEW p \in Players, NEW m \in DOMAIN mails, Delete(p, m)
       PROVE  GoldKept
  <2> DEFINE n == mails[m].money
  <2>1. UNCHANGED <<gold, auctions>> /\ Spend(n, 0)
    BY <1>20 DEF Delete, houses
  <2>2. M1 + Money[mails[m]] = M
    BY <1>1, <1>20, MoneyType, DeleteLedger DEF M, M1
  <2>3. Money[mails[m]] = n /\ n \in Nat
    BY <1>11, MoneyType
  <2>4. S1 = S /\ H1 = H /\ Booked(n)
    BY <1>1, <1>5, <1>7, <2>1, <2>3, FeeBooks
  <2> HIDE DEF n
  <2> QED
    BY <1>3, <1>4, <2>2, <2>3, <2>4
<1>21. ASSUME NEW p \in Players, NEW m \in DOMAIN mails, Return(p, m)
       PROVE  GoldKept
  <2> DEFINE n == mails[m].money
  <2> DEFINE r == ReturnDraft(p, mails[m])
  <2>1. UNCHANGED <<gold, auctions>>
    BY <1>21 DEF Return, houses
  <2>2. Money[mails[m]] = n /\ n \in Nat
    BY <1>11, MoneyType
  <2>3. r \in Letters => Money[r] = n
    BY DraftFields, MoneyType DEF ReturnDraft
  <2>4. \/ Spend(n, 0) /\ M1 + Money[mails[m]] = M
        \/ /\ UNCHANGED books /\ r \in Letters
           /\ M1 + Money[mails[m]] = M + Money[r]
    BY <1>1, <1>21, MoneyType, ReturnLedger DEF M, M1
  <2>5. S1 = S /\ H1 = H
    BY <1>5, <1>7, <2>1
  <2> HIDE DEF n, r
  <2>6. \/ Booked(n) /\ M1 + n = M
        \/ Booked(0) /\ M1 + n = M + n
    BY <1>1, <2>2, <2>3, <2>4, FeeBooks, NothingBooked
  <2>7. CASE Booked(n) /\ M1 + n = M
    BY <1>3, <1>4, <2>2, <2>5, <2>7
  <2>8. CASE Booked(0) /\ M1 + n = M + n
    BY <1>3, <1>4, <2>2, <2>5, <2>8
  <2> QED
    BY <2>6, <2>7, <2>8
<1>22. ASSUME UNCHANGED <<gold, mails, auctions, books>> PROVE GoldKept
  <2>1. Booked(0) /\ S1 = S /\ M1 = M /\ H1 = H
    BY <1>1, <1>5, <1>6, <1>7, <1>22, NothingBooked
  <2> QED
    BY <1>3, <1>4, <2>1
<1>23. ASSUME NEW p \in Players, Added(p) \/ Relog(p) PROVE GoldKept
  BY <1>22, <1>23 DEF Added, Relog, houses
<1>24. CASE UNCHANGED vars
  BY <1>22, <1>24 DEF vars, houses
<1>25. ASSUME NEW p \in Players, Request(p) PROVE GoldKept
  BY <1>12, <1>13, <1>14, <1>15, <1>17, <1>18, <1>19, <1>20, <1>21, <1>25
  DEF Request, WorldRequest, MapRequest
<1> QED
  BY <1>16, <1>23, <1>24, <1>25 DEF Next

LEMMA BidderStep ==
  ASSUME Typed, NoBidderNoBid, [Next]_vars
  PROVE  NoBidderNoBid'
<1>1. HouseTypes
  BY DEF Typed
<1>2. ASSUME NEW p \in Players, NEW item \in Items, NEW startbid \in Prices,
             NEW buyout \in Prices \cup {0}, Sell(p, item, startbid, buyout)
      PROVE  NoBidderNoBid'
  <2> DEFINE new == [item |-> item, owner |-> p, startbid |-> startbid,
                     buyout |-> buyout, bidder |-> NoPlayer, bid |-> 0]
  <2>1. auctions' = [a \in DOMAIN auctions \cup {auctionId'} |->
                       IF a = auctionId' THEN new ELSE auctions[a]]
    BY <1>2 DEF Sell
  <2>2. new.bid = 0
    OBVIOUS
  <2> HIDE DEF new
  <2> QED
    BY <2>1, <2>2 DEF NoBidderNoBid
<1>3. ASSUME NEW p \in Players, NEW a \in DOMAIN auctions, NEW price \in Prices,
             Bid(p, a, price)
      PROVE  NoBidderNoBid'
  <2>1. /\ auctions' = [auctions EXCEPT ![a].bidder = p, ![a].bid = price]
        /\ auctions[a] \in Auction /\ p # NoPlayer
    BY <1>1, <1>3, AuctionsAssumption DEF Bid, HouseTypes
  <2>2. /\ DOMAIN auctions' = DOMAIN auctions
        /\ auctions'[a].bidder # NoPlayer
        /\ \A b \in DOMAIN auctions : b # a => auctions'[b] = auctions[b]
    BY <2>1 DEF Auction
  <2> QED
    BY <2>2 DEF NoBidderNoBid
<1>4. ASSUME NEW a, RemoveAuction(a) PROVE NoBidderNoBid'
  BY <1>4 DEF RemoveAuction, Without, NoBidderNoBid
<1>5. ASSUME UNCHANGED auctions PROVE NoBidderNoBid'
  BY <1>5 DEF NoBidderNoBid
<1>6. ASSUME NEW a \in DOMAIN auctions, Expire(a) PROVE NoBidderNoBid'
  BY <1>4, <1>6 DEF Expire
<1>7. ASSUME NEW p, NEW a, NEW price, Buyout(p, a, price)
      PROVE  NoBidderNoBid'
  BY <1>4, <1>7 DEF Buyout
<1>8. ASSUME NEW p \in Players, NEW a \in DOMAIN auctions, Cancel(p, a)
      PROVE  NoBidderNoBid'
  BY <1>4, <1>8 DEF Cancel
<1>9. ASSUME NEW p, NEW q, NEW item, NEW money, NEW cod,
             Post(p, q, item, money, cod)
      PROVE  NoBidderNoBid'
  BY <1>5, <1>9 DEF Post, houses
<1>10. ASSUME NEW p, NEW m, \/ TakeItem(p, m) \/ TakeMoney(p, m)
                            \/ Delete(p, m) \/ Return(p, m)
       PROVE  NoBidderNoBid'
  BY <1>5, <1>10 DEF TakeItem, TakeMoney, Delete, Return, houses
<1>11. ASSUME NEW p, Added(p) \/ Relog(p) PROVE NoBidderNoBid'
  BY <1>5, <1>11 DEF Added, Relog, houses
<1>12. ASSUME NEW p \in Players, Request(p) PROVE NoBidderNoBid'
  BY <1>2, <1>3, <1>7, <1>8, <1>9, <1>10, <1>12 DEF Request, WorldRequest, MapRequest
<1> QED
  BY <1>5, <1>6, <1>11, <1>12 DEF Next, vars, houses

-----------------------------------------------------------------------------
(* Nobody pays for what others do                                          *)

MoneyFor(p) == [m \in Letters |-> IF m.to = p THEN m.money ELSE 0]
BidOf(p) == [a \in Auction |-> IF a.bidder = p THEN a.bid ELSE 0]

LEMMA MoneyForType ==
  ASSUME NEW p
  PROVE  /\ MoneyFor(p) \in [Letters -> Nat] /\ ByMoney(MoneyFor(p))
         /\ \A m \in Letters : MoneyFor(p)[m] = IF m.to = p THEN m.money ELSE 0
<1>1. \A m \in Letters : m.money \in Nat
  BY DEF Letters, Mail
<1> QED
  BY <1>1 DEF MoneyFor, ByMoney

LEMMA BidOfType ==
  ASSUME NEW p
  PROVE  /\ BidOf(p) \in [Auction -> Nat]
         /\ \A a \in Auction : BidOf(p)[a] = IF a.bidder = p THEN a.bid ELSE 0
<1>1. \A a \in Auction : a.bid \in Nat
  BY DEF Auction
<1> QED
  BY <1>1 DEF BidOf

LEMMA MoneyForWeight ==
  ASSUME NEW p, NEW rows, \A m \in DOMAIN rows : rows[m] \in Letters
  PROVE  SumFunction([m \in DOMAIN rows |-> IF rows[m].to = p THEN rows[m].money ELSE 0])
           = Weight(rows, MoneyFor(p))
<1>1. [m \in DOMAIN rows |-> MoneyFor(p)[rows[m]]]
        = [m \in DOMAIN rows |-> IF rows[m].to = p THEN rows[m].money ELSE 0]
  BY MoneyForType
<1> QED
  BY <1>1 DEF Weight

LEMMA BidOfWeight ==
  ASSUME NEW p, NEW house, \A a \in DOMAIN house : house[a] \in Auction
  PROVE  SumFunction([a \in DOMAIN house |-> IF house[a].bidder = p THEN house[a].bid ELSE 0])
           = Weight(house, BidOf(p))
<1>1. [a \in DOMAIN house |-> BidOf(p)[house[a]]]
        = [a \in DOMAIN house |-> IF house[a].bidder = p THEN house[a].bid ELSE 0]
  BY BidOfType
<1> QED
  BY <1>1 DEF Weight

(* What the mails of the auction house hold for p.                         *)
LEMMA MoneyForMails ==
  ASSUME NEW p \in Players, NEW a \in Auction
  PROVE  /\ a.bidder # NoPlayer => MoneyFor(p)[Refund(a)] = BidOf(p)[a]
         /\ \A bid \in Nat : MoneyFor(p)[Proceeds(a, bid)] \in Nat
         /\ \A to \in Players : MoneyFor(p)[Goods(a, to)] \in Nat
<1>1. Refund(a).money = a.bid /\ Refund(a).to = a.bidder
  BY DraftFields DEF Refund
<1> QED
  BY <1>1, LettersOfAuction, MoneyForType, BidOfType

(* The winner's mail.                                                      *)
LEMMA WinnerHasItem ==
  ASSUME Typed, NEW a \in DOMAIN auctions, auctions[a].bidder \in Players, Expire(a)
  PROVE  Won(auctions[a].bidder)
<1> DEFINE A == auctions[a]
<1> DEFINE d == SaleMails(A, A.bidder, A.bid)
<1>1. A \in Auction /\ A.bid \in Nat /\ A.bidder # NoPlayer /\ A.bidder \in Players
  BY AuctionsAssumption DEF Typed, HouseTypes, Auction
<1>2. SendMail(d) /\ auctions' = Without(auctions, a)
  BY <1>1 DEF Expire, RemoveAuction
<1>3. d \in Seq(Letters) /\ Len(d) = 2
  BY <1>1, SaleType
<1>4. d[2] = Goods(A, A.bidder)
  BY DEF SaleMails, Goods
<1>5. RowTypes /\ mailId \in Nat
  BY RowsFinite DEF Typed
<1> HIDE DEF A, d
<1>6. /\ DOMAIN mails' = DOMAIN mails \cup {mailId + k : k \in 1 .. Len(d)}
      /\ \A k \in 1 .. Len(d) : mails'[mailId + k] = d[k]
  BY <1>2, <1>3, <1>5, Sent DEF SendMail, RowTypes
<1>7. 2 \in 1 .. Len(d)
  BY <1>3
<1>8. mailId + 2 \in DOMAIN mails' \ DOMAIN mails
  BY <1>5, <1>6, <1>7 DEF RowTypes
<1>9. mails'[mailId + 2].to = A.bidder /\ mails'[mailId + 2].item = A.item
  <2>1. mails'[mailId + 2] = Goods(A, A.bidder)
    BY <1>4, <1>6, <1>7
  <2> QED
    BY <2>1, DraftFields DEF Goods
<1>10. a \in DOMAIN auctions \ DOMAIN auctions'
  BY <1>2 DEF Without
<1> QED
  BY <1>8, <1>9, <1>10 DEF Won, A

LEMMA WorthStep ==
  ASSUME Typed, Typed', Addressed, [Next]_vars, NEW p \in Players, ~ Request(p), ~ Won(p)
  PROVE  ~ (Worth(p)' < Worth(p))
<1> DEFINE w == MoneyFor(p)
<1> DEFINE v == BidOf(p)
<1> DEFINE G == gold[p]
<1> DEFINE M == Weight(mails, w)
<1> DEFINE H == Weight(auctions, v)
<1> DEFINE G1 == gold'[p]
<1> DEFINE M1 == Weight(mails', w)
<1> DEFINE H1 == Weight(auctions', v)
<1>1. /\ RowTypes /\ HouseTypes /\ PurseTypes
      /\ RowTypes' /\ HouseTypes' /\ PurseTypes'
  BY DEF Typed
<1>2. /\ w \in [Letters -> Nat] /\ ByMoney(w) /\ v \in [Auction -> Nat]
      /\ p # NoPlayer
  BY MoneyForType, BidOfType, AuctionsAssumption
<1>3. /\ \A a \in DOMAIN auctions :
           /\ auctions[a] \in Auction
           /\ auctions[a].bid \in Nat /\ auctions[a].buyout \in Nat
           /\ auctions[a].owner \in Players
           /\ auctions[a].bidder # NoPlayer => auctions[a].bidder \in Players
      /\ \A m \in DOMAIN mails : mails[m] \in Letters
  BY <1>1, NamedPrices DEF HouseTypes, RowTypes, Auction
<1>4. /\ \A a \in DOMAIN auctions' : auctions'[a] \in Auction
      /\ \A m \in DOMAIN mails' : mails'[m] \in Letters
  BY <1>1 DEF HouseTypes, RowTypes
<1>5. Worth(p) = G + M + H /\ Worth(p)' = G1 + M1 + H1
  BY <1>3, <1>4, MoneyForWeight, BidOfWeight DEF Worth
<1>6. G \in Nat /\ G1 \in Nat
  BY <1>1, AuctionsAssumption DEF PurseTypes
<1>7. /\ M \in Nat /\ H \in Nat /\ M1 \in Nat /\ H1 \in Nat
  <2>1. M \in Nat /\ H \in Nat
    BY <1>1, <1>2, <1>3, RowsFinite, HouseFinite, WeightType
  <2>2. /\ DOMAIN mails' \subseteq 1 .. mailId' /\ mailId' \in Nat
        /\ DOMAIN auctions' \subseteq 1 .. auctionId' /\ auctionId' \in Nat
    BY <1>1, AuctionsAssumption DEF RowTypes, HouseTypes
  <2>3. IsFiniteSet(1 .. mailId') /\ IsFiniteSet(1 .. auctionId')
    BY <2>2, FS_Interval
  <2>4. IsFiniteSet(DOMAIN mails') /\ IsFiniteSet(DOMAIN auctions')
    BY <2>2, <2>3, FS_Subset
  <2>5. M1 \in Nat
    BY <1>2, <1>4, <2>4, WeightType
  <2>6. H1 \in Nat
    BY <1>2, <1>4, <2>4, WeightType
  <2> QED
    BY <2>1, <2>5, <2>6
<1>8. ASSUME G1 >= G, M1 + H1 >= M + H
      PROVE  ~ (Worth(p)' < Worth(p))
  BY <1>5, <1>6, <1>7, <1>8
<1>9. ASSUME UNCHANGED gold PROVE G1 >= G
  BY <1>6, <1>9
<1>10. ASSUME NEW q \in Players, q # p, NEW n, gold' = [gold EXCEPT ![q] = n]
       PROVE  G1 >= G
  <2>1. G1 = G
    BY <1>1, <1>10 DEF PurseTypes
  <2> QED
    BY <1>6, <2>1
<1>11. ASSUME UNCHANGED mails PROVE M1 = M
  BY <1>11
<1>12. ASSUME UNCHANGED auctions PROVE H1 = H
  BY <1>12
<1> HIDE DEF G, M, H, G1, M1, H1
<1>13. ASSUME NEW q \in Players, q # p, NEW item \in Items, NEW startbid \in Prices,
              NEW buyout \in Prices \cup {0}, Sell(q, item, startbid, buyout)
       PROVE  ~ (Worth(p)' < Worth(p))
  <2>1. \E n : gold' = [gold EXCEPT ![q] = n]
    BY <1>13 DEF Sell
  <2>2. M1 = M
    BY <1>11, <1>13 DEF Sell
  <2>3. PICK a \in Auction : H1 = H + v[a]
    BY <1>1, <1>2, <1>13, SellLedger DEF H, H1
  <2>4. v[a] \in Nat
    BY <1>2
  <2>5. G1 >= G
    BY <1>10, <1>13, <2>1
  <2> HIDE DEF v
  <2> QED
    BY <1>7, <1>8, <2>2, <2>3, <2>4, <2>5
<1>14. ASSUME NEW q \in Players, q # p, NEW a \in DOMAIN auctions, NEW price \in Prices,
              Bid(q, a, price)
       PROVE  ~ (Worth(p)' < Worth(p))
  <2> DEFINE A == auctions[a]
  <2>1. \E n : gold' = [gold EXCEPT ![q] = n]
    BY <1>14 DEF Bid
  <2>2. M1 = M + IF A.bidder \in {NoPlayer, q} THEN 0 ELSE w[Refund(A)]
    BY <1>1, <1>2, <1>14, BidLedger DEF M, M1
  <2>3. PICK B \in Auction : H1 + v[A] = H + v[B]
    BY <1>1, <1>2, <1>14, BidStakes DEF H, H1
  <2>4. /\ A.bidder # NoPlayer => w[Refund(A)] = v[A]
        /\ v[A] = IF A.bidder = p THEN A.bid ELSE 0
        /\ v[A] \in Nat /\ v[B] \in Nat
    BY <1>2, <1>3, MoneyForMails, BidOfType
  <2>5. G1 >= G
    BY <1>10, <1>14, <2>1
  <2>6. H1 \in Nat
    BY <1>7
  <2> HIDE DEF w, v, A
  <2>7. M1 \in Nat /\ M1 >= M + v[A]
    BY <1>2, <1>7, <1>14, <2>2, <2>4
  <2>8. M1 + H1 >= M + H
    BY <1>7, <2>3, <2>4, <2>6, <2>7
  <2> QED
    BY <1>8, <2>5, <2>6, <2>7, <2>8
<1>15. ASSUME NEW q \in Players, q # p, NEW a \in DOMAIN auctions, NEW price \in Prices,
              Buyout(q, a, price)
       PROVE  ~ (Worth(p)' < Worth(p))
  <2> DEFINE A == auctions[a]
  <2> DEFINE sale == w[Proceeds(auctions[a], auctions[a].buyout)] + w[Goods(auctions[a], q)]
  <2>1. (\E n : gold' = [gold EXCEPT ![q] = n]) /\ RemoveAuction(a)
    BY <1>15 DEF Buyout
  <2>2. M1 = M + (IF A.bidder \in {NoPlayer, q} THEN 0 ELSE w[Refund(A)]) + sale
    BY <1>1, <1>2, <1>15, BuyoutLedger DEF M, M1
  <2>3. H = v[A] + H1
    BY <1>1, <1>2, <2>1, EndLedger DEF H, H1
  <2>4. /\ A.bidder # NoPlayer => w[Refund(A)] = v[A]
        /\ v[A] = IF A.bidder = p THEN A.bid ELSE 0
        /\ v[A] \in Nat
    BY <1>2, <1>3, MoneyForMails, BidOfType
  <2>5. sale \in Nat
    BY <1>3, MoneyForMails
  <2>6. G1 >= G
    BY <1>10, <1>15, <2>1
  <2> HIDE DEF w, v, A, sale
  <2>7. M1 >= M + v[A]
    BY <1>2, <1>7, <1>15, <2>2, <2>4, <2>5
  <2>8. M1 + H1 >= M + H
    BY <1>7, <2>3, <2>4, <2>7
  <2> QED
    BY <1>8, <2>6, <2>8
<1>16. ASSUME NEW q \in Players, q # p, NEW a \in DOMAIN auctions, Cancel(q, a)
       PROVE  ~ (Worth(p)' < Worth(p))
  <2> DEFINE A == auctions[a]
  <2> DEFINE back == w[Goods(auctions[a], q)]
  <2>1. (\E n : gold' = [gold EXCEPT ![q] = n]) /\ RemoveAuction(a)
    BY <1>16 DEF Cancel
  <2>2. M1 = M + (IF A.bidder = NoPlayer THEN 0 ELSE w[Refund(A)]) + back
    BY <1>1, <1>2, <1>16, CancelLedger DEF M, M1
  <2>3. H = v[A] + H1
    BY <1>1, <1>2, <2>1, EndLedger DEF H, H1
  <2>4. /\ A.bidder # NoPlayer => w[Refund(A)] = v[A]
        /\ v[A] = IF A.bidder = p THEN A.bid ELSE 0
        /\ v[A] \in Nat
    BY <1>2, <1>3, MoneyForMails, BidOfType
  <2>5. back \in Nat
    BY <1>3, MoneyForMails
  <2>6. G1 >= G
    BY <1>10, <1>16, <2>1
  <2> HIDE DEF w, v, A, back
  <2>7. M1 >= M + v[A]
    BY <1>2, <1>7, <2>2, <2>4, <2>5
  <2>8. M1 + H1 >= M + H
    BY <1>7, <2>3, <2>4, <2>7
  <2> QED
    BY <1>8, <2>6, <2>8
<1>17. ASSUME NEW a \in DOMAIN auctions, Expire(a)
       PROVE  ~ (Worth(p)' < Worth(p))
  <2> DEFINE A == auctions[a]
  <2> DEFINE mailed == IF auctions[a].bidder = NoPlayer
                       THEN w[Goods(auctions[a], auctions[a].owner)]
                       ELSE w[Proceeds(auctions[a], auctions[a].bid)]
                              + w[Goods(auctions[a], auctions[a].bidder)]
  <2>1. UNCHANGED gold /\ RemoveAuction(a)
    BY <1>17 DEF Expire
  <2>2. M1 = M + mailed
    BY <1>1, <1>2, <1>17, ExpireLedger DEF M, M1
  <2>3. H = v[A] + H1
    BY <1>1, <1>2, <2>1, EndLedger DEF H, H1
  <2>4. v[A] = 0
    <3>1. A.bidder # p
      BY <1>17, WinnerHasItem
    <3> QED
      BY <1>3, <3>1, BidOfType
  <2>5. mailed \in Nat
    BY <1>3, MoneyForMails
  <2>6. G1 >= G
    BY <1>9, <2>1
  <2> HIDE DEF w, v, A, mailed
  <2>7. M1 + H1 >= M + H
    BY <1>7, <2>2, <2>3, <2>4, <2>5
  <2> QED
    BY <1>8, <2>6, <2>7
<1>18. ASSUME NEW q \in Players, q # p, NEW r \in Players,
              NEW item \in Items \cup {NoItem},
              NEW money \in Amounts \cup {0}, NEW cod \in Amounts \cup {0},
              Post(q, r, item, money, cod)
       PROVE  ~ (Worth(p)' < Worth(p))
  <2> DEFINE m == Draft(q, r, money, item, cod)
  <2>1. (\E n : gold' = [gold EXCEPT ![q] = n]) /\ UNCHANGED auctions
    BY <1>18 DEF Post, houses
  <2>2. m \in Letters /\ M1 = M + w[m]
    BY <1>1, <1>2, <1>18, PostLedger DEF M, M1
  <2>3. w[m] \in Nat
    BY <1>2, <2>2
  <2>4. G1 >= G
    BY <1>10, <1>18, <2>1
  <2>5. H1 = H
    BY <1>12, <2>1
  <2> HIDE DEF w, m
  <2>6. M1 + H1 >= M + H
    BY <1>7, <2>2, <2>3, <2>5
  <2> QED
    BY <1>8, <2>4, <2>6
<1>19. ASSUME NEW q \in Players, q # p, NEW m \in DOMAIN mails, TakeItem(q, m)
       PROVE  ~ (Worth(p)' < Worth(p))
  <2> DEFINE paid == IF mails[m].cod = 0 THEN 0 ELSE w[Payment(q, mails[m])]
  <2>1. (\E n : gold' = [gold EXCEPT ![q] = n]) /\ UNCHANGED auctions
    BY <1>19 DEF TakeItem, houses
  <2>2. (mails[m].cod # 0 => Payment(q, mails[m]) \in Letters) /\ M1 = M + paid
    BY <1>1, <1>2, <1>19, TakeItemLedger DEF M, M1
  <2>3. paid \in Nat
    BY <1>2, <2>2
  <2>4. G1 >= G
    BY <1>10, <1>19, <2>1
  <2>5. H1 = H
    BY <1>12, <2>1
  <2> HIDE DEF w, paid
  <2>6. M1 + H1 >= M + H
    BY <1>7, <2>2, <2>3, <2>5
  <2> QED
    BY <1>8, <2>4, <2>6
<1>20. ASSUME NEW m \in DOMAIN mails, mails[m].to # p PROVE w[mails[m]] = 0
  BY <1>3, <1>20, MoneyForType
<1>21. ASSUME NEW q \in Players, q # p, NEW m \in DOMAIN mails, TakeMoney(q, m)
       PROVE  ~ (Worth(p)' < Worth(p))
  <2> DEFINE left == [mails[m] EXCEPT !.money = 0]
  <2>1. /\ \E n : gold' = [gold EXCEPT ![q] = n]
        /\ UNCHANGED auctions /\ mails[m].to # p
    BY <1>21 DEF TakeMoney, Has, Addressed, houses
  <2>2. left \in Letters /\ M1 + w[mails[m]] = M + w[left]
    BY <1>1, <1>2, <1>21, TakeMoneyLedger DEF M, M1
  <2>3. w[mails[m]] = 0 /\ w[left] \in Nat
    BY <1>2, <1>20, <2>1, <2>2
  <2>4. G1 >= G
    BY <1>10, <1>21, <2>1
  <2>5. H1 = H
    BY <1>12, <2>1
  <2> HIDE DEF w, left
  <2>6. M1 + H1 >= M + H
    BY <1>7, <2>2, <2>3, <2>5
  <2> QED
    BY <1>8, <2>4, <2>6
<1>22. ASSUME NEW q \in Players, q # p, NEW m \in DOMAIN mails, Delete(q, m)
       PROVE  ~ (Worth(p)' < Worth(p))
  <2>1. UNCHANGED <<gold, auctions>> /\ mails[m].to # p
    BY <1>22 DEF Delete, Has, Addressed, houses
  <2>2. M1 + w[mails[m]] = M /\ w[mails[m]] = 0
    BY <1>1, <1>2, <1>20, <1>22, <2>1, DeleteLedger DEF M, M1
  <2>3. G1 >= G /\ H1 = H
    BY <1>9, <1>12, <2>1
  <2> HIDE DEF w
  <2>4. M1 + H1 >= M + H
    BY <1>7, <2>2, <2>3
  <2> QED
    BY <1>8, <2>3, <2>4
<1>23. ASSUME NEW q \in Players, q # p, NEW m \in DOMAIN mails, Return(q, m)
       PROVE  ~ (Worth(p)' < Worth(p))
  <2>1. UNCHANGED <<gold, auctions>> /\ mails[m].to # p
    BY <1>23 DEF Return, Has, Addressed, houses
  <2>2. w[mails[m]] = 0
    BY <1>20, <2>1
  <2>3. \/ M1 + w[mails[m]] = M
        \/ /\ ReturnDraft(q, mails[m]) \in Letters
           /\ M1 + w[mails[m]] = M + w[ReturnDraft(q, mails[m])]
    BY <1>1, <1>2, <1>23, ReturnLedger DEF M, M1
  <2>4. ReturnDraft(q, mails[m]) \in Letters => w[ReturnDraft(q, mails[m])] \in Nat
    BY <1>2
  <2>5. G1 >= G /\ H1 = H
    BY <1>9, <1>12, <2>1
  <2> HIDE DEF w
  <2>6. M1 + H1 >= M + H
    BY <1>7, <2>2, <2>3, <2>4, <2>5
  <2> QED
    BY <1>8, <2>5, <2>6
<1>24. ASSUME UNCHANGED <<gold, mails, auctions>> PROVE ~ (Worth(p)' < Worth(p))
  <2>1. G1 >= G /\ M1 = M /\ H1 = H
    BY <1>9, <1>11, <1>12, <1>24
  <2>2. M1 + H1 >= M + H
    BY <1>7, <2>1
  <2> QED
    BY <1>8, <2>1, <2>2
<1>25. ASSUME NEW q \in Players, Added(q) \/ Relog(q) PROVE ~ (Worth(p)' < Worth(p))
  BY <1>24, <1>25 DEF Added, Relog, houses
<1>26. CASE UNCHANGED vars
  BY <1>24, <1>26 DEF vars, houses
<1>27. ASSUME NEW q \in Players, Request(q) PROVE ~ (Worth(p)' < Worth(p))
  <2>1. q # p
    BY <1>27
  <2>2. \/ WorldRequest(q) \/ MapRequest(q)
    BY <1>27 DEF Request
  <2>3. CASE WorldRequest(q)
    BY <1>13, <1>14, <1>15, <1>16, <1>19, <1>23, <2>1, <2>3 DEF WorldRequest
  <2>4. CASE MapRequest(q)
    BY <1>18, <1>21, <1>22, <2>1, <2>4 DEF MapRequest
  <2> QED
    BY <2>2, <2>3, <2>4
<1> QED
  BY <1>17, <1>25, <1>26, <1>27 DEF Next

LEMMA GoldConservedStep ==
  ASSUME Typed, Typed', BidsAreBelow, NoBidderNoBid, [Next]_vars, GoldConserved
  PROVE  GoldConserved'
<1> DEFINE start == Cardinality(Players) * StartGold
<1>1. start \in Nat
  BY AuctionsAssumption, FS_CardinalityType
<1>2. GoldKept /\ spent \in Nat /\ spent' \in Nat /\ forgone \in Nat /\ forgone' \in Nat
  BY GoldStep DEF Typed, PurseTypes
<1>3. Gold + spent <= start /\ start <= Gold + spent + forgone
  BY DEF GoldConserved
<1>4. GoldConserved' <=> Gold' + spent' <= start /\ start <= Gold' + spent' + forgone'
  BY DEF GoldConserved
<1> DEFINE g == Gold
<1> DEFINE h == Gold'
<1>5. /\ g \in Nat /\ h \in Nat
      /\ h + spent' <= g + spent /\ g + spent + forgone <= h + spent' + forgone'
  BY <1>2, Zenon DEF GoldKept
<1>6. /\ g + spent <= start /\ start <= g + spent + forgone
      /\ GoldConserved' <=> h + spent' <= start /\ start <= h + spent' + forgone'
  BY <1>3, <1>4, Zenon
<1> HIDE DEF start, g, h
<1>7. h + spent' <= start /\ start <= h + spent' + forgone'
  BY <1>1, <1>2, <1>5, <1>6, Chain, ZenonT(30)
<1> QED
  BY <1>6, <1>7

LEMMA InitGold == Init => GoldConserved
<1> SUFFICES ASSUME Init PROVE GoldConserved
  OBVIOUS
<1>1. SumFunction(gold) = Cardinality(Players) * StartGold
  <2>1. gold = [p \in Players |-> StartGold]
    BY DEF Init
  <2>2. IsFiniteSet(Players) /\ StartGold \in Nat
    BY AuctionsAssumption
  <2>3. SumFunction([p \in Players |-> StartGold]) = Cardinality(Players) * StartGold
    BY <2>2, SumConstant, Zenon
  <2> QED
    BY <2>1, <2>3
<1>2. DOMAIN mails = {} /\ DOMAIN auctions = {} /\ spent = 0 /\ forgone = 0
  BY DEF Init
<1>3. /\ SumFunction([m \in DOMAIN mails |-> mails[m].money]) = 0
      /\ SumFunction([a \in DOMAIN auctions |-> auctions[a].bid + Deposit]) = 0
  BY <1>2, SumNone
<1>4. Cardinality(Players) * StartGold \in Nat
  BY AuctionsAssumption, FS_CardinalityType
<1> QED
  BY <1>1, <1>2, <1>3, <1>4 DEF GoldConserved, Gold

-----------------------------------------------------------------------------
(* The theorems                                                            *)

IInv ==
  /\ Typed /\ Addressed /\ BidsAreBelow /\ NoBidderNoBid
  /\ ItemInOnePlace /\ GoldConserved

LEMMA InitIInv == Init => IInv
<1> SUFFICES ASSUME Init PROVE IInv
  OBVIOUS
<1>1. RowTypes /\ HouseTypes /\ PurseTypes
  BY AuctionsAssumption DEF Init, RowTypes, HouseTypes, PurseTypes
<1>2. BidsAreBelow /\ Addressed
  BY DEF Init, BidsAreBelow, Addressed
<1>3. \A x : Listed(x) = {} /\ Mailed(x) = {} /\ x \notin aitems
  BY DEF Init, Listed, Mailed
<1>4. ASSUME NEW x \in Items PROVE \A p, q \in Holders(x) : p = q
  <2>1. PICK p \in Players : {q \in Players : x \in inventory[q]} = {p}
    BY DEF Init
  <2> QED
    BY <2>1 DEF Holders
<1>5. NoBidderNoBid
  BY DEF Init, NoBidderNoBid
<1>6. BoxTypes
  <2>1. mailId = 0 /\ 0 \in 0 .. 0 /\ 1 .. 0 = {}
    BY DEF Init
  <2>2. /\ box = [p \in Players |-> {}] /\ mitems = [p \in Players |-> {}]
        /\ adding = [p \in Players |-> 0] /\ torn = FALSE
    BY DEF Init
  <2> QED
    BY <2>1, <2>2 DEF BoxTypes
<1>7. Typed
  BY <1>1, <1>6 DEF Typed
<1> QED
  BY <1>2, <1>3, <1>4, <1>5, <1>7, InitGold DEF IInv, ItemInOnePlace

LEMMA IInvHolds == Spec => []IInv
<1>1. ASSUME IInv, [Next]_vars PROVE IInv'
  <2>1. Typed' /\ Addressed'
    BY <1>1, TypeStep, BoxStep DEF IInv
  <2>2. BidsAreBelow' /\ NoBidderNoBid' /\ ItemInOnePlace'
    BY <1>1, BidsStep, BidderStep, PlaceStep DEF IInv
  <2>3. GoldConserved'
    BY <1>1, <2>1, GoldConservedStep DEF IInv
  <2> QED
    BY <2>1, <2>2, <2>3 DEF IInv
<1>2. IInv /\ [Next]_vars => IInv'
  BY <1>1
<1> QED
  BY <1>2, InitIInv, PTL DEF Spec

(* Every variable keeps its type; in particular a purse stays within       *)
(* MaxMoney and never goes below 0, a sale's mail carries no negative sum  *)
(* although the cut may overflow, and a mailbox and mMitems hold ids and   *)
(* items there are, whatever other threads add to them.                    *)
THEOREM TypeCorrect == Spec => []TypeOK
<1>1. IInv => TypeOK
  BY TypeParts DEF IInv
<1> QED
  BY <1>1, IInvHolds, PTL

(* An item is in one inventory, auction or mail, whatever sequence of      *)
(* sales, bids, cancellations, mails and returns any number of players     *)
(* make, and whichever mails or items miss a mailbox that another thread   *)
(* adds to.                                                                *)
THEOREM ItemsStayInOnePlace == Spec => []ItemInOnePlace
<1>1. IInv => ItemInOnePlace
  BY DEF IInv
<1> QED
  BY <1>1, IInvHolds, PTL

(* All gold there is is in a purse, in a mail, in the house, or was paid   *)
(* as a fee or as the house's percentage: however many players bid,        *)
(* outbid, cancel, mail and return, and whatever runs beside a mail that   *)
(* is being added, none is made, and none is lost; but a cut that          *)
(* overflows may be less than the percentage, and never more.              *)
THEOREM GoldStaysConserved == Spec => []GoldConserved
<1>1. IInv => GoldConserved
  BY DEF IInv
<1> QED
  BY <1>1, IInvHolds, PTL

(* What is a player's (purse, gold in his mails, bids) does not shrink by  *)
(* a step that is not his, unless he wins the item he bid for: not by      *)
(* requests of others, not by the clock, and not by the thread of another  *)
(* player that adds a mail to his mailbox.                                 *)
THEOREM OthersNeverPay == Spec => OthersDoNotPay
<1>1. IInv /\ IInv' /\ [Next]_vars
        => [\A p \in Players : Worth(p)' < Worth(p) => Request(p) \/ Won(p)]_vars
  <2>1. SUFFICES ASSUME IInv, IInv', [Next]_vars, NEW p \in Players,
                        ~ Request(p), ~ Won(p)
                 PROVE  ~ (Worth(p)' < Worth(p))
    OBVIOUS
  <2> QED
    BY <2>1, WorthStep DEF IInv
<1> QED
  BY <1>1, IInvHolds, PTL DEF OthersDoNotPay, Spec
=============================================================================
