------------------------------ MODULE Auctions ------------------------------
(***************************************************************************)
(* The auction house and the mail that carries its gold and items.         *)
(*                                                                         *)
(* The auction opcodes, MAIL_TAKE_ITEM and MAIL_RETURN run on the world    *)
(* thread, alone.  SEND_MAIL to a receiver who is online, MAIL_TAKE_MONEY  *)
(* and MAIL_DELETE run on the thread that updates the player's map, while  *)
(* others update theirs: a mail is added to the mailbox of its receiver    *)
(* without a lock, and he or another sender may be in it.                  *)
(*                                                                         *)
(* Gold and items change hands through auctions, drafts and mails over a   *)
(* long run of legal requests, and no handler sees more than its own part. *)
(* A mail is its row, with the changes its receiver has still to save; his *)
(* mailbox in memory is what he can reach of it until he logs in again.    *)
(*                                                                         *)
(* There is one auction house, items are tradable and unstacked, and every *)
(* player may be on a map of his own.  The order in which the rows are     *)
(* written is the business of MailStore.                                   *)
(***************************************************************************)
EXTENDS Integers, FiniteSets, Sequences, Functions

CONSTANTS
    Players,     \* characters, each of its own account
    Items,       \* items, by guid
    NoPlayer,    \* guid 0: no bidder; the sender of the auction house's mails
    NoItem,      \* a mail without item
    Prices,      \* bids and buyouts a client may name
    Amounts,     \* money and COD a client may send
    StartGold,   \* what each player has at first
    MaxMoney,    \* GetMaxMoney
    Deposit,     \* GetAuctionDeposit of every item
    CutPercent,  \* cutPercent of the house, at a rate of 1
    Postage,     \* 30 in the code
    Word,        \* uint32 has so many values: 2^32
    MaxAuctions, \* bound: auctions in one behaviour
    MaxMails     \* bound: mails in one behaviour

ASSUME AuctionsAssumption ==
    /\ IsFiniteSet(Players) /\ NoPlayer \notin Players
    /\ NoItem \notin Items
    /\ Prices \subseteq Nat \ {0} /\ Amounts \subseteq Nat \ {0}
    /\ MaxMoney \in Nat /\ StartGold \in 0..MaxMoney
    /\ Deposit \in Nat /\ Postage \in Nat
    /\ CutPercent \in 0..100
    /\ Word \in Nat /\ MaxMoney < Word
    /\ MaxAuctions \in Nat /\ MaxMails \in Nat

VARIABLES
    gold,        \* GetMoney of each player
    inventory,   \* the items each player holds
    auctions,    \* AuctionsMap: the entries by id
    aitems,      \* mAitems of the AuctionHouseMgr
    mails,       \* the mails by id: their rows, as last changed in memory
    auctionId,   \* the last id GenerateAuctionID gave
    mailId,      \* the last id GenerateMailID gave
    box,         \* m_mail of each MasterPlayer: the ids of the mails in it
    mitems,      \* mMitems of each MasterPlayer: the items that came with them
    adding,      \* the mail a player's map thread is adding to its receiver's box, or 0
    torn,        \* a data race went on to what is not modelled
    spent,       \* history: gold that left the game by fees, or with a mail thrown away
    forgone      \* history: the cuts of sales whose product overflowed

houses == <<auctions, aitems, auctionId>>
boxes == <<box, mitems, adding, torn>>
books == <<spent, forgone>>

vars == <<gold, inventory, houses, mails, mailId, boxes, books>>

Auction == [item : Items, owner : Players, startbid : Prices, buyout : Prices \cup {0},
            bidder : Players \cup {NoPlayer}, bid : Nat]

Mail == [to : Players, sender : Players \cup {NoPlayer}, money : Nat,
         item : Items \cup {NoItem}, cod : Nat]

TypeOK ==
    /\ gold \in [Players -> 0..MaxMoney]
    /\ inventory \in [Players -> SUBSET Items]
    /\ aitems \subseteq Items
    /\ auctionId \in 0..MaxAuctions /\ mailId \in 0..MaxMails
    /\ DOMAIN auctions \subseteq 1..auctionId
    /\ \A a \in DOMAIN auctions : auctions[a] \in Auction
    /\ DOMAIN mails \subseteq 1..mailId
    /\ \A m \in DOMAIN mails : mails[m] \in Mail
    /\ box \in [Players -> SUBSET (1..mailId)]
    /\ mitems \in [Players -> SUBSET Items]
    /\ adding \in [Players -> 0..mailId]
    /\ torn \in BOOLEAN
    /\ spent \in Nat /\ forgone \in Nat

(* Every item is somebody's at first. *)
Init ==
    /\ gold = [p \in Players |-> StartGold]
    /\ inventory \in [Players -> SUBSET Items]
    /\ \A i \in Items : \E p \in Players : {q \in Players : i \in inventory[q]} = {p}
    /\ auctions = [a \in {} |-> 0]
    /\ aitems = {}
    /\ mails = [m \in {} |-> 0]
    /\ auctionId = 0 /\ mailId = 0
    /\ box = [p \in Players |-> {}]
    /\ mitems = [p \in Players |-> {}]
    /\ adding = [p \in Players |-> 0]
    /\ torn = FALSE
    /\ spent = 0 /\ forgone = 0

----------------------------------------------------------------------------
(* Helpers.                                                                *)

Without(f, x) == [y \in DOMAIN f \ {x} |-> f[y]]

(* GetAuctionCut: the product is one of uint32, a large bid overflows it. *)
Cut(bid) == ((CutPercent * bid) % Word) \div 100

(* The books: a fee, and the house's percentage of a bid.  What it should  *)
(* have is known, what it gets of an overflowing product is not.           *)
Percentage(bid) == (CutPercent * bid) \div 100

Spend(fee, bid) ==
    IF CutPercent * bid < Word
    THEN spent' = spent + fee + Percentage(bid) /\ UNCHANGED forgone
    ELSE spent' = spent + fee /\ forgone' = forgone + Percentage(bid)

(* GetAuctionOutBid *)
OutBid(bid) == IF (bid \div 100) * 5 = 0 THEN 1 ELSE (bid \div 100) * 5

(* A draft: what SendMailTo is called with. *)
Draft(sender, to, money, item, cod) ==
    [to |-> to, sender |-> sender, money |-> money, item |-> item, cod |-> cod]

(* SendMailTo for each of the drafts, in this order: each takes a new id   *)
(* and writes a row ...                                                    *)
SendTo(rows, drafts) ==
    /\ mailId + Len(drafts) <= MaxMails
    /\ mailId' = mailId + Len(drafts)
    /\ mails' = [m \in DOMAIN rows \cup ((mailId + 1)..mailId') |->
                    IF m > mailId THEN drafts[m - mailId] ELSE rows[m]]

(* ... and, on the world thread, joins the mailbox of its receiver: b and  *)
(* i are box and mitems as the handler leaves them.                        *)
Deliver(b, i, drafts) ==
    LET To(p) == {n \in DOMAIN drafts : drafts[n].to = p} IN
    /\ box' = [p \in Players |-> b[p] \cup {mailId + n : n \in To(p)}]
    /\ mitems' = [p \in Players |-> i[p] \cup (Items \cap {drafts[n].item : n \in To(p)})]
    /\ UNCHANGED <<adding, torn>>

SendMail(drafts) == SendTo(mails, drafts) /\ Deliver(box, mitems, drafts)

(* Mutation: bidder and bid are those of the new bid already.              *)
OutbiddedMailAfterwards(a, bidder, price) ==
    IF a.bidder \in {NoPlayer, bidder} THEN <<>>
    ELSE <<Draft(NoPlayer, bidder, price, NoItem, 0)>>

(* SendAuctionOutbiddedMail, if there is an old bidder and he is another. *)
OutbiddedMail(a, bidder, price) ==
    IF a.bidder \in {NoPlayer, bidder} THEN <<>>
    ELSE <<Draft(NoPlayer, a.bidder, a.bid, NoItem, 0)>>

(* SendAuctionSuccessfulMail and SendAuctionWonMail *)
SaleMails(a, bidder, bid) ==
    <<Draft(NoPlayer, a.owner, bid + Deposit - Cut(bid), NoItem, 0),
      Draft(NoPlayer, bidder, 0, a.item, 0)>>

----------------------------------------------------------------------------
(* The auction house.                                                      *)

(* HandleAuctionSellItem *)
Sell(p, item, startbid, buyout) ==
    /\ auctionId < MaxAuctions
    /\ buyout = 0 \/ startbid <= buyout
    /\ item \notin aitems
    /\ item \in inventory[p]
    /\ gold[p] >= Deposit
    /\ gold' = [gold EXCEPT ![p] = @ - Deposit]
    /\ auctionId' = auctionId + 1
    /\ auctions' = [a \in DOMAIN auctions \cup {auctionId'} |->
                      IF a = auctionId'
                      THEN [item |-> item, owner |-> p, startbid |-> startbid, buyout |-> buyout,
                            bidder |-> NoPlayer, bid |-> 0]
                      ELSE auctions[a]]
    /\ aitems' = aitems \cup {item}
    /\ inventory' = [inventory EXCEPT ![p] = @ \ {item}]
    /\ UNCHANGED <<mails, mailId, boxes, books>>

(* Mutation: the entry of a sold item stays.                               *)
RemoveAuctionOnly(a) ==
    /\ auctions' = Without(auctions, a)
    /\ UNCHANGED aitems

(* RemoveAItem and RemoveAuction *)
RemoveAuction(a) ==
    /\ auctions' = Without(auctions, a)
    /\ aitems' = aitems \ {auctions[a].item}

(* A bid that HandleAuctionPlaceBid lets through. *)
Accepted(a, price) ==
    /\ price >= a.startbid
    /\ price > a.bid
    /\ (price < a.buyout \/ a.buyout = 0) => price >= a.bid + OutBid(a.bid)

(* Mutation: the earlier bid is forgotten.                                 *)
DueInFull(a, p, price) == price

(* What the bidder pays: his own earlier bid counts. *)
Due(a, p, price) == IF a.bidder = p THEN price - a.bid ELSE price

(* HandleAuctionPlaceBid: a bid below the buyout price ...                 *)
Bid(p, a, price) ==
    LET auction == auctions[a] IN
    /\ auction.owner # p
    /\ Accepted(auction, price)
    /\ price <= gold[p]
    /\ price < auction.buyout \/ auction.buyout = 0
    /\ gold' = [gold EXCEPT ![p] = @ - Due(auction, p, price)]
    /\ SendMail(OutbiddedMail(auction, p, price))
    /\ auctions' = [auctions EXCEPT ![a].bidder = p, ![a].bid = price]
    /\ UNCHANGED <<inventory, aitems, auctionId, books>>

(* ... and one that reaches it and ends the auction.                       *)
Buyout(p, a, price) ==
    LET auction == auctions[a]
        paid == auction.buyout
    IN
    /\ auction.owner # p
    /\ Accepted(auction, price)
    /\ price <= gold[p]
    /\ paid # 0 /\ price >= paid
    /\ gold' = [gold EXCEPT ![p] = @ - Due(auction, p, paid)]
    /\ SendMail(OutbiddedMail(auction, p, paid) \o SaleMails(auction, p, paid))
    /\ RemoveAuction(a)
    /\ Spend(0, paid)
    /\ UNCHANGED <<inventory, auctionId>>

(* HandleAuctionRemoveItem: the owner pays the cut that the house loses,   *)
(* and the deposit.                                                        *)
Cancel(p, a) ==
    LET auction == auctions[a]
        cut == IF auction.bidder = NoPlayer THEN 0 ELSE Cut(auction.bid)
        refund == IF auction.bidder = NoPlayer THEN <<>>
                  ELSE <<Draft(NoPlayer, auction.bidder, auction.bid, NoItem, 0)>>
    IN
    /\ auction.owner = p
    /\ auction.item \in aitems
    /\ gold[p] >= cut
    /\ gold' = [gold EXCEPT ![p] = @ - cut]
    /\ SendMail(refund \o <<Draft(NoPlayer, p, 0, auction.item, 0)>>)
    /\ RemoveAuction(a)
    /\ Spend(Deposit, IF auction.bidder = NoPlayer THEN 0 ELSE auction.bid)
    /\ UNCHANGED <<inventory, auctionId>>

(* AuctionHouseObject::Update, once the time of an auction is up. *)
Expire(a) ==
    LET auction == auctions[a] IN
    /\ \/ /\ auction.bidder = NoPlayer
          /\ SendMail(<<Draft(NoPlayer, auction.owner, 0, auction.item, 0)>>)
          /\ Spend(Deposit, 0)
       \/ /\ auction.bidder # NoPlayer
          /\ SendMail(SaleMails(auction, auction.bidder, auction.bid))
          /\ Spend(0, auction.bid)
    /\ RemoveAuction(a)
    /\ UNCHANGED <<gold, inventory, auctionId>>

----------------------------------------------------------------------------
(* The mailbox.                                                            *)

(* Who is adding a mail to the mailbox of q.  Whoever touches it meanwhile *)
(* may read a slot or a bucket that is half written: then the server is    *)
(* undone, and nothing is said of what follows.                            *)
Adders(q) == {r \in Players : adding[r] # 0 /\ mails[adding[r]].to = q}

(* HandleSendMailCallback and SendMailTo up to the row, on p's map thread. *)
(* COD only with an item.  GenerateMailID increments a plain integer: two  *)
(* threads may draw one id, and again nothing is said of what follows.     *)
Post(p, q, item, money, cod) ==
    /\ p # q
    /\ gold[p] >= money + Postage
    /\ item # NoItem => item \in inventory[p]
    /\ item = NoItem => cod = 0
    /\ gold' = [gold EXCEPT ![p] = @ - (money + Postage)]
    /\ inventory' = [inventory EXCEPT ![p] = @ \ {item}]
    /\ SendTo(mails, <<Draft(p, q, money, item, cod)>>)
    /\ adding' = [adding EXCEPT ![p] = mailId']
    /\ torn' \in {FALSE, \E r \in Players : adding[r] # 0}
    /\ Spend(Postage, 0)
    /\ UNCHANGED <<houses, box, mitems>>

(* ... and its end, AddMail and AddMItem on the receiver's MasterPlayer.   *)
(* When another thread is adding to it, one of the two mails may miss the  *)
(* deque, and a rehash by one may lose items from the map of the other.    *)
Added(p) ==
    LET m == adding[p]
        q == mails[m].to
        item == Items \cap {mails[m].item}
        rivals == Adders(q) \ {p}
        race == item # {} /\ \E r \in rivals : mails[adding[r]].item # NoItem
    IN
    /\ m # 0
    /\ \/ box' = [box EXCEPT ![q] = @ \cup {m}]
       \/ rivals # {} /\ UNCHANGED box
    /\ \E found \in SUBSET (mitems[q] \cup item) :
          /\ race \/ found = mitems[q] \cup item
          /\ mitems' = [mitems EXCEPT ![q] = found]
    /\ adding' = [adding EXCEPT ![p] = 0]
    /\ torn' \in {FALSE, rivals # {}}
    /\ UNCHANGED <<gold, inventory, houses, mails, mailId, books>>

(* GetMail: a mail in p's mailbox that he has not deleted. *)
Has(p, m) == m \in box[p] \cap DOMAIN mails

(* SaveMails: what p has deleted leaves his mailbox. *)
Saved(p) == [box EXCEPT ![p] = @ \cap DOMAIN mails]

(* HandleMailTakeItem: the COD goes to the sender by mail.  An item that   *)
(* is not in mMitems cannot be stored.                                     *)
TakeItem(p, m) ==
    LET mail == mails[m]
        taken == [mails EXCEPT ![m].item = NoItem, ![m].cod = 0]
        payment == IF mail.cod = 0 THEN <<>>
                   ELSE <<Draft(p, mail.sender, mail.cod, NoItem, 0)>>
    IN
    /\ Has(p, m)
    /\ mail.item \in mitems[p]
    /\ gold[p] >= mail.cod
    /\ gold' = [gold EXCEPT ![p] = @ - mail.cod]
    /\ inventory' = [inventory EXCEPT ![p] = @ \cup {mail.item}]
    /\ SendTo(taken, payment)
    /\ Deliver(Saved(p), [mitems EXCEPT ![p] = @ \ {mail.item}], payment)
    /\ UNCHANGED <<houses, books>>

(* SaveMails on p's map thread.  Erasing moves the mails in the deque, and *)
(* one that is being added meanwhile may miss it.                          *)
SaveMails(p) ==
    /\ box' = Saved(p)
    /\ \E missing \in SUBSET Adders(p) :
          /\ missing = {} \/ box[p] # Saved(p)[p]
          /\ adding' = [r \in Players |-> IF r \in missing THEN 0 ELSE adding[r]]
    /\ torn' \in {FALSE, Adders(p) # {}}
    /\ UNCHANGED mitems

(* Mutation: neither the refusal nor the cap.                              *)
TakeMoneyUncapped(p, m) ==
    /\ Has(p, m)
    /\ gold' = [gold EXCEPT ![p] = @ + mails[m].money]
    /\ mails' = [mails EXCEPT ![m].money = 0]
    /\ SaveMails(p)
    /\ UNCHANGED <<inventory, houses, mailId, books>>

(* HandleMailTakeMoney: refused if the purse cannot hold it, or else       *)
(* ModifyMoney would cut it off.                                           *)
TakeMoney(p, m) ==
    /\ Has(p, m)
    /\ gold[p] + mails[m].money <= MaxMoney
    /\ gold' = [gold EXCEPT ![p] = @ + mails[m].money]
    /\ mails' = [mails EXCEPT ![m].money = 0]
    /\ SaveMails(p)
    /\ UNCHANGED <<inventory, houses, mailId, books>>

(* HandleMailDelete: the mail goes with all it still holds, though it is   *)
(* only marked until the next SaveMails; one that asks for COD stays.      *)
Delete(p, m) ==
    /\ Has(p, m)
    /\ mails[m].cod = 0
    /\ mails' = Without(mails, m)
    /\ torn' \in {FALSE, Adders(p) # {}}
    /\ Spend(mails[m].money, 0)
    /\ UNCHANGED <<gold, inventory, houses, mailId, box, mitems, adding>>

(* SendReturnToSender: the receiver sends what is left, free of COD.  An   *)
(* item that is not in his mMitems is left behind.                         *)
ReturnDraft(p, mail) ==
    Draft(mail.to, mail.sender, mail.money,
          IF mail.item \in mitems[p] THEN mail.item ELSE NoItem, 0)

(* HandleMailReturnToSender: a mail of the auction house is dropped. *)
Return(p, m) ==
    LET mail == mails[m]
        left == [box EXCEPT ![p] = @ \ {m}]
        Answer(i, drafts) == SendTo(Without(mails, m), drafts) /\ Deliver(left, i, drafts)
    IN
    /\ Has(p, m)
    /\ \/ /\ mail.sender # NoPlayer
          /\ Answer([mitems EXCEPT ![p] = @ \ {mail.item}], <<ReturnDraft(p, mail)>>)
          /\ UNCHANGED books
       \/ /\ mail.sender = NoPlayer
          /\ Answer(mitems, <<>>)
          /\ Spend(mail.money, 0)
    /\ UNCHANGED <<gold, inventory, houses>>

(* A logout, which saves and deletes the MasterPlayer, and the next login: *)
(* LoadMails and LoadMailedItems fill the mailbox from the rows.           *)
Relog(p) ==
    LET mine == {m \in DOMAIN mails : mails[m].to = p} IN
    /\ box' = [box EXCEPT ![p] = mine]
    /\ mitems' = [mitems EXCEPT ![p] = Items \cap {mails[m].item : m \in mine}]
    /\ UNCHANGED <<gold, inventory, houses, mails, mailId, adding, torn, books>>

----------------------------------------------------------------------------
(* World::Update returns from MapManager::Update when every map thread is  *)
(* through; only then does the world thread serve sessions and auctions.   *)
Idle == \A p \in Players : adding[p] = 0

WorldRequest(p) ==
    \/ \E item \in Items, startbid \in Prices, buyout \in Prices \cup {0} :
          Sell(p, item, startbid, buyout)
    \/ \E a \in DOMAIN auctions :
          \/ \E price \in Prices : Bid(p, a, price) \/ Buyout(p, a, price)
          \/ Cancel(p, a)
    \/ \E m \in DOMAIN mails : TakeItem(p, m) \/ Return(p, m)

MapRequest(p) ==
    \/ \E q \in Players, item \in Items \cup {NoItem}, money, cod \in Amounts \cup {0} :
          Post(p, q, item, money, cod)
    \/ \E m \in DOMAIN mails : TakeMoney(p, m) \/ Delete(p, m)

Request(p) == (Idle /\ WorldRequest(p)) \/ (adding[p] = 0 /\ MapRequest(p))

Next ==
    /\ ~torn
    /\ \/ \E p \in Players : Request(p) \/ Added(p) \/ (Idle /\ Relog(p))
       \/ Idle /\ \E a \in DOMAIN auctions : Expire(a)

Spec == Init /\ [][Next]_vars

----------------------------------------------------------------------------
(* What must hold.                                                         *)

(* The gold in purses, in mails, and in the bids and deposits of auctions. *)
Gold ==
    SumFunction(gold)
    + SumFunction([m \in DOMAIN mails |-> mails[m].money])
    + SumFunction([a \in DOMAIN auctions |-> auctions[a].bid + Deposit])

(* No sequence of bids, buyouts, cancellations, sales and mails, whatever  *)
(* runs beside a mail that is being added, makes any gold, or loses any    *)
(* but by fees and the house's percentage.  Of a sale whose product        *)
(* overflows the house loses at most that percentage, and nobody pays more.*)
GoldConserved ==
    LET start == Cardinality(Players) * StartGold IN
    Gold + spent <= start /\ start <= Gold + spent + forgone

Holders(item) == {p \in Players : item \in inventory[p]}
Listed(item) == {a \in DOMAIN auctions : auctions[a].item = item}
Mailed(item) == {m \in DOMAIN mails : mails[m].item = item}

(* An item is in one inventory, in one auction or in one mail, never in    *)
(* two places, even when it missed the mailbox or was sent on from it; and *)
(* the auction manager holds just the items of auctions.                   *)
ItemInOnePlace ==
    \A item \in Items :
        /\ \A p, q \in Holders(item) : p = q
        /\ \A a, b \in Listed(item) : a = b
        /\ \A m, n \in Mailed(item) : m = n
        /\ Holders(item) # {} => Listed(item) = {} /\ Mailed(item) = {}
        /\ Listed(item) # {} => Mailed(item) = {}
        /\ item \in aitems <=> Listed(item) # {}

(* What is a player's: his purse, the gold in his mails, and his bids. *)
Worth(p) ==
    gold[p]
    + SumFunction([m \in DOMAIN mails |-> IF mails[m].to = p THEN mails[m].money ELSE 0])
    + SumFunction([a \in DOMAIN auctions |-> IF auctions[a].bidder = p THEN auctions[a].bid ELSE 0])

Won(p) ==
    \E m \in DOMAIN mails' \ DOMAIN mails :
        mails'[m].to = p /\ \E a \in DOMAIN auctions \ DOMAIN auctions' :
            auctions[a].bidder = p /\ auctions[a].item = mails'[m].item

(* Nobody loses gold by what others do or by the clock, unless he wins the *)
(* item he bid for: who is outbid, or bid on what is cancelled, or had a   *)
(* mail returned, has all of it back in his mails, and a thread that adds  *)
(* to his mailbox takes nothing out of them.                               *)
OthersDoNotPay ==
    [][\A p \in Players : Worth(p)' < Worth(p) => Request(p) \/ Won(p)]_vars
=============================================================================
