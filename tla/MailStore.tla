----------------------------- MODULE MailStore -----------------------------
(***************************************************************************)
(* How the gold of a mail reaches the database: one character, the mails   *)
(* the auction house sends him, and the asynchronous store.                *)
(*                                                                         *)
(* A mail is written by a transaction of its own without serial id         *)
(* (MailDraft::SendMailTo), what its receiver does with it by transactions *)
(* with his serial id, and his next login reads both with that id too.     *)
(* AsyncStore keeps the order of what has one serial id; SqlDelay          *)
(* implements AsyncStore.                                                  *)
(***************************************************************************)
EXTENDS Integers, Sequences, FiniteSets

CONSTANTS
    Guid,      \* the character, and the serial id of his transactions: not 0
    Money,     \* the gold in each mail, more than 0
    StartGold, \* what he has at first
    MaxMails,  \* bound: mails in one behaviour
    MaxOps     \* bound: operations handed to the database

VARIABLES
    serials, runs, open,  \* the store
    work,     \* what each operation of the store does
    state,    \* "online", "loading" or "offline"
    purse,    \* GetMoney, while he is online
    box,      \* m_mail: the money in each mail, while he is online
    result,   \* what a login has read, until it is delivered; <<>>: nothing
    characters, \* `money` of his row in the table characters
    mail,     \* `money` of each of his rows in the table mail
    mailId,   \* the last id GenerateMailID gave
    taken     \* history: how often the money of each mail was taken

vars == <<serials, runs, open, work, state, purse, box, result, characters, mail, mailId, taken>>

Store == INSTANCE AsyncStore WITH SerialIds <- {Guid}

Mails == 1..MaxMails
NoMail == [m \in {} |-> 0]

Init ==
    /\ Store!Init
    /\ work = <<>>
    /\ state = "online"
    /\ purse = StartGold /\ characters = StartGold
    /\ box = NoMail /\ mail = NoMail
    /\ result = <<>>
    /\ mailId = 0
    /\ taken = [m \in Mails |-> 0]

(* An operation is handed to the database, with a serial id or without. *)
Hand(serial, operation) ==
    /\ Len(work) < MaxOps
    /\ Store!Submit(serial)
    /\ work' = Append(work, operation)

Put(f, m, v) == [x \in DOMAIN f \cup {m} |-> IF x = m THEN v ELSE f[x]]

----------------------------------------------------------------------------
(* MailDraft::SendMailTo: the row by the shared queue, the mail itself to  *)
(* a receiver who is online.                                               *)
SendMailTo ==
    /\ mailId < MaxMails
    /\ mailId' = mailId + 1
    /\ Hand(0, [op |-> "insert", mail |-> mailId + 1])
    /\ box' = IF state = "online" THEN Put(box, mailId + 1, Money) ELSE box
    /\ UNCHANGED <<state, purse, result, characters, mail, taken>>

(* HandleMailTakeMoney: gold and mail are saved together. *)
TakeMoney(m) ==
    /\ state = "online"
    /\ m \in DOMAIN box /\ box[m] > 0
    /\ purse' = purse + box[m]
    /\ box' = [box EXCEPT ![m] = 0]
    /\ taken' = [taken EXCEPT ![m] = @ + 1]
    /\ Hand(Guid, [op |-> "save", money |-> purse', mails |-> {m}])
    /\ UNCHANGED <<state, result, characters, mail, mailId>>

(* LogoutPlayer: the character is saved; no mail has changed since. *)
Logout ==
    /\ state = "online"
    /\ state' = "offline"
    /\ Hand(Guid, [op |-> "save", money |-> purse, mails |-> {}])
    /\ box' = NoMail
    /\ UNCHANGED <<purse, result, characters, mail, mailId, taken>>

(* HandlePlayerLoginOpcode *)
Login ==
    /\ state = "offline"
    /\ state' = "loading"
    /\ Hand(Guid, [op |-> "load"])
    /\ UNCHANGED <<purse, box, result, characters, mail, mailId, taken>>

(* HandlePlayerLogin, with what the queries found. *)
HandlePlayerLogin ==
    /\ result # <<>>
    /\ result' = <<>>
    /\ state' = "online"
    /\ purse' = result[1]
    /\ box' = result[2]
    /\ UNCHANGED <<serials, runs, open, work, characters, mail, mailId, taken>>

----------------------------------------------------------------------------
(* A worker executes the nth operation: an UPDATE changes the rows that    *)
(* are there.                                                              *)
Execute(n) ==
    LET do == work[n] IN
    /\ Store!Run(n)
    /\ \/ /\ do.op = "insert"
          /\ mail' = Put(mail, do.mail, Money)
          /\ UNCHANGED <<characters, result>>
       \/ /\ do.op = "save"
          /\ characters' = do.money
          /\ mail' = [m \in DOMAIN mail |-> IF m \in do.mails THEN 0 ELSE mail[m]]
          /\ UNCHANGED result
       \/ /\ do.op = "load"
          /\ result' = <<characters, mail>>
          /\ UNCHANGED <<characters, mail>>
    /\ UNCHANGED <<work, state, purse, box, mailId, taken>>

Next ==
    \/ SendMailTo \/ Logout \/ Login \/ HandlePlayerLogin
    \/ \E m \in Mails : TakeMoney(m)
    \/ \E n \in DOMAIN work : Execute(n)

Spec == Init /\ [][Next]_vars

----------------------------------------------------------------------------
(* What HandleMailTakeMoney says of its last lines: "save money and mail   *)
(* to prevent cheating", so the gold of a mail is had once.                *)
MailMoneyTakenOnce == \A m \in Mails : taken[m] <= 1
=============================================================================
