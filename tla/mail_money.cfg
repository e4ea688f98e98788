CONSTANTS
    Guid = 1
    Money = 5
    StartGold = 10
    MaxMails = 2
    MaxOps = 6
SPECIFICATION Spec
INVARIANTS
    MailMoneyTakenOnce
CHECK_DEADLOCK FALSE
