CONSTANTS
    Players = {p1, p2, p3}
    Items = {i1}
    NoPlayer = NoPlayer
    NoItem = NoItem
    Prices = {20, 21}
    Amounts = {10}
    StartGold = 50
    MaxMoney = 65
    Deposit = 10
    CutPercent = 5
    Postage = 30
    Word = 105
    MaxAuctions = 2
    MaxMails = 3
SYMMETRY Symmetric
SPECIFICATION Spec
INVARIANTS
    TypeOK
    
    ItemInOnePlace
PROPERTIES
    OthersDoNotPay
CHECK_DEADLOCK FALSE
