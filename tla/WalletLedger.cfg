SPECIFICATION FairSettlement
CONSTANTS
    e1 = e1
    e2 = e2
    b1 = b1
    b2 = b2
    m1 = m1
    m2 = m2
    w1 = w1
    w2 = w2
    Scans = {}
    Swipes = {3}
    Recharges = {1, 2}
    Paid <- OneWallet
    ManualRequests = {}
    WalletRequests = {w1}
    Fee = Fee
    Executors = {e1}
    Billers = {b1}
    MaxFaults = 1
INVARIANTS
    AccountsAgree
PROPERTY
    PartsConclude
CHECK_DEADLOCK FALSE
