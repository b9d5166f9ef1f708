SPECIFICATION SettlementSpec
CONSTANTS
    e1 = e1
    e2 = e2
    b1 = b1
    b2 = b2
    m1 = m1
    m2 = m2
    w1 = w1
    w2 = w2
    Scans = {1}
    Swipes = {}
    Recharges = {}
    Paid <- OneScan
    ManualRequests = {m1}
    WalletRequests = {}
    Fee = Fee
    Executors = {e1, e2}
    Billers = {b1, b2}
    MaxFaults = 2
SYMMETRY RefundSymmetry
INVARIANTS
    PaidOutWithinPayment
    BooksFollowChannel
CHECK_DEADLOCK FALSE
