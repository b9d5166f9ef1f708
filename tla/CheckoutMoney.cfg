SPECIFICATION MCSpec
CONSTANTS
    s1 = s1
    s2 = s2
    c1 = c1
    c2 = c2
    p1 = p1
    Orders = {s1, s2, c1, c2}
    Ports = {p1}
    NoOrder = NoOrder
    PortOf <- OnePort
    BalanceOrders = {c1, c2}
    CheckoutRace = TRUE
    MaxFaults = 1
    Swipes = {"s"}
    Queries = {"q"}
    Workers = {"w1", "w2"}
    MaxPacks = 2
    Money = 1
    MaxFails = 1
INVARIANTS
    MoneyIsAccounted
    SessionMatchesOrder
    BoardHearsOneAnswer
    DecisionIsTrue
PROPERTY
    CapturedIsSettled
CHECK_DEADLOCK FALSE
