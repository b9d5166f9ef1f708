SPECIFICATION MCSpec
CONSTANTS
    s1 = s1
    s2 = s2
    c1 = c1
    c2 = c2
    p1 = p1
    Orders = {s1, c1}
    Ports = {p1}
    NoOrder = NoOrder
    PortOf <- OnePort
    BalanceOrders = {c1}
    CheckoutRace = TRUE
    MaxFaults = 1
    Swipes = {"s"}
    Queries = {"q"}
    Workers = {"w1", "w2"}
    MaxPacks = 2
    Money = 1
    MaxFails = 1
INVARIANT
    OnePaidOrderPerPort
CHECK_DEADLOCK FALSE
