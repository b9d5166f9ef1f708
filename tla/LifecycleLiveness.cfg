SPECIFICATION FairSpec
CONSTANTS
    o1 = o1
    o2 = o2
    p1 = p1
    p2 = p2
    Orders = {o1}
    Ports = {p1}
    NoOrder = NoOrder
    PortOf <- OnePort
    BalanceOrders = {}
    CheckoutRace = TRUE
    LateSendError = FALSE
    AckWriteErrors = FALSE
    MaxFaults = 2
    LinkBound = 2
PROPERTIES
    StartedIsSettled
    StoppingFreesPort
    RefusedIsRefunded
CHECK_DEADLOCK FALSE
