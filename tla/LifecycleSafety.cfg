SPECIFICATION Spec
CONSTANTS
    o1 = o1
    o2 = o2
    p1 = p1
    p2 = p2
    Orders = {o1, o2}
    Ports = {p1}
    NoOrder = NoOrder
    PortOf <- OnePort
    BalanceOrders = {}
    CheckoutRace = TRUE
    LateSendError = TRUE
    AckWriteErrors = TRUE
    MaxFaults = 1
    LinkBound = 2
SYMMETRY OrderSymmetry
INVARIANTS
    PhysicalExclusion
    RefundedNeverEnergised
    ReceiptsAreTrue
    ProcessedIsSettled
    PortOwnership
    ActivePortMatchesOrder
PROPERTY
    ImplementsContract
CHECK_DEADLOCK FALSE
