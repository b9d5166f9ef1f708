SPECIFICATION Spec
CONSTANTS
  Stations = {"s1"}
  Templates = {"t1", "t2"}
  Codes = {1, 2}
  PartyChoices <- MCPartyChoices
  Calculations = {"c1", "c2"}
  StationOf <- MCStationOf
  Fee <- MCFee
  Withdrawals = {"w1", "w2"}
  Amounts = {2}
  RatioBase = 10
  FirstRow <- MCFirstRow
  MaxRows = 6
  Orders = {"o1"}
  OrderOf <- MCOrderOf
  Charges = {"o1"}
  Requests = {"q1"}
  Reviewers = {"a1", "a2", "a3"}
  Urls = {"x", "y"}
  Rules = {1, 2}
  Coupons = {"k1", "k2"}
  Users = {"u1"}
  Calls = {"r1", "r2", "o1", "m1"}
  KindOf <- MCKindOf
  UserOf <- MCUserOf
  RequestOf <- MCRequestOf
  GivenBy <- MCGivenBy
  TriggeredBy <- MCTriggeredBy
  Quota <- MCQuota
  Settings <- MCSettings
  Dispatchers = 1
  RefundRequests = {1, 2, 3, 4}
  Recharges = {"q1"}
  RechargeAmount = 4
  Minutes = 1
  MaxClock = 2
  Refs = {"n1", "n2"}
  Reports <- MCReports
  Cents = {1, 2}
  Runs = {"r1"}
  Faults = {"f1"}
  Customers = {"u1", "u2"}
  Staff = {"a1", "a2", "a3"}
  MaxFeedback = 2
  MaxEvents = 5
  Tasks = {"t1", "t2"}
  OwnerOf <- MCOwnerOf
  Admins = {"a1", "a2"}
  Readers = {"a2"}
  Scoped = {"t2"}
  MaxBreaks = 1
  Imports = {"i1", "i2"}
  Units = {"d0", "d1", "d2"}
  Seeded = {"d0"}
  Vendors = {"v1"}
  Sites = {"p1"}
  Lists <- MCLists
  Direct <- MCDirect
  MaxPorts = 2
  MaxAttempts = 2
  MaxLate = 1
INVARIANTS SplitIsFinal ApprovedWithinEarned RefundsAreWatched
  DiffIsDifference CasesAreKept ExpiredLeavesNoFile
  ImportsHold
PROPERTIES IssuedByTwo GrantsWithinLimits SettingsStand
CHECK_DEADLOCK FALSE
