CONSTANTS
  Accounts = {show, grab, ops, ticket, cisum, oooo, f1}
  TICKET = ticket
  OPS = ops
  BADGESTORE = ops
  DidHolders = {}
  Nids = {1, 2}
  Uris = {"u1", "u2"}
  MaxSupplies = {}
  Amounts = {}
  ConfigAccts = {f1}
  NoName = noname
  SHOW = show
  GRAB = grab
  Fans = {f1}
  RoleShow = {ops}
  RoleDelShow = {}
  RoleGiveTicket = {}
  AllowList = {ops}
  ShowIds = {1}
  ShowDates <- Dates
  SaleWindows <- LateWindow
  UsdtPrices = {1}
  Batches <- NoBatches
  MaxBatch = 1
  CountMod = 64
  MaxTime = 3
  CISUM = cisum
  BURN = oooo
  Syms = {"CISUM"}
  Prices <- OnePrice
  PayTickets <- PayOne
  RatioBase = 2
  Ratios = {1}
  GrabLimits = {1}
  GrabIds = {g1}
  Extras <- NoExtras
  MaxClear = 1
  MaxUpgrade = 1
  MaxRushId = 3
  MaxOrderId = 4
  Posters <- OnePoster
  Rushes <- OneOrTwoRushes
  OpenGrades <- NoGrades
  Held <- NoneHeld
SPECIFICATION Spec
INVARIANTS GrabSolvent
PROPERTIES OpenedAsOrdered
CHECK_DEADLOCK FALSE
