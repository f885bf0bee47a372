CONSTANTS
  Accounts = {show, grab, ops, ticket, cisum, oooo, f1}
  TICKET = ticket
  OPS = ops
  BADGESTORE = ops
  DidHolders = {}
  Nids = {1, 2}
  Uris = {"u1", "u2"}
  MaxSupplies = {}
  Amounts = {1}
  ConfigAccts = {}
  NoName = noname
  SHOW = show
  GRAB = grab
  Fans = {f1}
  RoleShow = {ops}
  RoleDelShow = {}
  RoleGiveTicket = {}
  AllowList = {}
  ShowIds = {1}
  ShowDates <- NoDates
  SaleWindows <- Windows
  UsdtPrices = {}
  Batches <- NoBatches
  MaxBatch = 1
  CountMod = 64
  MaxTime = 3
  CISUM = cisum
  BURN = oooo
  Syms = {"CISUM"}
  Prices <- NoPrice
  PayTickets <- PayOne
  RatioBase = 2
  Ratios = {1}
  GrabLimits = {}
  GrabIds = {g1, g2}
  Extras <- NoExtras
  MaxClear = 1
  MaxUpgrade = 1
  MaxRushId = 2
  MaxOrderId = 3
  Posters <- NoPosters
  Rushes <- NoRushes
  OpenGrades <- UpgradeGrades
  Held <- UpgradeHeld
SPECIFICATION FairSpec
PROPERTIES UpgradesClose
CHECK_DEADLOCK FALSE
