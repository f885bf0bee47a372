CONSTANTS
  Accounts = {show, grab, ops, ticket, cisum, oooo, f1, f2}
  TICKET = ticket
  OPS = ops
  BADGESTORE = ops
  DidHolders = {}
  Nids = {1, 2}
  Uris = {"u1", "u2"}
  MaxSupplies = {}
  Amounts = {1}
  ConfigAccts = {}
  NoName = noname
  SHOW = show
  GRAB = grab
  Fans = {f1, f2}
  RoleShow = {ops}
  RoleDelShow = {}
  RoleGiveTicket = {}
  AllowList = {}
  ShowIds = {1}
  ShowDates <- NoDates
  SaleWindows <- Windows
  UsdtPrices = {}
  Batches <- NoBatches
  MaxBatch = 1
  CountMod = 64
  MaxTime = 3
  CISUM = cisum
  BURN = oooo
  Syms = {"CISUM"}
  Prices <- NoPrice
  PayTickets <- PayTwo
  RatioBase = 2
  Ratios = {1}
  GrabLimits = {}
  GrabIds = {g1, g2}
  Extras <- WithExtras
  MaxClear = 1
  MaxUpgrade = 1
  MaxRushId = 2
  MaxOrderId = 4
  Posters <- NoPosters
  Rushes <- NoRushes
  OpenGrades <- UpgradeGrades
  Held <- UpgradeHeld
SPECIFICATION Spec
INVARIANTS CampaignBooks
PROPERTIES CustodySpec StakesComeBack
SYMMETRY Symmetry
CHECK_DEADLOCK FALSE
