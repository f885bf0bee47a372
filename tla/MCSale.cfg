CONSTANTS
  Accounts = {show, grab, ops, ticket, cisum, oooo, f1, f2}
  TICKET = ticket
  OPS = ops
  BADGESTORE = ops
  DidHolders = {}
  Nids = {1}
  Uris = {"u1"}
  MaxSupplies = {}
  Amounts = {1}
  ConfigAccts = {}
  NoName = noname
  SHOW = show
  GRAB = grab
  Fans = {f1, f2}
  RoleShow = {ops}
  RoleDelShow = {ops}
  RoleGiveTicket = {}
  AllowList = {}
  ShowIds = {1}
  ShowDates <- NoDates
  SaleWindows <- Windows
  UsdtPrices = {}
  Batches <- NoBatches
  MaxBatch = 1
  CountMod = 64
  MaxTime = 3
  CISUM = cisum
  BURN = oooo
  Syms = {"CISUM"}
  Prices <- OnePrice
  PayTickets <- NoPay
  RatioBase = 2
  Ratios = {1}
  GrabLimits = {2}
  GrabIds = {g1, g2, g3}
  Extras <- NoExtras
  MaxClear = 1
  MaxUpgrade = 1
  MaxRushId = 2
  MaxOrderId = 4
  Posters <- NoPosters
  Rushes <- NoRushes
  OpenGrades <- SaleGrades
  Held <- SaleHeld
SPECIFICATION Spec
INVARIANTS GrabTypeOK CampaignAccounting NoOrphanRows OneWinPerUser DrawsAreRecorded GrabSolvent
PROPERTIES CustodySpec
SYMMETRY Symmetry
CHECK_DEADLOCK FALSE
