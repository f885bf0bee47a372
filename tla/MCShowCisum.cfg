CONSTANTS
  fan = fan
  Accounts = {show, grab, fan, ticket}
  TICKET = ticket
  OPS = show
  BADGESTORE = show
  DidHolders = {}
  Nids = {1}
  Uris = {"u1"}
  MaxSupplies = {3}
  Amounts = {1, 2}
  ConfigAccts = {show}
  NoName = noname
  SHOW = show
  GRAB = grab
  Fans = {fan}
  RoleShow = {show}
  RoleDelShow = {show}
  RoleGiveTicket = {show}
  AllowList = {show}
  ShowIds = {1, 2}
  ShowDates <- MCShowDates
  SaleWindows <- MCSaleWindows
  UsdtPrices = {1}
  Batches <- MCBatches
  MaxBatch = 2
  CountMod = 4
  MaxTime = 2
SPECIFICATION ShowSpec
INVARIANTS ShowTypeOK StockWithinTotal SoldIsIssued StockBacked
PROPERTIES RetiredStaysRetired
CHECK_DEADLOCK FALSE
