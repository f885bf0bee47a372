CONSTANTS
  POS = pos
  Savers = {ann, bob}
  Principal <- Sing
  Music <- MusicCoin
  CisumCoin <- Cisum
  Tokens <- StakeTokens
  PlanIds = {1}
  Confs <- AllConfs
  Rates <- RateTable
  Edge1 = 2
  Edge2 = 4
  UnitOf <- Units
  PctBoost = 10
  YearDays = 2
  Day = 1
  Minis = {2}
  Sums = {2, 4}
  MaxTime = 4
  MaxSaves = 2
  MaxHeld = 6
  POE = poe
  POH = poh
  Users = {host, guest, reg}
  Ghosts = {ghost}
  Codes = {"signin", "invite"}
  PointSums = {0, 1, 2}
  Deposits = {1, 2, 3}
  ClaimLists <- Claims
  DropLists <- Drops
  MaxClaims = 2
  MaxDrops = 2
  DropLimit = 3
  MaxPoints = 6
  Inviters = {host}
  Invitees = {guest}
  NoOne = noone
  Registrars = {reg}
  FundTokens = {"SING", "FLON"}
  Amounts = {1, 2}
  Windows <- TwoWindows
  SingCaps = {3, 4}
  SingRewards = {2}
  SingRoom = 10
  CisumRoom = 8
  Bonus = 2
  Invite = "invite"
  MaxFund = 3
  MaxNow = 2
  BOX = box
  Admins = {admin}
  Nobody = nobody
  Owners = {owner}
  NftContracts = {nft}
  Kinds = {1, 2}
  Batches <- Shipments
  BoxPrices = {2}
  Payments = {3, 4}
  Opens = {0}
  Durations = {0, 1}
  MaxBoxes = {1, 65538}
  MaxPurchase = 2
  Fixes = {0, 2}
  MaxBooths = 2
  MaxNfts = 4
  MaxClock = 1
  RESERVE = reserve
  ReserveAdmins = {rita, rolf}
  NoAdmin = noadmin
  Fees = {0, 1, 3, 4, 5}
  Bps = 4
  SingUnits = 4
  SwapPrices = {3, 5}
  Usdts = {2, 4}
  Stocked = 8
  MaxOrders = 3
SPECIFICATION EarlySpec
INVARIANT AdvanceRedeemAllowed
CHECK_DEADLOCK FALSE
