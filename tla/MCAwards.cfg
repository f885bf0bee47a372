CONSTANTS
  Accounts = {token, store, badge, fan, shop, pop}
  STORE = store
  BADGE = badge
  Badges = {101, 102}
  BadgeCaps = {2}
  ShowRole = {store}
  Amounts = {1}
  StoreAccts = {store}
  MaxPacks = 100
  NoAcct = noacct
  Symbols = {"unit", "other"}
  Currency = "unit"
  Steps = {10, 30}
  RuleIds = {0, 1}
  Spenders = {fan}
  MaxSpent = 60
  CISUMTOKEN = token
  POH = fan
  POS = fan
  TokenSymbols = {"unit"}
  TokenCaps = {20}
  TokenAmounts = {10, 20}
  TokenAccts = {shop}
  Holders = {fan, shop}
  MaxCloses = 1
  Parties = {sing, pop, miner, fan}
  SING = sing
  Minters = {pop, miner}
  Coins = {"SING"}
  CoinCaps = {2, 3}
  Quantities = {1, 2}
  POP = pop
  SingCoin = "SING"
  SingUnit = 2
  Prices = {1, 3}
  Pays = {5, 15, 25}
  DefaultCap = 6
  RewardCaps = {3, 6}
  PopAccts = {shop}
  MaxMines = 4
  Fan = fan
  Shop = shop
  Miner = miner
  SingCap = 5
  MaxDrift = 2
SPECIFICATION MCSpec
INVARIANTS AwardsTypeOK TokenConserved BadgesFollowSpending RewardBudget SingConserved
CHECK_DEADLOCK FALSE
