CONSTANTS
  Accounts = {ticket, alice}
  TICKET = ticket
  OPS = ticket
  BADGESTORE = ticket
  DidHolders = {alice}
  Nids = {1, 2}
  Uris = {"u1", "u2"}
  MaxSupplies = {2}
  Amounts = {1}
  ConfigAccts = {alice}
  NoName = noname
SPECIFICATION NftSpec
INVARIANTS UriUnique
CHECK_DEADLOCK FALSE
