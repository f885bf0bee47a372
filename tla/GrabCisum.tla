------------------------------ MODULE GrabCisum ------------------------------
(***************************************************************************)
(* grab.cisum: rush sales, where a user pays a fixed price for one draw    *)
(* that may win a ticket, and rush upgrades, where the stake is a cheaper  *)
(* ticket held in escrow until the upgrade is cleaned up.  The contract    *)
(* works on top of show.cisum, which stocks it with tickets and takes them *)
(* back, and of the NFT ledger, which both are notified by.                *)
(*                                                                         *)
(* An action here is a whole transaction: the transfer that carries the    *)
(* memo, the handler it notifies and the inline transfers that follow.     *)
(***************************************************************************)
EXTENDS ShowCisum

CONSTANTS
  CISUM,         \* the account cisum.token is deployed to
  BURN,          \* "oooo", where used pay tickets go
  Syms,          \* payment token symbols
  Prices,        \* prices, [sym, amount]
  PayTickets,    \* stakes of an upgrade, [nid, amount]
  RatioBase,     \* 10000 in the code
  Ratios,        \* the win_ratio values campaigns are given
  GrabLimits,    \* the max_grabs_per_user values
  GrabIds,       \* grab ids, unique per campaign
  Extras,        \* what else a batch transfer carries: [Nids -> Nat]
  MaxClear,      \* orders, then stats, erased by one delrushsale: 1000
  MaxUpgrade,    \* logs settled by one delupgrade: 100
  MaxRushId,     \* bound on last_rush_sale_id
  MaxOrderId     \* bound on last_order_id

ASSUME GrabAssumption ==
  /\ {CISUM, BURN} \subseteq Accounts
  /\ GRAB \notin {CISUM, BURN} /\ BURN # SHOW
  /\ Prices \subseteq [sym : Syms, amount : Nat \ {0}]
  /\ PayTickets \subseteq [nid : Nids, amount : Nat \ {0}]
  /\ RatioBase \in Nat \ {0}
  /\ Ratios \subseteq 0..RatioBase
  /\ GrabLimits \subseteq Nat \ {0}
  /\ Extras \subseteq [Nids -> Nat]
  /\ MaxClear \in Nat \ {0} /\ MaxUpgrade \in Nat \ {0}
  /\ MaxRushId \in Nat /\ MaxOrderId \in Nat

VARIABLES
  grabConfig,   \* admin, point_contract, ticket_contract and oracles
  lastRushId,   \* last_rush_sale_id: numbers sales and upgrades alike
  lastOrderId,  \* last_order_id: numbers orders and logs alike
  allowTokens,  \* symbol -> the contract payments in it must come from
  sales,        \* rush sale id -> rush sale
  orders,       \* order rows, `scope` being their rush sale
  grabStats,    \* <<rush sale id, account>> -> draws made
  upgrades,     \* rush upgrade id -> rush upgrade
  logs,         \* upgrade log rows, `scope` being their rush upgrade
  everWon,      \* history: <<campaign, account>> of every draw that won
  partly        \* history: campaigns a cleanup call has left half cleared

grabVars == <<grabConfig, lastRushId, lastOrderId, allowTokens, sales, orders,
              grabStats, upgrades, logs, everWon, partly>>
history == <<everWon, partly>>

vars == <<now, nftVars, showVars, grabVars>>

NAsset == [nid : Nids, amount : Nat \ {0}]

RushSale ==
  [show_id : ShowIds, ticket_id : Nids, started_at : Nat, ended_at : Nat,
   price : Prices, max_grabs_per_user : Nat \ {0}, win_ratio : 0..RatioBase,
   total : Nat, available : Nat, grabbed : Nat, total_grabs : Nat]

RushUpgrade ==
  [show_id : ShowIds, ticket_id : Nids, started_at : Nat, ended_at : Nat,
   pay_tickets : NAsset, win_ratio : 0..RatioBase,
   total : Nat, available : Nat, grabbed : Nat, total_grabs : Nat]

Order == [scope : Nat, id : Nat, grab_id : GrabIds, account : Accounts,
          win : BOOLEAN]

UpgradeLog == [scope : Nat, id : Nat, grab_id : GrabIds, account : Accounts,
               from : NAsset, win : BOOLEAN]

GrabTypeOK ==
  /\ grabConfig \in [admin : Accounts \cup {NoName}, point_contract : Accounts,
                     ticket_contract : Accounts, oracles : SUBSET Accounts]
  /\ lastRushId \in Nat /\ lastOrderId \in Nat
  /\ DOMAIN allowTokens \subseteq Syms
  /\ \A sym \in DOMAIN allowTokens : allowTokens[sym] \in Accounts
  /\ DOMAIN sales \subseteq Nat
  /\ \A id \in DOMAIN sales : sales[id] \in RushSale
  /\ orders \subseteq Order
  /\ DOMAIN grabStats \subseteq Nat \X Accounts
  /\ \A key \in DOMAIN grabStats : grabStats[key] \in Nat \ {0}
  /\ DOMAIN upgrades \subseteq Nat
  /\ \A id \in DOMAIN upgrades : upgrades[id] \in RushUpgrade
  /\ logs \subseteq UpgradeLog
  /\ everWon \subseteq Nat \X Accounts
  /\ partly \subseteq Nat

-----------------------------------------------------------------------------
(***************************************************************************)
(* Helpers.                                                                *)
(***************************************************************************)

ManageAuth(signer) == signer \in {GRAB, OPS, grabConfig.admin} \cup RoleShow

ConfigAuth(signer) == signer \in {GRAB, grabConfig.admin}

InScope(rows, id) == {row \in rows : row.scope = id}

\* The first `max` rows in primary key order: one page of a cleanup.
\* Mutant: a page one row short.
ShortPage(rows, max) ==
  {row \in rows : Cardinality({r \in rows : r.id < row.id}) < max - 1}
Page(rows, max) ==
  {row \in rows : Cardinality({r \in rows : r.id < row.id}) < max}

\* The page has emptied the table; mutant: the early return is missing.
DoneAnyway(rows, page) == page \subseteq rows
Done(rows, page) == page = rows

Active(c) == c.started_at <= now /\ now <= c.ended_at

\* The by_userwin index: the account already has a winning row.
\* Mutant: the key of the losing rows.
HasLost(rows, account) == \E row \in rows : row.account = account /\ ~row.win
HasWon(rows, account) == \E row \in rows : row.account = account /\ row.win

\* The by_grabid index.
GrabIdUsed(rows, g) == \E row \in rows : row.grab_id = g

\* The tickets sent are those the campaign gives away; mutant: unchecked.
FitsAny(c, n) == n \in Nids
Fits(c, n) == n = c.ticket_id

\* _process_add_rush_sale and _process_add_rush_upgrade on a campaign.
\* Mutant: the tickets already won are available again.
RestockedAll(c, k) == [c EXCEPT !.total = @ + k, !.available = c.total + k]
Restocked(c, k) == [c EXCEPT !.total = @ + k,
                             !.available = c.total + k - c.grabbed]

\* subgrab on a campaign; mutants: one of the counters is forgotten.
TakenBackTotal(c, k) == [c EXCEPT !.total = @ - k]
TakenBackAvailable(c, k) == [c EXCEPT !.available = @ - k]
TakenBack(c, k) == [c EXCEPT !.total = @ - k, !.available = @ - k]

\* One draw on a campaign; mutants: the operands of the subtraction swapped,
\* a win that is not a draw, the difference taken before the win is counted.
DrawnSwapped(c, win) ==
  IF win THEN [c EXCEPT !.grabbed = @ + 1,
                        !.available = (c.grabbed + 1) - c.total,
                        !.total_grabs = @ + 1]
         ELSE [c EXCEPT !.total_grabs = @ + 1]
DrawnUncounted(c, win) ==
  IF win THEN [c EXCEPT !.grabbed = @ + 1,
                        !.available = c.total - (c.grabbed + 1)]
         ELSE [c EXCEPT !.total_grabs = @ + 1]
DrawnEarly(c, win) ==
  IF win THEN [c EXCEPT !.grabbed = @ + 1, !.available = c.total - c.grabbed,
                        !.total_grabs = @ + 1]
         ELSE [c EXCEPT !.total_grabs = @ + 1]
Drawn(c, win) ==
  IF win THEN [c EXCEPT !.grabbed = @ + 1,
                        !.available = c.total - (c.grabbed + 1),
                        !.total_grabs = @ + 1]
         ELSE [c EXCEPT !.total_grabs = @ + 1]

\* TRANSFER_NFT_OUT is sent to the configured ticket contract.  cfgticket takes
\* any account; one without a contract executes the transfer as a no-op.
PaysTickets == grabConfig.ticket_contract = TICKET

PayOut(to, moved) ==
  IF PaysTickets THEN NftTransfer(GRAB, to, moved) ELSE UNCHANGED nftVars

RecordWin(id, account, win) ==
  everWon' = IF win THEN everWon \cup {<<id, account>>} ELSE everWon

-----------------------------------------------------------------------------
(***************************************************************************)
(* Configuration.                                                          *)
(***************************************************************************)

\* init, signed by grab.cisum: only the admin is set.
SetAdmin(admin) ==
  /\ grabConfig' = [grabConfig EXCEPT !.admin = admin]

CfgPoint(signer, contract) ==
  /\ ConfigAuth(signer)
  /\ grabConfig' = [grabConfig EXCEPT !.point_contract = contract]

CfgTicket(signer, contract) ==
  /\ ConfigAuth(signer)
  /\ grabConfig' = [grabConfig EXCEPT !.ticket_contract = contract]

\* Signed by grab.cisum.
AddOracle(account) ==
  grabConfig' = [grabConfig EXCEPT !.oracles = @ \cup {account}]

DelOracle(account) ==
  grabConfig' = [grabConfig EXCEPT !.oracles = @ \ {account}]

\* A symbol already listed gets the new bank.
AddToken(signer, sym, bank) ==
  /\ ConfigAuth(signer)
  /\ allowTokens' = Put(allowTokens, sym, bank)

DelToken(signer, sym, bank) ==
  /\ ConfigAuth(signer)
  /\ sym \in DOMAIN allowTokens
  /\ allowTokens[sym] = bank
  /\ allowTokens' = Drop(allowTokens, sym)

-----------------------------------------------------------------------------
(***************************************************************************)
(* Rush sales.                                                             *)
(***************************************************************************)

FreshSale(s, n, window, price, limit, ratio) ==
  [show_id |-> s, ticket_id |-> n,
   started_at |-> window[1], ended_at |-> window[2],
   price |-> price, max_grabs_per_user |-> limit, win_ratio |-> ratio,
   total |-> 0, available |-> 0, grabbed |-> 0, total_grabs |-> 0]

CanAddSale(s, n, window, price) ==
  /\ window[1] < window[2]
  /\ <<s, n>> \in DOMAIN tickets
  /\ price.sym \in DOMAIN allowTokens

AddRushSale(signer, s, n, window, price, limit, ratio) ==
  /\ ManageAuth(signer)
  /\ CanAddSale(s, n, window, price)
  /\ lastRushId < MaxRushId
  /\ lastRushId' = lastRushId + 1
  /\ sales' = Put(sales, lastRushId + 1,
                  FreshSale(s, n, window, price, limit, ratio))
  /\ UNCHANGED <<grabConfig, lastOrderId, allowTokens, orders, grabStats,
                 upgrades, logs, history>>

\* An optional argument that is not given keeps the value of the row.
SetRushSale(signer, id, price, limit, ratio, start, end) ==
  /\ ManageAuth(signer)
  /\ id \in DOMAIN sales
  /\ price # sales[id].price => price.sym \in DOMAIN allowTokens
  /\ start < end
  /\ sales' = [sales EXCEPT ![id] =
       [@ EXCEPT !.price = price, !.max_grabs_per_user = limit,
                 !.win_ratio = ratio, !.started_at = start, !.ended_at = end]]
  /\ UNCHANGED <<grabConfig, lastRushId, lastOrderId, allowTokens, orders,
                 grabStats, upgrades, logs, history>>

\* on_transfer_ticket with the memo addrushsale:<id>, from anybody.
OnAddRushSale(id, n, k) ==
  /\ id \in DOMAIN sales
  /\ Fits(sales[id], n)
  /\ sales' = [sales EXCEPT ![id] = Restocked(@, k)]
  /\ UNCHANGED <<grabConfig, lastRushId, lastOrderId, allowTokens, orders,
                 grabStats, upgrades, logs, history>>

\* on_transfer_cisum with the memo grab:<id>:<g>: the draw.  The random number
\* is any value below RATIO_BASE.  The payment stays with the contract; its
\* ledger is cisum.token's and is not modelled here.
Grab(u, id, g, paid) ==
  /\ u # GRAB
  /\ paid.sym \in DOMAIN allowTokens /\ allowTokens[paid.sym] = CISUM
  /\ id \in DOMAIN sales
  /\ Active(sales[id])
  /\ sales[id].available > 0
  /\ paid = sales[id].price
  /\ ~GrabIdUsed(InScope(orders, id), g)
  /\ LET used == IF <<id, u>> \in DOMAIN grabStats
                   THEN grabStats[<<id, u>>] ELSE 0
     IN  /\ used < sales[id].max_grabs_per_user
         /\ grabStats' = Put(grabStats, <<id, u>>, used + 1)
  /\ ~HasWon(InScope(orders, id), u)
  /\ lastOrderId < MaxOrderId
  /\ lastOrderId' = lastOrderId + 1
  /\ \E rnd \in 0..RatioBase - 1 :
       LET win == rnd < sales[id].win_ratio
       IN  /\ orders' = orders \cup
                {[scope |-> id, id |-> lastOrderId + 1, grab_id |-> g,
                  account |-> u, win |-> win]}
           /\ sales' = [sales EXCEPT ![id] = Drawn(@, win)]
           /\ RecordWin(id, u, win)
           /\ IF win THEN PayOut(u, Single(sales[id].ticket_id, 1))
                     ELSE UNCHANGED nftVars
  /\ UNCHANGED <<grabConfig, lastRushId, allowTokens, upgrades, logs, partly>>

\* One call erases a page of orders, then a page of stats, and the sale only
\* when both are empty.  Stats are keyed by account name, an order the model
\* does not fix.
DelRushSale(signer, id, forced) ==
  LET rows  == InScope(orders, id)
      keys  == {key \in DOMAIN grabStats : key[1] = id}
  IN  /\ ManageAuth(signer)
      /\ id \in DOMAIN sales
      /\ forced \/ ~Active(sales[id])
      /\ orders' = orders \ Page(rows, MaxClear)
      /\ IF ~Done(rows, Page(rows, MaxClear))
           THEN partly' = partly \cup {id} /\ UNCHANGED <<grabStats, sales>>
           ELSE \E page \in SUBSET keys :
                  /\ Cardinality(page) =
                       IF Cardinality(keys) > MaxClear THEN MaxClear
                                                       ELSE Cardinality(keys)
                  /\ grabStats' =
                       [key \in DOMAIN grabStats \ page |-> grabStats[key]]
                  /\ IF Done(keys, page)
                       THEN sales' = Drop(sales, id) /\ UNCHANGED partly
                       ELSE partly' = partly \cup {id} /\ UNCHANGED sales
      /\ UNCHANGED <<grabConfig, lastRushId, lastOrderId, allowTokens,
                     upgrades, logs, everWon>>

-----------------------------------------------------------------------------
(***************************************************************************)
(* Rush upgrades.                                                          *)
(***************************************************************************)

FreshUpgrade(s, n, window, pay, ratio) ==
  [show_id |-> s, ticket_id |-> n,
   started_at |-> window[1], ended_at |-> window[2],
   pay_tickets |-> pay, win_ratio |-> ratio,
   total |-> 0, available |-> 0, grabbed |-> 0, total_grabs |-> 0]

CanAddUpgrade(s, n, window, pay) ==
  /\ window[1] < window[2]
  /\ <<s, n>> \in DOMAIN tickets
  /\ pay.nid # n
  /\ <<s, pay.nid>> \in DOMAIN tickets

AddUpgrade(signer, s, n, pay, window, ratio) ==
  /\ ManageAuth(signer)
  /\ CanAddUpgrade(s, n, window, pay)
  /\ lastRushId < MaxRushId
  /\ lastRushId' = lastRushId + 1
  /\ upgrades' = Put(upgrades, lastRushId + 1,
                     FreshUpgrade(s, n, window, pay, ratio))
  /\ UNCHANGED <<grabConfig, lastOrderId, allowTokens, sales, orders,
                 grabStats, logs, history>>

\* Any time, whatever has been staked or is being cleaned up.
SetUpgrade(signer, id, pay, ratio, start, end) ==
  /\ ManageAuth(signer)
  /\ id \in DOMAIN upgrades
  /\ pay # upgrades[id].pay_tickets =>
       /\ pay.nid # upgrades[id].ticket_id
       /\ <<upgrades[id].show_id, pay.nid>> \in DOMAIN tickets
  /\ start < end
  /\ upgrades' = [upgrades EXCEPT ![id] =
       [@ EXCEPT !.pay_tickets = pay, !.win_ratio = ratio,
                 !.started_at = start, !.ended_at = end]]
  /\ UNCHANGED <<grabConfig, lastRushId, lastOrderId, allowTokens, sales,
                 orders, grabStats, logs, history>>

\* on_transfer_ticket with the memo addrushupgrade:<id>, from anybody.
OnAddRushUpgrade(id, n, k) ==
  /\ id \in DOMAIN upgrades
  /\ Fits(upgrades[id], n)
  /\ upgrades' = [upgrades EXCEPT ![id] = Restocked(@, k)]
  /\ UNCHANGED <<grabConfig, lastRushId, lastOrderId, allowTokens, sales,
                 orders, grabStats, logs, history>>

\* on_transfer_ticket with the memo rushupgrade:<id>:<g>: the stake comes in,
\* and on a win the target ticket goes out in the same transaction.
RushUpgradeDraw(u, id, g, extra) ==
  /\ u # GRAB
  /\ id \in DOMAIN upgrades
  /\ Active(upgrades[id])
  /\ upgrades[id].available > 0
  /\ ~GrabIdUsed(InScope(logs, id), g)
  /\ ~HasWon(InScope(logs, id), u)
  /\ lastOrderId < MaxOrderId
  /\ lastOrderId' = lastOrderId + 1
  /\ \E rnd \in 0..RatioBase - 1 :
       LET win   == rnd < upgrades[id].win_ratio
           pay   == upgrades[id].pay_tickets
           stake == [m \in Nids |-> extra[m] + Single(pay.nid, pay.amount)[m]]
           prize == Single(upgrades[id].ticket_id,
                           IF win /\ PaysTickets THEN 1 ELSE 0)
           held  == Move(bal, u, GRAB, stake)
       IN  /\ CanMove(bal, u, GRAB, stake)
           /\ CanMove(held, GRAB, u, prize)
           /\ bal' = Move(held, GRAB, u, prize)
           /\ upgrades' = [upgrades EXCEPT ![id] = Drawn(@, win)]
           /\ logs' = logs \cup
                {[scope |-> id, id |-> lastOrderId + 1, grab_id |-> g,
                  account |-> u, from |-> pay, win |-> win]}
           /\ RecordWin(id, u, win)
  /\ UNCHANGED <<grabConfig, lastRushId, allowTokens, sales, orders,
                 grabStats, partly, nstats, nftConfig>>

\* Where delupgrade sends the stake of a log; mutant: the wrong way round.
SwappedDestination(log) == IF log.win THEN log.account ELSE BURN
Destination(log) == IF log.win THEN BURN ELSE log.account

\* Units of type n staked in a set of logs.
Staked(rows, n) ==
  SumFunction([log \in rows |-> IF log.from.nid = n THEN log.from.amount ELSE 0])

\* The stakes of a page that are really sent; mutant: winners' are not burnt.
PayableLosers(page) == {log \in page : PaysTickets /\ ~log.win}
Payable(page) == IF PaysTickets THEN page ELSE {}

\* Only after the end, whatever `forced` says: one page of stakes is burnt or
\* refunded, and the upgrade goes with the last page.
DelUpgrade(signer, id) ==
  LET rows == InScope(logs, id)
      page == Page(rows, MaxUpgrade)
      paid == Payable(page)
      Due(a, n) == Staked({log \in paid : Destination(log) = a}, n)
  IN  /\ ManageAuth(signer)
      /\ id \in DOMAIN upgrades
      /\ now > upgrades[id].ended_at
      /\ \A log \in paid : SendAllowed(GRAB, Destination(log), log.from.nid)
      /\ \A n \in Nids : Staked(paid, n) <= bal[GRAB][n]
      /\ bal' = [a \in Accounts |-> [n \in Nids |->
                   IF a = GRAB THEN bal[a][n] - Staked(paid, n)
                               ELSE bal[a][n] + Due(a, n)]]
      /\ logs' = logs \ page
      /\ IF Done(rows, page)
           THEN upgrades' = Drop(upgrades, id) /\ UNCHANGED partly
           ELSE partly' = partly \cup {id} /\ UNCHANGED upgrades
      /\ UNCHANGED <<grabConfig, lastRushId, lastOrderId, allowTokens, sales,
                     orders, grabStats, everWon, nstats, nftConfig>>

-----------------------------------------------------------------------------
(***************************************************************************)
(* subgrab: unsold tickets go back to the stock of the show they are for,  *)
(* which must still list the ticket and have room for it.                  *)
(***************************************************************************)

BackToShow(s, n, k) ==
  /\ PayOut(SHOW, Single(n, k))
  /\ IF PaysTickets THEN OnReturnFromGrab(s, n, k) ELSE UNCHANGED showVars

SubRushSale(signer, id, k) ==
  /\ ManageAuth(signer)
  /\ id \in DOMAIN sales
  /\ k <= sales[id].available
  /\ sales' = [sales EXCEPT ![id] = TakenBack(@, k)]
  /\ BackToShow(sales[id].show_id, sales[id].ticket_id, k)
  /\ UNCHANGED <<grabConfig, lastRushId, lastOrderId, allowTokens, orders,
                 grabStats, upgrades, logs, history>>

SubRushUpgrade(signer, id, k) ==
  /\ ManageAuth(signer)
  /\ id \in DOMAIN upgrades
  /\ k <= upgrades[id].available
  /\ upgrades' = [upgrades EXCEPT ![id] = TakenBack(@, k)]
  /\ BackToShow(upgrades[id].show_id, upgrades[id].ticket_id, k)
  /\ UNCHANGED <<grabConfig, lastRushId, lastOrderId, allowTokens, sales,
                 orders, grabStats, logs, history>>

=============================================================================
