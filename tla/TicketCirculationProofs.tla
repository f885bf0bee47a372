----------------------- MODULE TicketCirculationProofs -----------------------
(***************************************************************************)
(* Proofs about the campaigns of grab.cisum with all four contracts        *)
(* running: for any number of fans, campaigns, shows, types, grab ids and  *)
(* any page size of the cleanups.                                          *)
(***************************************************************************)
EXTENDS TicketCirculation, TicketStockProofs

SaleOK(c) == c \in RushSale /\ c.total = c.available + c.grabbed

UpgradeOK(c) == c \in RushUpgrade /\ c.total = c.available + c.grabbed

Settings ==
  /\ grabConfig \in [admin : Accounts \cup {NoName}, point_contract : Accounts,
                     ticket_contract : Accounts, oracles : SUBSET Accounts]
  /\ DOMAIN allowTokens \subseteq Syms
  /\ \A sym \in DOMAIN allowTokens : allowTokens[sym] \in Accounts

\* One counter numbers sales and upgrades.
Numbering ==
  /\ lastRushId \in Nat /\ lastOrderId \in Nat
  /\ DOMAIN sales \subseteq 0..lastRushId
  /\ DOMAIN upgrades \subseteq 0..lastRushId
  /\ DOMAIN sales \cap DOMAIN upgrades = {}

Balanced ==
  /\ \A id \in DOMAIN sales : SaleOK(sales[id])
  /\ \A id \in DOMAIN upgrades : UpgradeOK(upgrades[id])

\* Every row belongs to a campaign and was numbered by the order counter.
RowsOK ==
  /\ orders \subseteq Order
  /\ \A row \in orders : row.scope \in DOMAIN sales /\ row.id <= lastOrderId
  /\ logs \subseteq UpgradeLog
  /\ \A row \in logs : row.scope \in DOMAIN upgrades /\ row.id <= lastOrderId

StatsOK ==
  \A key \in DOMAIN grabStats :
    /\ key \in Nat \X Accounts /\ key[1] \in DOMAIN sales
    /\ grabStats[key] \in Nat \ {0}

NumberedOnce == \A r1, r2 \in orders \cup logs : r1.id = r2.id => r1 = r2

Distinct(rows) ==
  \A r1, r2 \in rows :
    (r1.scope = r2.scope /\ r1 # r2) =>
      /\ r1.grab_id # r2.grab_id
      /\ (r1.win /\ r2.win) => r1.account # r2.account

HistoryOK == everWon \subseteq Nat \X Accounts /\ partly \subseteq Nat

\* The inductive invariant.  The draws need the numbering (a fresh id) and
\* the accounting (a prize that is there); the deletions need the scopes.
GrabInv ==
  /\ Settings /\ Numbering /\ Balanced /\ RowsOK /\ StatsOK
  /\ NumberedOnce /\ Distinct(orders) /\ Distinct(logs) /\ HistoryOK

-----------------------------------------------------------------------------
(***************************************************************************)
(* What the operations do to one campaign.                                 *)
(***************************************************************************)

\* The arithmetic of the three counters, the same for sales and upgrades.
LEMMA RestockedOK ==
  ASSUME NEW c, NEW k \in Nat
  PROVE  /\ SaleOK(c) => SaleOK(Restocked(c, k))
         /\ UpgradeOK(c) => UpgradeOK(Restocked(c, k))
<1>1. ASSUME SaleOK(c) PROVE SaleOK(Restocked(c, k))
  <2>1. /\ c.total + k \in Nat /\ c.total + k - c.grabbed \in Nat
        /\ c.total + k = c.total + k - c.grabbed + c.grabbed
    BY <1>1 DEF SaleOK, RushSale
  <2>2. c \in RushSale
    BY <1>1 DEF SaleOK
  <2> QED
    BY <2>1, <2>2 DEF SaleOK, RushSale, Restocked
<1>2. ASSUME UpgradeOK(c) PROVE UpgradeOK(Restocked(c, k))
  <2>1. /\ c.total + k \in Nat /\ c.total + k - c.grabbed \in Nat
        /\ c.total + k = c.total + k - c.grabbed + c.grabbed
    BY <1>2 DEF UpgradeOK, RushUpgrade
  <2>2. c \in RushUpgrade
    BY <1>2 DEF UpgradeOK
  <2> QED
    BY <2>1, <2>2 DEF UpgradeOK, RushUpgrade, Restocked
<1> QED
  BY <1>1, <1>2

\* A take-back of tickets that are available keeps the counters.
LEMMA TakenBackOK ==
  ASSUME NEW c, NEW k \in Nat, k <= c.available
  PROVE  /\ SaleOK(c) => SaleOK(TakenBack(c, k))
         /\ UpgradeOK(c) => UpgradeOK(TakenBack(c, k))
<1>1. ASSUME SaleOK(c) PROVE SaleOK(TakenBack(c, k))
  <2>1. /\ c.total - k \in Nat /\ c.available - k \in Nat
        /\ c.total - k = c.available - k + c.grabbed
    BY <1>1 DEF SaleOK, RushSale
  <2>2. c \in RushSale
    BY <1>1 DEF SaleOK
  <2> QED
    BY <2>1, <2>2 DEF SaleOK, RushSale, TakenBack
<1>2. ASSUME UpgradeOK(c) PROVE UpgradeOK(TakenBack(c, k))
  <2>1. /\ c.total - k \in Nat /\ c.available - k \in Nat
        /\ c.total - k = c.available - k + c.grabbed
    BY <1>2 DEF UpgradeOK, RushUpgrade
  <2>2. c \in RushUpgrade
    BY <1>2 DEF UpgradeOK
  <2> QED
    BY <2>1, <2>2 DEF UpgradeOK, RushUpgrade, TakenBack
<1> QED
  BY <1>1, <1>2

\* A draw from a campaign with a prize left keeps the counters.
LEMMA DrawnOK ==
  ASSUME NEW c, NEW win \in BOOLEAN, c.available > 0
  PROVE  /\ SaleOK(c) => SaleOK(Drawn(c, win))
         /\ UpgradeOK(c) => UpgradeOK(Drawn(c, win))
<1>1. ASSUME SaleOK(c) PROVE SaleOK(Drawn(c, win))
  <2>1. /\ c.grabbed + 1 \in Nat /\ c.total_grabs + 1 \in Nat
        /\ c.total - (c.grabbed + 1) \in Nat
        /\ c.total = c.total - (c.grabbed + 1) + (c.grabbed + 1)
    BY <1>1 DEF SaleOK, RushSale
  <2>2. c \in RushSale /\ c.total = c.available + c.grabbed
    BY <1>1 DEF SaleOK
  <2>3. CASE win
    BY <2>1, <2>2, <2>3 DEF SaleOK, RushSale, Drawn
  <2>4. CASE ~win
    BY <2>1, <2>2, <2>4 DEF SaleOK, RushSale, Drawn
  <2> QED
    BY <2>3, <2>4
<1>2. ASSUME UpgradeOK(c) PROVE UpgradeOK(Drawn(c, win))
  <2>1. /\ c.grabbed + 1 \in Nat /\ c.total_grabs + 1 \in Nat
        /\ c.total - (c.grabbed + 1) \in Nat
        /\ c.total = c.total - (c.grabbed + 1) + (c.grabbed + 1)
    BY <1>2 DEF UpgradeOK, RushUpgrade
  <2>2. c \in RushUpgrade /\ c.total = c.available + c.grabbed
    BY <1>2 DEF UpgradeOK
  <2>3. CASE win
    BY <2>1, <2>2, <2>3 DEF UpgradeOK, RushUpgrade, Drawn
  <2>4. CASE ~win
    BY <2>1, <2>2, <2>4 DEF UpgradeOK, RushUpgrade, Drawn
  <2> QED
    BY <2>3, <2>4
<1> QED
  BY <1>1, <1>2

-----------------------------------------------------------------------------
(***************************************************************************)
(* Ways a transaction changes the tables.                                  *)
(***************************************************************************)

\* One campaign is rewritten, no other table changes.
LEMMA SaleRewrite ==
  ASSUME GrabInv, NEW id \in DOMAIN sales, NEW row, SaleOK(row),
         sales' = [sales EXCEPT ![id] = row],
         UNCHANGED <<grabConfig, lastRushId, lastOrderId, allowTokens, orders,
                     grabStats, upgrades, logs, history>>
  PROVE  GrabInv'
<1>1. /\ DOMAIN sales' = DOMAIN sales
      /\ \A x \in DOMAIN sales : SaleOK(sales'[x])
  BY DEF GrabInv, Balanced
<1>2. Balanced'
  BY <1>1 DEF GrabInv, Balanced
<1>3. Numbering' /\ RowsOK' /\ StatsOK'
  <2>1. Numbering'
    BY <1>1 DEF GrabInv, Numbering
  <2>2. RowsOK'
    BY <1>1 DEF GrabInv, RowsOK
  <2>3. StatsOK'
    BY <1>1 DEF GrabInv, StatsOK
  <2> QED
    BY <2>1, <2>2, <2>3
<1>4. Settings' /\ HistoryOK'
  BY DEF GrabInv, Settings, HistoryOK, history
<1>5. NumberedOnce' /\ Distinct(orders)' /\ Distinct(logs)'
  BY DEF GrabInv, NumberedOnce, Distinct
<1> QED
  BY <1>2, <1>3, <1>4, <1>5 DEF GrabInv

\* One upgrade is rewritten, and nothing else of grab.cisum.
LEMMA UpgradeRewrite ==
  ASSUME GrabInv, NEW id \in DOMAIN upgrades, NEW row, UpgradeOK(row),
         upgrades' = [upgrades EXCEPT ![id] = row],
         UNCHANGED <<grabConfig, lastRushId, lastOrderId, allowTokens, sales,
                     orders, grabStats, logs, history>>
  PROVE  GrabInv'
<1>1. /\ DOMAIN upgrades' = DOMAIN upgrades
      /\ \A x \in DOMAIN upgrades : UpgradeOK(upgrades'[x])
  BY DEF GrabInv, Balanced
<1>2. Balanced'
  BY <1>1 DEF GrabInv, Balanced
<1>3. Numbering' /\ RowsOK' /\ StatsOK'
  <2>1. Numbering'
    BY <1>1 DEF GrabInv, Numbering
  <2>2. RowsOK'
    BY <1>1 DEF GrabInv, RowsOK
  <2>3. StatsOK'
    BY <1>1 DEF GrabInv, StatsOK
  <2> QED
    BY <2>1, <2>2, <2>3
<1>4. Settings' /\ HistoryOK'
  BY DEF GrabInv, Settings, HistoryOK, history
<1>5. NumberedOnce' /\ Distinct(orders)' /\ Distinct(logs)'
  BY DEF GrabInv, NumberedOnce, Distinct
<1> QED
  BY <1>2, <1>3, <1>4, <1>5 DEF GrabInv

\* New campaigns under ids the counter has not given out yet.
LEMMA NewCampaigns ==
  ASSUME GrabInv, lastRushId' \in Nat, lastRushId <= lastRushId',
         DOMAIN sales \subseteq DOMAIN sales',
         \A x \in DOMAIN sales : sales'[x] = sales[x],
         \A x \in DOMAIN sales' \ DOMAIN sales :
           x \in lastRushId + 1 .. lastRushId' /\ SaleOK(sales'[x]),
         DOMAIN upgrades \subseteq DOMAIN upgrades',
         \A x \in DOMAIN upgrades : upgrades'[x] = upgrades[x],
         \A x \in DOMAIN upgrades' \ DOMAIN upgrades :
           /\ x \in lastRushId + 1 .. lastRushId'
           /\ x \notin DOMAIN sales' \ DOMAIN sales
           /\ UpgradeOK(upgrades'[x]),
         UNCHANGED <<grabConfig, lastOrderId, allowTokens, orders, grabStats,
                     logs, history>>
  PROVE  GrabInv'
<1>1. Numbering'
  BY DEF GrabInv, Numbering
<1>2. Balanced'
  BY DEF GrabInv, Balanced
<1>3. RowsOK'
  <2>1. /\ orders' = orders /\ logs' = logs /\ lastOrderId' = lastOrderId
        /\ DOMAIN sales \subseteq DOMAIN sales'
        /\ DOMAIN upgrades \subseteq DOMAIN upgrades'
    OBVIOUS
  <2> QED
    BY <2>1 DEF GrabInv, RowsOK
<1>4. StatsOK'
  BY DEF GrabInv, StatsOK
<1>5. Settings' /\ HistoryOK'
  BY DEF GrabInv, Settings, HistoryOK, history
<1>6. NumberedOnce' /\ Distinct(orders)' /\ Distinct(logs)'
  BY DEF GrabInv, NumberedOnce, Distinct
<1> QED
  BY <1>1, <1>2, <1>3, <1>4, <1>5, <1>6 DEF GrabInv

\* One more row, with a fresh number, a fresh grab id and no second win, in
\* a table whose rows are distinct.
LEMMA DistinctRow ==
  ASSUME NEW rows, Distinct(rows), NEW row, row.win \in BOOLEAN,
         ~GrabIdUsed(InScope(rows, row.scope), row.grab_id),
         ~HasWon(InScope(rows, row.scope), row.account)
  PROVE  Distinct(rows \cup {row})
BY DEF Distinct, GrabIdUsed, HasWon, InScope

\* Rows and stats disappear while their campaign stays, or all of them with
\* it.
LEMMA RowsGone ==
  ASSUME GrabInv,
         orders' \subseteq orders, logs' \subseteq logs,
         DOMAIN grabStats' \subseteq DOMAIN grabStats,
         \A key \in DOMAIN grabStats' : grabStats'[key] = grabStats[key],
         DOMAIN sales' \subseteq DOMAIN sales,
         \A id \in DOMAIN sales' : sales'[id] = sales[id],
         DOMAIN upgrades' \subseteq DOMAIN upgrades,
         \A id \in DOMAIN upgrades' : upgrades'[id] = upgrades[id],
         \A row \in orders' : row.scope \in DOMAIN sales',
         \A key \in DOMAIN grabStats' : key[1] \in DOMAIN sales',
         \A row \in logs' : row.scope \in DOMAIN upgrades',
         partly' \subseteq Nat,
         UNCHANGED <<grabConfig, lastRushId, lastOrderId, allowTokens, everWon>>
  PROVE  GrabInv'
<1>1. Numbering' /\ Balanced'
  BY DEF GrabInv, Numbering, Balanced
<1>2. RowsOK'
  BY DEF GrabInv, RowsOK
<1>3. StatsOK'
  BY DEF GrabInv, StatsOK
<1>4. Settings' /\ HistoryOK'
  BY DEF GrabInv, Settings, HistoryOK
<1>5. NumberedOnce' /\ Distinct(orders)' /\ Distinct(logs)'
  BY DEF GrabInv, NumberedOnce, Distinct
<1> QED
  BY <1>1, <1>2, <1>3, <1>4, <1>5 DEF GrabInv

\* Nothing of grab.cisum but its settings changes.
LEMMA GrabQuiet ==
  ASSUME GrabInv, Settings',
         UNCHANGED <<lastRushId, lastOrderId, sales, orders, grabStats,
                     upgrades, logs, history>>
  PROVE  GrabInv'
BY DEF GrabInv, Numbering, Balanced, RowsOK, StatsOK, NumberedOnce, Distinct,
       HistoryOK, history

-----------------------------------------------------------------------------
(***************************************************************************)
(* Campaigns opened, changed and stocked.                                  *)
(***************************************************************************)

\* A campaign starts empty, and is filled by its first restock.
LEMMA FreshOK ==
  ASSUME NEW s \in ShowIds, NEW n \in Nids, NEW w \in SaleWindows,
         NEW ratio \in Ratios
  PROVE  /\ \A price \in Prices, limit \in GrabLimits :
              SaleOK(FreshSale(s, n, w, price, limit, ratio))
         /\ \A pay \in PayTickets :
              UpgradeOK(FreshUpgrade(s, n, w, pay, ratio))
<1>1. /\ w[1] \in Nat /\ w[2] \in Nat
      /\ ratio \in 0..RatioBase
  BY ShowAssumption, GrabAssumption DEF ShowAssumption, GrabAssumption
<1>2. GrabLimits \subseteq Nat \ {0} /\ PayTickets \subseteq NAsset
  BY GrabAssumption DEF GrabAssumption, NAsset
<1> QED
  BY <1>1, <1>2
     DEF SaleOK, RushSale, FreshSale, UpgradeOK, RushUpgrade, FreshUpgrade

\* Opening and changing campaigns.
LEMMA CampaignsStep ==
  ASSUME GrabInv, Campaigns
  PROVE  GrabInv'
<1>1. PICK sig \in Accounts :
        \/ \E s \in ShowIds, n \in Nids, w \in SaleWindows, ratio \in Ratios :
             \/ \E price \in Prices, limit \in GrabLimits :
                  AddRushSale(sig, s, n, w, price, limit, ratio)
             \/ \E pay \in PayTickets : AddUpgrade(sig, s, n, pay, w, ratio)
        \/ \E id \in DOMAIN sales, w \in SaleWindows, price \in Prices,
              limit \in GrabLimits, ratio \in Ratios :
             SetRushSale(sig, id, price, limit, ratio, w[1], w[2])
        \/ \E id \in DOMAIN upgrades, w \in SaleWindows, pay \in PayTickets,
              ratio \in Ratios :
             SetUpgrade(sig, id, pay, ratio, w[1], w[2])
  BY DEF Campaigns
<1>2. lastRushId \in Nat
  BY DEF GrabInv, Numbering
<1>3. ASSUME NEW s \in ShowIds, NEW n \in Nids, NEW w \in SaleWindows,
             NEW ratio \in Ratios, NEW price \in Prices,
             NEW limit \in GrabLimits,
             AddRushSale(sig, s, n, w, price, limit, ratio)
      PROVE  GrabInv'
  <2>1. /\ lastRushId' = lastRushId + 1
        /\ sales' = Put(sales, lastRushId + 1,
                        FreshSale(s, n, w, price, limit, ratio))
        /\ UNCHANGED <<grabConfig, lastOrderId, allowTokens, orders,
                       grabStats, upgrades, logs, history>>
    BY <1>3 DEF AddRushSale
  <2>2. SaleOK(FreshSale(s, n, w, price, limit, ratio))
    BY FreshOK
  <2>3. lastRushId + 1 \notin DOMAIN sales
    BY DEF GrabInv, Numbering
  <2>4. /\ DOMAIN sales' = DOMAIN sales \cup {lastRushId + 1}
        /\ sales'[lastRushId + 1] = FreshSale(s, n, w, price, limit, ratio)
        /\ \A x \in DOMAIN sales : sales'[x] = sales[x]
    BY <2>1, <2>3 DEF Put
  <2>5. \A x \in DOMAIN sales' \ DOMAIN sales :
          x \in lastRushId + 1 .. lastRushId' /\ SaleOK(sales'[x])
    BY <1>2, <2>1, <2>2, <2>4
  <2>6. /\ DOMAIN upgrades' = DOMAIN upgrades
        /\ \A x \in DOMAIN upgrades : upgrades'[x] = upgrades[x]
        /\ lastRushId' \in Nat /\ lastRushId <= lastRushId'
    BY <1>2, <2>1
  <2> QED
    BY <2>1, <2>4, <2>5, <2>6, NewCampaigns
<1>4. ASSUME NEW s \in ShowIds, NEW n \in Nids, NEW w \in SaleWindows,
             NEW ratio \in Ratios, NEW pay \in PayTickets,
             AddUpgrade(sig, s, n, pay, w, ratio)
      PROVE  GrabInv'
  <2>1. /\ lastRushId' = lastRushId + 1
        /\ upgrades' = Put(upgrades, lastRushId + 1,
                           FreshUpgrade(s, n, w, pay, ratio))
        /\ UNCHANGED <<grabConfig, lastOrderId, allowTokens, sales, orders,
                       grabStats, logs, history>>
    BY <1>4 DEF AddUpgrade
  <2>2. UpgradeOK(FreshUpgrade(s, n, w, pay, ratio))
    BY FreshOK
  <2>3. lastRushId + 1 \notin DOMAIN upgrades
    BY DEF GrabInv, Numbering
  <2>4. /\ DOMAIN upgrades' = DOMAIN upgrades \cup {lastRushId + 1}
        /\ upgrades'[lastRushId + 1] = FreshUpgrade(s, n, w, pay, ratio)
        /\ \A x \in DOMAIN upgrades : upgrades'[x] = upgrades[x]
    BY <2>1, <2>3 DEF Put
  <2>5. \A x \in DOMAIN upgrades' \ DOMAIN upgrades :
          x \in lastRushId + 1 .. lastRushId' /\ UpgradeOK(upgrades'[x])
    BY <1>2, <2>1, <2>2, <2>4
  <2>6. /\ DOMAIN sales' = DOMAIN sales
        /\ \A x \in DOMAIN sales : sales'[x] = sales[x]
        /\ lastRushId' \in Nat /\ lastRushId <= lastRushId'
    BY <1>2, <2>1
  <2> QED
    BY <2>1, <2>4, <2>5, <2>6, NewCampaigns
<1>5. ASSUME NEW id \in DOMAIN sales, NEW w \in SaleWindows,
             NEW price \in Prices, NEW limit \in GrabLimits,
             NEW ratio \in Ratios,
             SetRushSale(sig, id, price, limit, ratio, w[1], w[2])
      PROVE  GrabInv'
  <2> DEFINE row == [sales[id] EXCEPT !.price = price,
                       !.max_grabs_per_user = limit, !.win_ratio = ratio,
                       !.started_at = w[1], !.ended_at = w[2]]
  <2>1. SaleOK(sales[id])
    BY DEF GrabInv, Balanced
  <2>2. /\ w[1] \in Nat /\ w[2] \in Nat /\ ratio \in 0..RatioBase
        /\ limit \in Nat \ {0}
    BY ShowAssumption, GrabAssumption DEF ShowAssumption, GrabAssumption
  <2>3. SaleOK(row)
    BY <2>1, <2>2 DEF SaleOK, RushSale
  <2>4. /\ sales' = [sales EXCEPT ![id] = row]
        /\ UNCHANGED <<grabConfig, lastRushId, lastOrderId, allowTokens,
                       orders, grabStats, upgrades, logs, history>>
    BY <1>5 DEF SetRushSale
  <2> HIDE DEF row
  <2> QED
    BY <2>3, <2>4, SaleRewrite
<1>6. ASSUME NEW id \in DOMAIN upgrades, NEW w \in SaleWindows,
             NEW pay \in PayTickets, NEW ratio \in Ratios,
             SetUpgrade(sig, id, pay, ratio, w[1], w[2])
      PROVE  GrabInv'
  <2> DEFINE row == [upgrades[id] EXCEPT !.pay_tickets = pay,
                       !.win_ratio = ratio,
                       !.started_at = w[1], !.ended_at = w[2]]
  <2>1. UpgradeOK(upgrades[id])
    BY DEF GrabInv, Balanced
  <2>2. /\ w[1] \in Nat /\ w[2] \in Nat /\ ratio \in 0..RatioBase
        /\ pay \in NAsset
    BY ShowAssumption, GrabAssumption
       DEF ShowAssumption, GrabAssumption, NAsset
  <2>3. UpgradeOK(row)
    BY <2>1, <2>2 DEF UpgradeOK, RushUpgrade
  <2>4. /\ upgrades' = [upgrades EXCEPT ![id] = row]
        /\ UNCHANGED <<grabConfig, lastRushId, lastOrderId, allowTokens,
                       sales, orders, grabStats, logs, history>>
    BY <1>6 DEF SetUpgrade
  <2> HIDE DEF row
  <2> QED
    BY <2>3, <2>4, UpgradeRewrite
<1> QED
  BY <1>1, <1>3, <1>4, <1>5, <1>6

\* The handlers of stocked tickets.
LEMMA RestockStep ==
  ASSUME GrabInv, Restock
  PROVE  GrabInv'
<1>1. PICK id \in DOMAIN sales \cup DOMAIN upgrades, n \in Nids, k \in Amounts :
        OnAddRushSale(id, n, k) \/ OnAddRushUpgrade(id, n, k)
  BY DEF Restock
<1>2. k \in Nat
  BY NftAssumption DEF NftAssumption
<1>3. CASE OnAddRushSale(id, n, k)
  <2>1. SaleOK(Restocked(sales[id], k))
    BY <1>2, <1>3, RestockedOK DEF OnAddRushSale, GrabInv, Balanced
  <2> QED
    BY <1>3, <2>1, SaleRewrite DEF OnAddRushSale
<1>4. CASE OnAddRushUpgrade(id, n, k)
  <2>1. UpgradeOK(Restocked(upgrades[id], k))
    BY <1>2, <1>4, RestockedOK DEF OnAddRushUpgrade, GrabInv, Balanced
  <2> QED
    BY <1>4, <2>1, UpgradeRewrite DEF OnAddRushUpgrade
<1> QED
  BY <1>1, <1>3, <1>4

\* subgrab.
LEMMA TakeBackStep ==
  ASSUME GrabInv, TakeBack
  PROVE  GrabInv'
<1>1. PICK sig \in Accounts, k \in Amounts :
        \/ \E id \in DOMAIN sales : SubRushSale(sig, id, k)
        \/ \E id \in DOMAIN upgrades : SubRushUpgrade(sig, id, k)
  BY DEF TakeBack
<1>2. k \in Nat
  BY NftAssumption DEF NftAssumption
<1>3. ASSUME NEW id \in DOMAIN sales, SubRushSale(sig, id, k)
      PROVE  GrabInv'
  <2>1. SaleOK(TakenBack(sales[id], k))
    BY <1>2, <1>3, TakenBackOK DEF SubRushSale, GrabInv, Balanced
  <2> QED
    BY <1>3, <2>1, SaleRewrite DEF SubRushSale
<1>4. ASSUME NEW id \in DOMAIN upgrades, SubRushUpgrade(sig, id, k)
      PROVE  GrabInv'
  <2>1. UpgradeOK(TakenBack(upgrades[id], k))
    BY <1>2, <1>4, TakenBackOK DEF SubRushUpgrade, GrabInv, Balanced
  <2> QED
    BY <1>4, <2>1, UpgradeRewrite DEF SubRushUpgrade
<1> QED
  BY <1>1, <1>3, <1>4

-----------------------------------------------------------------------------
(***************************************************************************)
(* Draws.                                                                  *)
(***************************************************************************)

\* A draw in a sale: its order gets the next number, no prize is promised
\* that is not available, and no user wins next to a win that is still there.
LEMMA GrabStep ==
  ASSUME GrabInv, NEW u \in Accounts, NEW g \in GrabIds, NEW id, NEW paid,
         Grab(u, id, g, paid)
  PROVE  GrabInv'
<1>1. /\ id \in DOMAIN sales /\ sales[id].available > 0
      /\ ~GrabIdUsed(InScope(orders, id), g)
      /\ ~HasWon(InScope(orders, id), u)
      /\ lastOrderId' = lastOrderId + 1
      /\ UNCHANGED <<grabConfig, lastRushId, allowTokens, upgrades, logs, partly>>
  BY DEF Grab
<1>2. PICK rnd \in 0..RatioBase - 1 :
        LET win == rnd < sales[id].win_ratio
        IN  /\ orders' = orders \cup
                 {[scope |-> id, id |-> lastOrderId + 1, grab_id |-> g,
                   account |-> u, win |-> win]}
            /\ sales' = [sales EXCEPT ![id] = Drawn(@, win)]
            /\ RecordWin(id, u, win)
  BY DEF Grab
<1> DEFINE win == rnd < sales[id].win_ratio
           row == [scope |-> id, id |-> lastOrderId + 1, grab_id |-> g,
                   account |-> u, win |-> win]
           used == IF <<id, u>> \in DOMAIN grabStats
                     THEN grabStats[<<id, u>>] ELSE 0
<1>3. /\ win \in BOOLEAN
      /\ orders' = orders \cup {row}
      /\ sales' = [sales EXCEPT ![id] = Drawn(sales[id], win)]
      /\ RecordWin(id, u, win)
  BY <1>2
<1>4. grabStats' = Put(grabStats, <<id, u>>, used + 1)
  BY DEF Grab
<1>5. /\ id \in Nat /\ lastOrderId \in Nat /\ lastOrderId + 1 \in Nat
      /\ SaleOK(sales[id])
  BY <1>1 DEF GrabInv, Numbering, Balanced
<1>6. /\ row \in Order /\ row.scope = id /\ row.id = lastOrderId + 1
      /\ row.grab_id = g /\ row.account = u /\ row.win = win
  BY <1>3, <1>5 DEF Order
<1>7. Numbering'
  BY <1>1, <1>3, <1>5 DEF GrabInv, Numbering
<1>8. Balanced'
  <2>1. SaleOK(Drawn(sales[id], win))
    BY <1>1, <1>3, <1>5, DrawnOK
  <2> HIDE DEF win
  <2> QED
    BY <1>1, <1>3, <2>1 DEF GrabInv, Balanced
<1>9. StatsOK'
  <2>1. used \in Nat
    BY DEF GrabInv, StatsOK
  <2>2. DOMAIN sales' = DOMAIN sales
    BY <1>3
  <2>3. /\ DOMAIN grabStats' = DOMAIN grabStats \cup {<<id, u>>}
        /\ grabStats'[<<id, u>>] = used + 1
        /\ \A key \in DOMAIN grabStats \ {<<id, u>>} :
             grabStats'[key] = grabStats[key]
    BY <1>4 DEF Put
  <2>4. used + 1 \in Nat \ {0}
    BY <2>1
  <2> HIDE DEF used
  <2> QED
    BY <1>1, <1>5, <2>2, <2>3, <2>4 DEF GrabInv, StatsOK
<1> HIDE DEF row, win
<1>10. RowsOK'
  <2>1. /\ DOMAIN sales' = DOMAIN sales /\ upgrades' = upgrades
        /\ logs' = logs
    BY <1>1, <1>3
  <2>2. \A r \in orders \cup logs : r.id \in Nat /\ r.id <= lastOrderId
    BY DEF GrabInv, RowsOK, Order, UpgradeLog
  <2>3. \A r \in orders \cup logs : r.id <= lastOrderId'
    BY <1>1, <1>5, <2>2
  <2>4. row.scope \in DOMAIN sales /\ row.id <= lastOrderId'
    BY <1>1, <1>5, <1>6
  <2> QED
    BY <1>3, <1>6, <2>1, <2>3, <2>4 DEF GrabInv, RowsOK
<1>11. NumberedOnce'
  <2>1. \A r \in orders \cup logs : r.id \in Nat /\ r.id <= lastOrderId
    BY DEF GrabInv, RowsOK, Order, UpgradeLog
  <2>2. \A r \in orders \cup logs : r.id # row.id
    BY <1>5, <1>6, <2>1
  <2> QED
    BY <1>1, <1>3, <2>2 DEF GrabInv, NumberedOnce
<1>12. Distinct(orders)' /\ Distinct(logs)'
  <2>1. Distinct(orders \cup {row})
    BY <1>1, <1>3, <1>6, DistinctRow DEF GrabInv
  <2> QED
    BY <1>1, <1>3, <2>1 DEF GrabInv, Distinct
<1>13. Settings' /\ HistoryOK'
  BY <1>1, <1>3, <1>5 DEF GrabInv, Settings, HistoryOK, RecordWin
<1> QED
  BY <1>7, <1>8, <1>9, <1>10, <1>11, <1>12, <1>13 DEF GrabInv

\* A draw in an upgrade, the same way with a log.
LEMMA UpgradeDrawStep ==
  ASSUME GrabInv, NEW u \in Accounts, NEW g \in GrabIds, NEW id, NEW extra,
         RushUpgradeDraw(u, id, g, extra)
  PROVE  GrabInv'
<1>1. /\ id \in DOMAIN upgrades /\ upgrades[id].available > 0
      /\ ~GrabIdUsed(InScope(logs, id), g)
      /\ ~HasWon(InScope(logs, id), u)
      /\ lastOrderId' = lastOrderId + 1
      /\ UNCHANGED <<grabConfig, lastRushId, allowTokens, sales, orders,
                     grabStats, partly>>
  BY DEF RushUpgradeDraw
<1>2. PICK rnd \in 0..RatioBase - 1 :
        LET win == rnd < upgrades[id].win_ratio
        IN  /\ upgrades' = [upgrades EXCEPT ![id] = Drawn(@, win)]
            /\ logs' = logs \cup
                 {[scope |-> id, id |-> lastOrderId + 1, grab_id |-> g,
                   account |-> u, from |-> upgrades[id].pay_tickets,
                   win |-> win]}
            /\ RecordWin(id, u, win)
  BY DEF RushUpgradeDraw
<1> DEFINE win == rnd < upgrades[id].win_ratio
           row == [scope |-> id, id |-> lastOrderId + 1, grab_id |-> g,
                   account |-> u, from |-> upgrades[id].pay_tickets,
                   win |-> win]
<1>3. /\ win \in BOOLEAN
      /\ logs' = logs \cup {row}
      /\ upgrades' = [upgrades EXCEPT ![id] = Drawn(upgrades[id], win)]
      /\ RecordWin(id, u, win)
  BY <1>2
<1>4. /\ id \in Nat /\ lastOrderId \in Nat /\ lastOrderId + 1 \in Nat
      /\ UpgradeOK(upgrades[id])
  BY <1>1 DEF GrabInv, Numbering, Balanced
<1>5. upgrades[id].pay_tickets \in NAsset
  BY <1>4 DEF UpgradeOK, RushUpgrade
<1>6. /\ row \in UpgradeLog /\ row.scope = id /\ row.id = lastOrderId + 1
      /\ row.grab_id = g /\ row.account = u /\ row.win = win
  BY <1>3, <1>4, <1>5 DEF UpgradeLog
<1>7. Numbering'
  BY <1>1, <1>3, <1>4 DEF GrabInv, Numbering
<1>8. Balanced'
  <2>1. UpgradeOK(Drawn(upgrades[id], win))
    BY <1>1, <1>3, <1>4, DrawnOK
  <2> HIDE DEF win
  <2> QED
    BY <1>1, <1>3, <2>1 DEF GrabInv, Balanced
<1>9. StatsOK'
  BY <1>1 DEF GrabInv, StatsOK
<1> HIDE DEF row, win
<1>10. RowsOK'
  <2>1. /\ DOMAIN upgrades' = DOMAIN upgrades /\ sales' = sales
        /\ orders' = orders
    BY <1>1, <1>3
  <2>2. \A r \in orders \cup logs : r.id \in Nat /\ r.id <= lastOrderId
    BY DEF GrabInv, RowsOK, Order, UpgradeLog
  <2>3. \A r \in orders \cup logs : r.id <= lastOrderId'
    BY <1>1, <1>4, <2>2
  <2>4. row.scope \in DOMAIN upgrades /\ row.id <= lastOrderId'
    BY <1>1, <1>4, <1>6
  <2> QED
    BY <1>3, <1>6, <2>1, <2>3, <2>4 DEF GrabInv, RowsOK
<1>11. NumberedOnce'
  <2>1. \A r \in orders \cup logs : r.id \in Nat /\ r.id <= lastOrderId
    BY DEF GrabInv, RowsOK, Order, UpgradeLog
  <2>2. \A r \in orders \cup logs : r.id # row.id
    BY <1>4, <1>6, <2>1
  <2> QED
    BY <1>1, <1>3, <2>2 DEF GrabInv, NumberedOnce
<1>12. Distinct(orders)' /\ Distinct(logs)'
  <2>1. Distinct(logs \cup {row})
    BY <1>1, <1>3, <1>6, DistinctRow DEF GrabInv
  <2> QED
    BY <1>1, <1>3, <2>1 DEF GrabInv, Distinct
<1>13. Settings' /\ HistoryOK'
  BY <1>1, <1>3, <1>4 DEF GrabInv, Settings, HistoryOK, RecordWin
<1> QED
  BY <1>7, <1>8, <1>9, <1>10, <1>11, <1>12, <1>13 DEF GrabInv

-----------------------------------------------------------------------------
(***************************************************************************)
(* Cleanups.                                                               *)
(***************************************************************************)

\* A page of orders and stats goes; the sale only when none is left.
LEMMA DelRushSaleStep ==
  ASSUME GrabInv, NEW sig, NEW id, NEW forced, DelRushSale(sig, id, forced)
  PROVE  GrabInv'
<1> DEFINE rows == InScope(orders, id)
           keys == {key \in DOMAIN grabStats : key[1] = id}
<1>1. /\ id \in DOMAIN sales
      /\ orders' = orders \ Page(rows, MaxClear)
      /\ UNCHANGED <<grabConfig, lastRushId, lastOrderId, allowTokens,
                     upgrades, logs, everWon>>
  BY DEF DelRushSale
<1>2. id \in Nat /\ partly \subseteq Nat
  BY <1>1 DEF GrabInv, Numbering, HistoryOK
<1>3. /\ \A row \in orders : row.scope \in DOMAIN sales
      /\ \A row \in logs : row.scope \in DOMAIN upgrades
      /\ \A key \in DOMAIN grabStats : key[1] \in DOMAIN sales
  BY DEF GrabInv, RowsOK, StatsOK
<1>4. CASE ~Done(rows, Page(rows, MaxClear))
  <2>1. partly' = partly \cup {id} /\ UNCHANGED <<grabStats, sales>>
    BY <1>4 DEF DelRushSale
  <2> QED
    BY <1>1, <1>2, <1>3, <2>1, RowsGone
<1>5. CASE Done(rows, Page(rows, MaxClear))
  <2>1. PICK page \in SUBSET keys :
          /\ grabStats' = [key \in DOMAIN grabStats \ page |-> grabStats[key]]
          /\ IF Done(keys, page)
               THEN sales' = Drop(sales, id) /\ UNCHANGED partly
               ELSE partly' = partly \cup {id} /\ UNCHANGED sales
    BY <1>5 DEF DelRushSale
  <2>2. CASE ~Done(keys, page)
    <3>1. partly' = partly \cup {id} /\ UNCHANGED sales
      BY <2>1, <2>2
    <3>2. /\ DOMAIN grabStats' \subseteq DOMAIN grabStats
          /\ \A key \in DOMAIN grabStats' : grabStats'[key] = grabStats[key]
      BY <2>1
    <3>3. orders' \subseteq orders
      BY <1>1
    <3> HIDE DEF rows, keys
    <3> QED
      BY <1>1, <1>2, <1>3, <3>1, <3>2, <3>3, RowsGone
  <2>3. CASE Done(keys, page)
    <3>1. /\ DOMAIN sales' = DOMAIN sales \ {id}
          /\ \A x \in DOMAIN sales' : sales'[x] = sales[x]
          /\ UNCHANGED partly
      BY <2>1, <2>3 DEF Drop
    <3>2. \A row \in orders' : row.scope \in DOMAIN sales'
      BY <1>1, <1>3, <1>5, <3>1 DEF Done, InScope
    <3>3. \A key \in DOMAIN grabStats' : key[1] \in DOMAIN sales'
      BY <1>3, <2>1, <2>3, <3>1 DEF Done
    <3>4. /\ DOMAIN grabStats' \subseteq DOMAIN grabStats
          /\ \A key \in DOMAIN grabStats' : grabStats'[key] = grabStats[key]
      BY <2>1
    <3> HIDE DEF rows, keys
    <3> QED
      BY <1>1, <1>2, <1>3, <3>1, <3>2, <3>3, <3>4, RowsGone
  <2> QED
    BY <2>2, <2>3
<1> QED
  BY <1>4, <1>5

\* A page of logs goes; the upgrade only when none is left.
LEMMA DelUpgradeStep ==
  ASSUME GrabInv, NEW sig, NEW id, DelUpgrade(sig, id)
  PROVE  GrabInv'
<1> DEFINE rows == InScope(logs, id)
           page == Page(rows, MaxUpgrade)
<1>1. /\ id \in DOMAIN upgrades
      /\ logs' = logs \ page
      /\ IF Done(rows, page)
           THEN upgrades' = Drop(upgrades, id) /\ UNCHANGED partly
           ELSE partly' = partly \cup {id} /\ UNCHANGED upgrades
      /\ UNCHANGED <<grabConfig, lastRushId, lastOrderId, allowTokens, sales,
                     orders, grabStats, everWon>>
  BY DEF DelUpgrade
<1>2. id \in Nat /\ partly \subseteq Nat
  BY <1>1 DEF GrabInv, Numbering, HistoryOK
<1>3. /\ \A row \in orders : row.scope \in DOMAIN sales
      /\ \A row \in logs : row.scope \in DOMAIN upgrades
      /\ \A key \in DOMAIN grabStats : key[1] \in DOMAIN sales
  BY DEF GrabInv, RowsOK, StatsOK
<1>4. CASE ~Done(rows, page)
  BY <1>1, <1>2, <1>3, <1>4, RowsGone
<1>5. CASE Done(rows, page)
  <2>1. /\ DOMAIN upgrades' = DOMAIN upgrades \ {id}
        /\ \A x \in DOMAIN upgrades' : upgrades'[x] = upgrades[x]
        /\ UNCHANGED partly
    BY <1>1, <1>5 DEF Drop
  <2>2. \A row \in logs' : row.scope \in DOMAIN upgrades'
    BY <1>1, <1>3, <1>5, <2>1 DEF Done, InScope
  <2>3. logs' \subseteq logs
    BY <1>1
  <2> HIDE DEF rows, page
  <2> QED
    BY <1>1, <1>2, <1>3, <2>1, <2>2, <2>3, RowsGone
<1> QED
  BY <1>4, <1>5

-----------------------------------------------------------------------------
(***************************************************************************)
(* cisumshowman, the settings, and the whole system.                       *)
(***************************************************************************)

\* What the items of one call send of one type.
Ordered(items, n) == Sent(items, {i \in DOMAIN items : items[i].nid = n})

\* A batch of campaigns is a finite list of counted items.
LEMMA ItemCounts ==
  ASSUME NEW items \in Rushes
  PROVE  /\ items \in Seq(SaleItem \cup UpgradeItem)
         /\ Len(items) \in Nat /\ DOMAIN items = 1..Len(items) /\ IsFiniteSet(DOMAIN items)
         /\ \A i \in DOMAIN items : items[i].count \in Nat \ {0} /\ items[i].nid \in Nids
<1>1. items \in Seq(SaleItem \cup UpgradeItem)
  BY ShowmanAssumption DEF ShowmanAssumption
<1>2. /\ Len(items) \in Nat /\ DOMAIN items = 1..Len(items)
      /\ \A i \in DOMAIN items : items[i] \in SaleItem \cup UpgradeItem
  BY <1>1
<1>3. IsFiniteSet(1..Len(items))
  BY <1>2, FS_Interval
<1>4. \A i \in DOMAIN items : items[i].count \in Nat \ {0} /\ items[i].nid \in Nids
  BY <1>2 DEF SaleItem, UpgradeItem
<1> QED
  BY <1>1, <1>2, <1>3, <1>4

\* One item sends what it says.
LEMMA SentByOne ==
  ASSUME NEW items \in Rushes, NEW i \in DOMAIN items
  PROVE  Sent(items, {i}) = items[i].count
<1> DEFINE D == DOMAIN items
           f == [j \in D |-> IF j \in {i} THEN items[j].count ELSE 0]
<1>1. IsFiniteSet(D) /\ f \in [D -> Int]
  BY ItemCounts
<1>2. f[i] = items[i].count /\ \A j \in D \ {i} : f[j] = 0
  OBVIOUS
<1>3. Sent(items, {i}) = SumFunction(f)
  BY DEF Sent
<1> HIDE DEF f, D
<1>4. SumFunction(f) = f[i]
  BY <1>1, <1>2, SumOfOne DEF D
<1> QED
  BY <1>2, <1>3, <1>4

\* The predicted ids are the assigned ones: every campaign a call opens is
\* booked with its own item, and no campaign that was there before with any.
LEMMA BookedAsOrdered ==
  ASSUME NEW items \in Rushes, NEW kind, lastRushId \in Nat,
         NEW table, DOMAIN table \subseteq 0..lastRushId,
         NEW new, DOMAIN new = {lastRushId + i : i \in OfKind(items, kind)}
  PROVE  Booked(PutAll(table, new), items, kind) =
           PutAll(table, [id \in DOMAIN new |->
             Restocked(new[id], items[id - lastRushId].count)])
<1> DEFINE all == PutAll(table, new)
           naming(id) == {i \in OfKind(items, kind) : PredictedId(i) = id}
           stocked == [id \in DOMAIN new |->
                         Restocked(new[id], items[id - lastRushId].count)]
<1>1. OfKind(items, kind) \subseteq DOMAIN items /\ DOMAIN items \subseteq Nat \ {0}
  BY ItemCounts DEF OfKind
<1>2. \A id \in DOMAIN table : naming(id) = {} /\ id \notin DOMAIN new
  BY <1>1 DEF PredictedId
<1>3. ASSUME NEW id \in DOMAIN new
      PROVE  naming(id) # {} /\ Sent(items, naming(id)) = items[id - lastRushId].count
  <2>1. PICK i \in OfKind(items, kind) : id = lastRushId + i
    OBVIOUS
  <2>2. naming(id) = {i} /\ id - lastRushId = i /\ i \in DOMAIN items
    BY <1>1, <2>1 DEF PredictedId
  <2> QED
    BY <2>2, SentByOne
<1>4. /\ DOMAIN all = DOMAIN table \cup DOMAIN new
      /\ \A id \in DOMAIN table : all[id] = table[id]
      /\ \A id \in DOMAIN new : all[id] = new[id]
  BY <1>2 DEF PutAll
<1>5. Booked(all, items, kind) =
        [id \in DOMAIN all |->
           IF naming(id) = {} THEN all[id]
                              ELSE Restocked(all[id], Sent(items, naming(id)))]
  BY DEF Booked
<1>6. PutAll(table, stocked) =
        [id \in DOMAIN table \cup DOMAIN new |->
           IF id \in DOMAIN new THEN stocked[id] ELSE table[id]]
  <2>1. DOMAIN stocked = DOMAIN new
    OBVIOUS
  <2> HIDE DEF stocked, naming
  <2> QED
    BY <1>2, <2>1 DEF PutAll
<1>7. \A id \in DOMAIN new :
        stocked[id] = Restocked(new[id], items[id - lastRushId].count)
  OBVIOUS
<1> HIDE DEF all, naming, stocked
<1>8. \A id \in DOMAIN table \cup DOMAIN new :
        (IF naming(id) = {} THEN all[id]
                           ELSE Restocked(all[id], Sent(items, naming(id)))) =
        (IF id \in DOMAIN new THEN stocked[id] ELSE table[id])
  BY <1>2, <1>3, <1>4, <1>7
<1>9. Booked(all, items, kind) = PutAll(table, stocked)
  BY <1>4, <1>5, <1>6, <1>8
<1> QED
  BY <1>9 DEF all, stocked

\* addupgrades, campaign by campaign: each is opened with its own stock.
LEMMA AddUpgradesBooks ==
  ASSUME GrabInv, NEW s, NEW items \in Rushes, AddUpgrades(s, items)
  PROVE  LET Ids(kind) == {lastRushId + i :
                             i \in {j \in DOMAIN items : items[j].kind = kind}}
             Item(id) == items[id - lastRushId]
         IN  /\ sales' = PutAll(sales, [id \in Ids("rushsale") |->
                  Restocked(FreshSale(s, Item(id).nid, Item(id).window,
                                      Item(id).price, Item(id).limit,
                                      Item(id).ratio), Item(id).count)])
             /\ upgrades' = PutAll(upgrades, [id \in Ids("rushupgrade") |->
                  Restocked(FreshUpgrade(s, Item(id).nid, Item(id).window,
                                         Item(id).pay, Item(id).ratio),
                            Item(id).count)])
<1> DEFINE Ids(kind) == {lastRushId + i :
                           i \in {j \in DOMAIN items : items[j].kind = kind}}
           Item(id) == items[id - lastRushId]
           newSales == [id \in Ids("rushsale") |->
             FreshSale(s, Item(id).nid, Item(id).window, Item(id).price,
                       Item(id).limit, Item(id).ratio)]
           newUpgrades == [id \in Ids("rushupgrade") |->
             FreshUpgrade(s, Item(id).nid, Item(id).window, Item(id).pay,
                          Item(id).ratio)]
<1>1. /\ lastRushId \in Nat
      /\ DOMAIN sales \subseteq 0..lastRushId /\ DOMAIN upgrades \subseteq 0..lastRushId
  BY DEF GrabInv, Numbering
<1>2. \A kind : Ids(kind) = {lastRushId + i : i \in OfKind(items, kind)}
  BY DEF OfKind
<1>3. /\ sales' = Booked(PutAll(sales, newSales), items, "rushsale")
      /\ upgrades' = Booked(PutAll(upgrades, newUpgrades), items, "rushupgrade")
  BY DEF AddUpgrades, AssignedId, OfKind
<1>4. /\ DOMAIN newSales = {lastRushId + i : i \in OfKind(items, "rushsale")}
      /\ DOMAIN newUpgrades = {lastRushId + i : i \in OfKind(items, "rushupgrade")}
  BY <1>2
<1>5. \A id \in Ids("rushsale") :
        newSales[id] = FreshSale(s, Item(id).nid, Item(id).window, Item(id).price,
                                 Item(id).limit, Item(id).ratio)
  OBVIOUS
<1>6. \A id \in Ids("rushupgrade") :
        newUpgrades[id] = FreshUpgrade(s, Item(id).nid, Item(id).window, Item(id).pay,
                                       Item(id).ratio)
  OBVIOUS
<1>7. DOMAIN newSales = Ids("rushsale") /\ DOMAIN newUpgrades = Ids("rushupgrade")
  OBVIOUS
<1> HIDE DEF newSales, newUpgrades, Ids
<1>8. sales' = PutAll(sales, [id \in Ids("rushsale") |->
                                Restocked(newSales[id], Item(id).count)])
  BY <1>1, <1>3, <1>4, <1>7, BookedAsOrdered
<1>9. upgrades' = PutAll(upgrades, [id \in Ids("rushupgrade") |->
                                      Restocked(newUpgrades[id], Item(id).count)])
  BY <1>1, <1>3, <1>4, <1>7, BookedAsOrdered
<1>10. [id \in Ids("rushsale") |-> Restocked(newSales[id], Item(id).count)] =
         [id \in Ids("rushsale") |->
            Restocked(FreshSale(s, Item(id).nid, Item(id).window, Item(id).price,
                                Item(id).limit, Item(id).ratio), Item(id).count)]
  BY <1>5
<1>11. [id \in Ids("rushupgrade") |-> Restocked(newUpgrades[id], Item(id).count)] =
         [id \in Ids("rushupgrade") |->
            Restocked(FreshUpgrade(s, Item(id).nid, Item(id).window, Item(id).pay,
                                   Item(id).ratio), Item(id).count)]
  BY <1>6
<1> HIDE DEF Item
<1> QED
  BY <1>8, <1>9, <1>10, <1>11 DEF Ids, Item

\* addupgrades: the campaigns get the ids that follow the counter, each
\* exactly one, so the sales and the upgrades it opens do not collide.
LEMMA AddUpgradesStep ==
  ASSUME GrabInv, NEW s \in ShowIds, NEW items \in Rushes,
         AddUpgrades(s, items)
  PROVE  GrabInv'
<1> DEFINE Ids(kind) == {lastRushId + i :
                           i \in {j \in DOMAIN items : items[j].kind = kind}}
           Item(id) == items[id - lastRushId]
           SaleRow(id) ==
             Restocked(FreshSale(s, Item(id).nid, Item(id).window,
                                 Item(id).price, Item(id).limit,
                                 Item(id).ratio), Item(id).count)
           UpgradeRow(id) ==
             Restocked(FreshUpgrade(s, Item(id).nid, Item(id).window,
                                    Item(id).pay, Item(id).ratio),
                       Item(id).count)
<1>1. /\ lastRushId' = lastRushId + Len(items)
      /\ sales' = PutAll(sales, [id \in Ids("rushsale") |-> SaleRow(id)])
      /\ upgrades' =
           PutAll(upgrades, [id \in Ids("rushupgrade") |-> UpgradeRow(id)])
      /\ UNCHANGED <<grabConfig, lastOrderId, allowTokens, orders, grabStats,
                     logs, history>>
  BY AddUpgradesBooks DEF AddUpgrades
<1>2. /\ items \in Seq(SaleItem \cup UpgradeItem)
      /\ lastRushId \in Nat
  BY ShowmanAssumption DEF ShowmanAssumption, GrabInv, Numbering
<1>3. /\ Len(items) \in Nat /\ DOMAIN items = 1..Len(items)
      /\ \A i \in DOMAIN items : items[i] \in SaleItem \cup UpgradeItem
  BY <1>2
<1>4. \A id \in Ids("rushsale") :
        /\ id \in lastRushId + 1 .. lastRushId'
        /\ id - lastRushId \in DOMAIN items
        /\ Item(id).kind = "rushsale"
  BY <1>1, <1>2, <1>3
<1>5. \A id \in Ids("rushupgrade") :
        /\ id \in lastRushId + 1 .. lastRushId'
        /\ id - lastRushId \in DOMAIN items
        /\ Item(id).kind = "rushupgrade"
  BY <1>1, <1>2, <1>3
<1>6. \A id \in Ids("rushsale") : Item(id) \in SaleItem
  BY <1>3, <1>4 DEF SaleItem, UpgradeItem
<1>7. \A id \in Ids("rushupgrade") : Item(id) \in UpgradeItem
  BY <1>3, <1>5 DEF SaleItem, UpgradeItem
<1>8. Ids("rushsale") \cap Ids("rushupgrade") = {}
  BY <1>4, <1>5
<1> HIDE DEF Ids, Item
<1>9. \A id \in Ids("rushsale") : SaleOK(SaleRow(id))
  <2> TAKE id \in Ids("rushsale")
  <2>1. /\ Item(id).nid \in Nids /\ Item(id).window \in SaleWindows
        /\ Item(id).price \in Prices /\ Item(id).limit \in GrabLimits
        /\ Item(id).ratio \in Ratios /\ Item(id).count \in Nat
    BY <1>6 DEF SaleItem
  <2>2. SaleOK(FreshSale(s, Item(id).nid, Item(id).window, Item(id).price,
                         Item(id).limit, Item(id).ratio))
    BY <2>1, FreshOK
  <2> QED
    BY <2>1, <2>2, RestockedOK
<1>10. \A id \in Ids("rushupgrade") : UpgradeOK(UpgradeRow(id))
  <2> TAKE id \in Ids("rushupgrade")
  <2>1. /\ Item(id).nid \in Nids /\ Item(id).window \in SaleWindows
        /\ Item(id).pay \in PayTickets
        /\ Item(id).ratio \in Ratios /\ Item(id).count \in Nat
    BY <1>7 DEF UpgradeItem
  <2>2. UpgradeOK(FreshUpgrade(s, Item(id).nid, Item(id).window,
                               Item(id).pay, Item(id).ratio))
    BY <2>1, FreshOK
  <2> QED
    BY <2>1, <2>2, RestockedOK
<1> HIDE DEF SaleRow, UpgradeRow
<1>11. /\ DOMAIN sales' = DOMAIN sales \cup Ids("rushsale")
       /\ \A x \in DOMAIN sales : sales'[x] = sales[x]
       /\ \A x \in DOMAIN sales' \ DOMAIN sales : sales'[x] = SaleRow(x)
  BY <1>1 DEF PutAll
<1>12. /\ DOMAIN upgrades' = DOMAIN upgrades \cup Ids("rushupgrade")
       /\ \A x \in DOMAIN upgrades : upgrades'[x] = upgrades[x]
       /\ \A x \in DOMAIN upgrades' \ DOMAIN upgrades :
            upgrades'[x] = UpgradeRow(x)
  BY <1>1 DEF PutAll
<1>13. lastRushId' \in Nat /\ lastRushId <= lastRushId'
  BY <1>1, <1>2, <1>3
<1>14. \A x \in DOMAIN sales' \ DOMAIN sales :
         x \in lastRushId + 1 .. lastRushId' /\ SaleOK(sales'[x])
  BY <1>4, <1>9, <1>11
<1>15. \A x \in DOMAIN upgrades' \ DOMAIN upgrades :
         /\ x \in lastRushId + 1 .. lastRushId'
         /\ x \notin DOMAIN sales' \ DOMAIN sales
         /\ UpgradeOK(upgrades'[x])
  BY <1>5, <1>8, <1>10, <1>11, <1>12
<1> QED
  BY <1>1, <1>11, <1>12, <1>13, <1>14, <1>15, NewCampaigns

\* A changed configuration.
LEMMA GrabConfigStep ==
  ASSUME GrabInv, GrabConfig
  PROVE  GrabInv'
<1>1. ConfigAccts \subseteq Accounts
  BY NftAssumption DEF NftAssumption
<1>2. Settings
  BY DEF GrabInv
<1>3. UNCHANGED <<lastRushId, lastOrderId, sales, orders, grabStats,
                  upgrades, logs, history>>
  BY DEF GrabConfig
<1>4. ASSUME NEW a \in ConfigAccts, UNCHANGED allowTokens,
             \/ SetAdmin(a) \/ AddOracle(a) \/ DelOracle(a)
             \/ \E sig \in Accounts : CfgPoint(sig, a) \/ CfgTicket(sig, a)
      PROVE  Settings'
  <2>1. CASE SetAdmin(a)
    BY <1>1, <1>2, <1>4, <2>1 DEF Settings, SetAdmin
  <2>2. CASE AddOracle(a) \/ DelOracle(a)
    BY <1>1, <1>2, <1>4, <2>2 DEF Settings, AddOracle, DelOracle
  <2>3. CASE \E sig \in Accounts : CfgPoint(sig, a) \/ CfgTicket(sig, a)
    BY <1>1, <1>2, <1>4, <2>3 DEF Settings, CfgPoint, CfgTicket
  <2> QED
    BY <1>4, <2>1, <2>2, <2>3
<1>5. ASSUME NEW sig \in Accounts, NEW sym \in Syms, NEW bank \in ConfigAccts,
             UNCHANGED grabConfig,
             AddToken(sig, sym, bank) \/ DelToken(sig, sym, bank)
      PROVE  Settings'
  <2>1. CASE AddToken(sig, sym, bank)
    BY <1>1, <1>2, <1>5, <2>1 DEF Settings, AddToken, Put
  <2>2. CASE DelToken(sig, sym, bank)
    BY <1>2, <1>5, <2>2 DEF Settings, DelToken, Drop
  <2> QED
    BY <1>5, <2>1, <2>2
<1>6. Settings'
  BY <1>4, <1>5 DEF GrabConfig
<1> QED
  BY <1>3, <1>6, GrabQuiet

\* Every step of the four contracts keeps the invariant.
LEMMA CirculationStep ==
  ASSUME GrabInv, [Next]_vars
  PROVE  GrabInv'
<1>1. Fans \subseteq Accounts
  BY ShowAssumption DEF ShowAssumption
<1>2. CASE ShowSide \/ Ledger \/ UNCHANGED vars
  <2>1. UNCHANGED grabVars
    BY <1>2 DEF ShowSide, Ledger, vars
  <2> QED
    BY <2>1, GrabQuiet DEF grabVars, history, GrabInv, Settings
<1>3. CASE Showman
  <2>1. PICK s \in ShowIds :
          \/ \E dates \in ShowDates, free \in BOOLEAN, grades \in Posters :
               PublishShow(s, dates, free, grades)
          \/ \E items \in Rushes : AddUpgrades(s, items)
    BY <1>3 DEF Showman
  <2>2. CASE \E dates \in ShowDates, free \in BOOLEAN, grades \in Posters :
               PublishShow(s, dates, free, grades)
    <3>1. UNCHANGED grabVars
      BY <2>2 DEF PublishShow
    <3> QED
      BY <3>1, GrabQuiet DEF grabVars, history, GrabInv, Settings
  <2>3. CASE \E items \in Rushes : AddUpgrades(s, items)
    BY <2>3, AddUpgradesStep
  <2> QED
    BY <2>1, <2>2, <2>3
<1>4. CASE Draw
  BY <1>1, <1>4, GrabStep, UpgradeDrawStep DEF Draw
<1>5. CASE Cleanup
  BY <1>5, DelRushSaleStep, DelUpgradeStep DEF Cleanup
<1> QED
  BY <1>2, <1>3, <1>4, <1>5, RestockStep, CampaignsStep, TakeBackStep,
     GrabConfigStep DEF Next

\* The circulation starts with no campaign and no row.
LEMMA CirculationStart == Init => GrabInv
<1> SUFFICES ASSUME Init PROVE GrabInv
  OBVIOUS
<1>1. /\ DOMAIN sales = {} /\ orders = {} /\ DOMAIN grabStats = {}
      /\ DOMAIN upgrades = {} /\ logs = {} /\ everWon = {} /\ partly = {}
      /\ lastRushId = 1 /\ lastOrderId = 1
      /\ allowTokens = [sym \in Syms |-> CISUM]
      /\ grabConfig = [admin |-> NoName, point_contract |-> CISUM,
                       ticket_contract |-> TICKET, oracles |-> {}]
  BY DEF Init, EmptyTable
<1>2. CISUM \in Accounts /\ TICKET \in Accounts
  BY NftAssumption, GrabAssumption DEF NftAssumption, GrabAssumption
<1> QED
  BY <1>1, <1>2
     DEF GrabInv, Settings, Numbering, Balanced, RowsOK, StatsOK,
         NumberedOnce, Distinct, HistoryOK

-----------------------------------------------------------------------------
\* Every table of grab.cisum keeps its type; in particular no campaign ever
\* has fewer than no tickets available, in any interleaving.
THEOREM GrabTypes == Spec => []GrabTypeOK
<1>1. GrabInv => GrabTypeOK
  BY DEF GrabInv, GrabTypeOK, Settings, Numbering, Balanced, SaleOK,
         UpgradeOK, RowsOK, StatsOK, HistoryOK
<1> QED
  BY <1>1, CirculationStart, CirculationStep, PTL DEF Spec

\* The counters of every campaign agree, however draws, restocks, take-backs
\* and changes interleave.
THEOREM CampaignsBalance == Spec => []CampaignAccounting
<1>1. GrabInv => CampaignAccounting
  BY DEF GrabInv, CampaignAccounting, Balanced, SaleOK, UpgradeOK
<1> QED
  BY <1>1, CirculationStart, CirculationStep, PTL DEF Spec

\* No id serves twice and no row outlives its campaign, with pages of any
\* size and with campaigns opened by cisumshowman.
THEOREM RowsHaveCampaigns == Spec => []NoOrphanRows
<1>1. GrabInv => NoOrphanRows
  BY DEF GrabInv, NoOrphanRows, Numbering, RowsOK, StatsOK, NumberedOnce
<1> QED
  BY <1>1, CirculationStart, CirculationStep, PTL DEF Spec

\* Among the rows a campaign has, no account wins twice and no grab id is
\* used twice.
THEOREM WinnersDiffer == Spec => []OneWinPerUser
<1>1. GrabInv => OneWinPerUser
  BY DEF GrabInv, OneWinPerUser, Distinct
<1> QED
  BY <1>1, CirculationStart, CirculationStep, PTL DEF Spec

\* A call of cisumshowman opens what it was asked for.
LEMMA CallOpens ==
  ASSUME GrabInv, NEW s, NEW items \in Rushes, AddUpgrades(s, items)
  PROVE  OlderKept /\ OpenedFor(items)
<1> DEFINE Ids(kind) == {lastRushId + i :
                           i \in {j \in DOMAIN items : items[j].kind = kind}}
           Item(id) == items[id - lastRushId]
           SaleRow(id) ==
             Restocked(FreshSale(s, Item(id).nid, Item(id).window,
                                 Item(id).price, Item(id).limit,
                                 Item(id).ratio), Item(id).count)
           UpgradeRow(id) ==
             Restocked(FreshUpgrade(s, Item(id).nid, Item(id).window,
                                    Item(id).pay, Item(id).ratio),
                       Item(id).count)
<1>1. /\ sales' = PutAll(sales, [id \in Ids("rushsale") |-> SaleRow(id)])
      /\ upgrades' =
           PutAll(upgrades, [id \in Ids("rushupgrade") |-> UpgradeRow(id)])
  BY AddUpgradesBooks
<1>2. /\ lastRushId \in Nat
      /\ DOMAIN sales \subseteq 0..lastRushId /\ DOMAIN upgrades \subseteq 0..lastRushId
  BY DEF GrabInv, Numbering
<1>3. lastRushId' = lastRushId + Len(items)
  BY DEF AddUpgrades
<1>4. /\ DOMAIN items \subseteq Nat \ {0}
      /\ \A i \in DOMAIN items :
           items[i].count \in Nat /\ items[i].kind \in {"rushsale", "rushupgrade"}
  BY ItemCounts DEF SaleItem, UpgradeItem
<1>5. \A id : /\ SaleRow(id).ticket_id = Item(id).nid
              /\ SaleRow(id).total = 0 + Item(id).count
              /\ SaleRow(id).available = 0 + Item(id).count - 0
              /\ UpgradeRow(id).ticket_id = Item(id).nid
              /\ UpgradeRow(id).total = 0 + Item(id).count
              /\ UpgradeRow(id).available = 0 + Item(id).count - 0
  BY DEF Restocked, FreshSale, FreshUpgrade
<1> HIDE DEF SaleRow, UpgradeRow
<1>6. OlderKept
  <2> HIDE DEF Ids
  <2> QED
    BY <1>1 DEF PutAll, OlderKept
<1>7. ASSUME NEW i \in DOMAIN items
      PROVE  LET table == IF items[i].kind = "rushsale" THEN sales' ELSE upgrades'
                 id == lastRushId + i
             IN  /\ id \in DOMAIN table
                 /\ table[id].ticket_id = items[i].nid
                 /\ table[id].total = items[i].count
                 /\ table[id].available = items[i].count
  <2> DEFINE id == lastRushId + i
             k == items[i].count
  <2>1. /\ id \notin DOMAIN sales /\ id \notin DOMAIN upgrades
        /\ id - lastRushId = i /\ k \in Nat
    BY <1>2, <1>4
  <2>2. id \in Ids(items[i].kind)
    OBVIOUS
  <2>3. 0 + k = k /\ 0 + k - 0 = k
    BY <2>1
  <2> HIDE DEF id, Ids
  <2>4. Item(id) = items[i]
    BY <2>1
  <2>5. CASE items[i].kind = "rushsale"
    <3>1. id \in DOMAIN sales' /\ sales'[id] = SaleRow(id)
      BY <1>1, <2>1, <2>2, <2>5 DEF PutAll
    <3> QED
      BY <1>5, <2>3, <2>4, <2>5, <3>1 DEF id
  <2>6. CASE items[i].kind = "rushupgrade"
    <3>1. id \in DOMAIN upgrades' /\ upgrades'[id] = UpgradeRow(id)
      BY <1>1, <2>1, <2>2, <2>6 DEF PutAll
    <3> QED
      BY <1>5, <2>3, <2>4, <2>6, <3>1 DEF id
  <2> QED
    BY <1>4, <2>5, <2>6
<1> QED
  BY <1>3, <1>6, <1>7 DEF OpenedFor

\* A manager opens one campaign, without tickets.
LEMMA HandOpens ==
  ASSUME GrabInv, Campaigns, lastRushId' > lastRushId
  PROVE  OlderKept /\ OpenedEmpty
<1> DEFINE x == lastRushId + 1
<1>1. /\ lastRushId \in Nat
      /\ x \notin DOMAIN sales /\ x \notin DOMAIN upgrades
  BY DEF GrabInv, Numbering
<1>2. ASSUME NEW sig, NEW s, NEW n, NEW w, NEW price, NEW limit, NEW ratio,
             AddRushSale(sig, s, n, w, price, limit, ratio), UNCHANGED nftVars
      PROVE  OlderKept /\ OpenedEmpty
  <2> DEFINE row == FreshSale(s, n, w, price, limit, ratio)
  <2>1. /\ lastRushId' = x /\ sales' = Put(sales, x, row)
        /\ UNCHANGED upgrades
    BY <1>2 DEF AddRushSale
  <2>2. row.total = 0
    BY DEF FreshSale
  <2> HIDE DEF row, x
  <2> QED
    BY <1>1, <1>2, <2>1, <2>2 DEF Put, OlderKept, OpenedEmpty, x
<1>3. ASSUME NEW sig, NEW s, NEW n, NEW w, NEW pay, NEW ratio,
             AddUpgrade(sig, s, n, pay, w, ratio), UNCHANGED nftVars
      PROVE  OlderKept /\ OpenedEmpty
  <2> DEFINE row == FreshUpgrade(s, n, w, pay, ratio)
  <2>1. /\ lastRushId' = x /\ upgrades' = Put(upgrades, x, row)
        /\ UNCHANGED sales
    BY <1>3 DEF AddUpgrade
  <2>2. row.total = 0
    BY DEF FreshUpgrade
  <2> HIDE DEF row, x
  <2> QED
    BY <1>1, <1>3, <2>1, <2>2 DEF Put, OlderKept, OpenedEmpty, x
<1>4. ASSUME NEW sig, NEW id, NEW price, NEW pay, NEW limit, NEW ratio, NEW w,
             \/ SetRushSale(sig, id, price, limit, ratio, w[1], w[2])
             \/ SetUpgrade(sig, id, pay, ratio, w[1], w[2])
      PROVE  UNCHANGED lastRushId
  BY <1>4 DEF SetRushSale, SetUpgrade
<1>5. lastRushId' # lastRushId /\ UNCHANGED nftVars
  BY <1>1 DEF Campaigns
<1> QED
  BY <1>2, <1>3, <1>4, <1>5 DEF Campaigns

\* Nothing else numbers a campaign.
LEMMA OthersOpenNothing ==
  ASSUME [Next]_vars, ~ Showman, ~ Campaigns
  PROVE  UNCHANGED lastRushId
<1>1. CASE ShowSide \/ Ledger \/ GrabConfig \/ UNCHANGED vars
  BY <1>1 DEF ShowSide, Ledger, GrabConfig, vars, grabVars
<1>2. CASE Restock
  BY <1>2 DEF Restock, OnAddRushSale, OnAddRushUpgrade
<1>3. CASE Draw
  <2>1. ASSUME NEW u, NEW id, NEW g, NEW paid, Grab(u, id, g, paid)
        PROVE  UNCHANGED lastRushId
    BY <2>1 DEF Grab
  <2>2. ASSUME NEW u, NEW id, NEW g, NEW extra, RushUpgradeDraw(u, id, g, extra)
        PROVE  UNCHANGED lastRushId
    BY <2>2 DEF RushUpgradeDraw
  <2> QED
    BY <1>3, <2>1, <2>2 DEF Draw
<1>4. CASE Cleanup
  <2>1. ASSUME NEW sig, NEW id, NEW forced, DelRushSale(sig, id, forced)
        PROVE  UNCHANGED lastRushId
    BY <2>1 DEF DelRushSale
  <2>2. ASSUME NEW sig, NEW id, DelUpgrade(sig, id)
        PROVE  UNCHANGED lastRushId
    BY <2>2 DEF DelUpgrade
  <2> QED
    BY <1>4, <2>1, <2>2 DEF Cleanup
<1>5. CASE TakeBack
  BY <1>5 DEF TakeBack, SubRushSale, SubRushUpgrade
<1> QED
  BY <1>1, <1>2, <1>3, <1>4, <1>5 DEF Next

\* The ids that cisumshowman writes into its memos are the ids grab.cisum
\* assigns, whatever campaigns were opened and deleted before: the tickets of
\* every item reach its own campaign, and no older one.
THEOREM ItemsReachTheirCampaigns == Spec => OpenedAsOrdered
<1>1. ASSUME GrabInv, [Next]_vars, lastRushId' > lastRushId
      PROVE  OlderKept /\ (OpenedEmpty \/ \E items \in Rushes : OpenedFor(items))
  <2>1. lastRushId' # lastRushId
    BY <1>1 DEF GrabInv, Numbering
  <2>2. CASE Showman
    <3>1. ASSUME NEW s, NEW dates, NEW free, NEW grades, PublishShow(s, dates, free, grades)
          PROVE  FALSE
      BY <2>1, <3>1 DEF PublishShow, grabVars
    <3>2. PICK s \in ShowIds, items \in Rushes : AddUpgrades(s, items)
      BY <2>2, <3>1 DEF Showman
    <3> QED
      BY <1>1, <3>2, CallOpens
  <2>3. CASE Campaigns
    BY <1>1, <2>3, HandOpens
  <2> QED
    BY <1>1, <2>1, <2>2, <2>3, OthersOpenNothing
<1>2. GrabInv /\ [Next]_vars =>
        [lastRushId' > lastRushId =>
           OlderKept /\ (OpenedEmpty \/ \E items \in Rushes : OpenedFor(items))]_vars
  BY <1>1
<1> QED
  BY <1>2, CirculationStart, CirculationStep, PTL DEF Spec, OpenedAsOrdered

-----------------------------------------------------------------------------
(***************************************************************************)
(* The stock of show.cisum, with the contracts that draw on it.            *)
(***************************************************************************)

\* A transfer of any mix of types between two accounts.
LEMMA MoveKeeps ==
  ASSUME NEW b, IsHoldings(b), NEW a \in Accounts, NEW c \in Accounts,
         NEW moved \in [Nids -> Nat], CanMove(b, a, c, moved)
  PROVE  /\ IsHoldings(Move(b, a, c, moved))
         /\ \A n \in Nids : Move(b, a, c, moved)[a][n] = b[a][n] - moved[n]
         /\ \A n \in Nids : Move(b, a, c, moved)[c][n] = b[c][n] + moved[n]
         /\ \A d \in Accounts \ {a, c}, n \in Nids : Move(b, a, c, moved)[d][n] = b[d][n]
<1> DEFINE new == Move(b, a, c, moved)
<1>1. /\ a # c
      /\ \A n \in Nids : moved[n] > 0 => b[a][n] >= moved[n]
  BY DEF CanMove
<1>2. /\ new[a] = [n \in Nids |-> b[a][n] - moved[n]]
      /\ new[c] = [n \in Nids |-> b[c][n] + moved[n]]
      /\ \A d \in Accounts \ {a, c} : new[d] = b[d]
      /\ new = [d \in Accounts |-> new[d]]
  BY <1>1 DEF Move, IsHoldings
<1> HIDE DEF new
<1>3. \A d \in Accounts, n \in Nids : b[d][n] \in Nat
  BY DEF IsHoldings
<1>4. \A n \in Nids : moved[n] \in Nat
  OBVIOUS
<1>5. \A n \in Nids : b[a][n] - moved[n] \in Nat /\ b[c][n] + moved[n] \in Nat
  BY <1>1, <1>3, <1>4
<1>6. \A d \in Accounts : new[d] \in [Nids -> Nat]
  <2> TAKE d \in Accounts
  <2>1. CASE d = a
    BY <1>2, <1>5, <2>1
  <2>2. CASE d = c
    BY <1>2, <1>5, <2>2
  <2>3. CASE d \notin {a, c}
    BY <1>2, <2>3 DEF IsHoldings
  <2> QED
    BY <2>1, <2>2, <2>3
<1>7. IsHoldings(new)
  BY <1>2, <1>6 DEF IsHoldings
<1> QED
  BY <1>2, <1>7 DEF new

\* The amounts of a batch with one type more.
LEMMA BatchType ==
  ASSUME NEW extra \in [Nids -> Nat], NEW n, NEW k \in Nat
  PROVE  /\ [m \in Nids |-> extra[m] + Single(n, k)[m]] \in [Nids -> Nat]
         /\ Single(n, k) \in [Nids -> Nat]
BY DEF Single

\* Backed stock stays backed when its surplus does not shrink.
LEMMA BackedKept ==
  ASSUME ShowInv, Holdings, StockBacked, ShowInv', Holdings', SurplusKept
  PROVE  StockBacked'
<1>1. StocksAreCounts'
  BY StockCounts, PTL
<1>2. ASSUME NEW n \in Nids
      PROVE  StockOf(n)' <= bal'[SHOW][n]
  <2>1. StockOf(n) \in Nat
    BY StockIsNat DEF ShowInv, Holdings
  <2>2. StockOf(n)' \in Nat
    BY <1>1 DEF StocksAreCounts
  <2>3. bal[SHOW][n] \in Nat /\ bal'[SHOW][n] \in Nat
    BY Parties DEF Holdings, IsHoldings
  <2>4. StockOf(n) <= bal[SHOW][n]
    BY DEF StockBacked
  <2>5. bal[SHOW][n] - StockOf(n) <= bal'[SHOW][n] - StockOf(n)'
    BY DEF SurplusKept
  <2> QED
    BY <2>1, <2>2, <2>3, <2>4, <2>5
<1> QED
  BY <1>2 DEF StockBacked

\* The part of the state the proofs about show.cisum speak of.
StoreKept == ShowInv' /\ Holdings' /\ SurplusKept

\* Nothing but the ledger changes, and show.cisum loses nothing.
LEMMA LedgerOnly ==
  ASSUME ShowInv, Holdings, UNCHANGED <<now, showVars, nstats>>, IsHoldings(bal'),
         \A m \in Nids : bal'[SHOW][m] >= bal[SHOW][m]
  PROVE  StoreKept
<1>1. ShowInv'
  BY QuietStep DEF ShowInv, Calendar, showVars
<1> QED
  BY <1>1, LedgerSurplus DEF StoreKept, showVars

\* A payment out of grab.cisum, whichever contract it is sent to.
LEMMA PayOutMoves ==
  ASSUME IsHoldings(bal), NEW u \in Accounts, NEW moved \in [Nids -> Nat],
         PayOut(u, moved)
  PROVE  /\ UNCHANGED <<nstats, nftConfig>> /\ IsHoldings(bal')
         /\ u # GRAB =>
              \A n \in Nids :
                /\ bal'[GRAB][n] = bal[GRAB][n] - (IF PaysTickets THEN moved[n] ELSE 0)
                /\ bal'[u][n] = bal[u][n] + (IF PaysTickets THEN moved[n] ELSE 0)
         /\ \A a \in Accounts \ {GRAB, u}, n \in Nids : bal'[a][n] = bal[a][n]
<1>1. CASE PaysTickets
  <2>1. /\ CanMove(bal, GRAB, u, moved) /\ bal' = Move(bal, GRAB, u, moved)
        /\ UNCHANGED <<nstats, nftConfig>>
    BY <1>1 DEF PayOut, NftTransfer
  <2> QED
    BY <1>1, <2>1, MoveKeeps, Parties
<1>2. CASE ~PaysTickets
  <2>1. UNCHANGED nftVars
    BY <1>2 DEF PayOut
  <2>2. \A a \in Accounts, n \in Nids : bal[a][n] \in Int
    BY DEF IsHoldings
  <2> QED
    BY <1>2, <2>1, <2>2, Parties DEF nftVars, nftConfig, IsHoldings
<1> QED
  BY <1>1, <1>2

\* Rows are numbered, so there are finitely many.
LEMMA RowsFinite ==
  ASSUME GrabInv
  PROVE  IsFiniteSet(orders) /\ IsFiniteSet(logs)
<1> DEFINE T == 0..lastOrderId
<1>1. IsFiniteSet(T)
  BY FS_Interval DEF GrabInv, Numbering
<1>2. \A row \in orders \cup logs : row.id \in T
  BY DEF GrabInv, RowsOK, Order, UpgradeLog, Numbering
<1>3. ASSUME NEW rows \in SUBSET (orders \cup logs)
      PROVE  IsFiniteSet(rows)
  <2> DEFINE f == [row \in rows |-> row.id]
  <2>1. f \in Injection(rows, T)
    BY <1>2 DEF Injection, IsInjective, GrabInv, NumberedOnce
  <2> HIDE DEF T
  <2> QED
    BY <1>1, <2>1, FS_Injection
<1> QED
  BY <1>3

\* The tables of campaigns are finite: their ids come from a counter.
LEMMA TablesFinite ==
  ASSUME GrabInv
  PROVE  IsFiniteSet(DOMAIN sales) /\ IsFiniteSet(DOMAIN upgrades)
<1>1. IsFiniteSet(0..lastRushId)
  BY FS_Interval DEF GrabInv, Numbering
<1> QED
  BY <1>1, FS_Subset DEF GrabInv, Numbering

\* A set of logs stakes a count of every type.
LEMMA StakedIsNat ==
  ASSUME NEW rows, rows \subseteq UpgradeLog, IsFiniteSet(rows), NEW n
  PROVE  Staked(rows, n) \in Nat
<1> DEFINE f == [log \in rows |-> IF log.from.nid = n THEN log.from.amount ELSE 0]
<1>1. f \in [rows -> Nat]
  BY DEF UpgradeLog, NAsset
<1> HIDE DEF f
<1>2. SumFunction(f) \in Nat
  BY <1>1, SumIsNat
<1> QED
  BY <1>2 DEF Staked, f

\* A part of the logs stakes no more than all of them.
LEMMA StakedInPart ==
  ASSUME NEW rows, rows \subseteq UpgradeLog, IsFiniteSet(rows), NEW part \in SUBSET rows, NEW n
  PROVE  Staked(part, n) <= Staked(rows, n)
<1> DEFINE f == [log \in rows |-> IF log.from.nid = n THEN log.from.amount ELSE 0]
           g == [log \in part |-> IF log.from.nid = n THEN log.from.amount ELSE 0]
<1>1. f \in [rows -> Nat] /\ g \in [part -> Nat] /\ \A log \in part : g[log] = f[log]
  BY DEF UpgradeLog, NAsset
<1> HIDE DEF f, g
<1>2. SumFunction(g) <= SumFunction(f)
  BY <1>1, SumOfFewer
<1> QED
  BY <1>2 DEF Staked, f, g

\* What the logs stake is what two parts of them stake.
LEMMA StakedInParts ==
  ASSUME NEW rows, rows \subseteq UpgradeLog, IsFiniteSet(rows), NEW part \in SUBSET rows, NEW n
  PROVE  Staked(rows, n) = Staked(part, n) + Staked(rows \ part, n)
<1> DEFINE rest == rows \ part
           f == [log \in part |-> IF log.from.nid = n THEN log.from.amount ELSE 0]
           g == [log \in rest |-> IF log.from.nid = n THEN log.from.amount ELSE 0]
           h == [log \in rows |-> IF log.from.nid = n THEN log.from.amount ELSE 0]
<1>1. h \in [rows -> Int] /\ DOMAIN f = part /\ DOMAIN g = rest
  BY DEF UpgradeLog, NAsset
<1>2. IsFiniteSet(part) /\ IsFiniteSet(rest)
  BY FS_Subset
<1>3. \A log \in part : h[log] = f[log]
  OBVIOUS
<1>4. \A log \in rest : h[log] = g[log]
  OBVIOUS
<1>5. /\ Staked(part, n) = SumFunction(f) /\ Staked(rest, n) = SumFunction(g)
      /\ Staked(rows, n) = SumFunction(h)
  BY DEF Staked
<1> HIDE DEF f, g, h
<1>6. SumFunction(h) = SumFunctionOnSet(h, part) + SumFunctionOnSet(h, rest)
  BY <1>1, SumOnParts
<1>7. SumFunctionOnSet(h, part) = SumFunction(f)
  BY <1>1, <1>2, <1>3, SumOfTable
<1>8. SumFunctionOnSet(h, rest) = SumFunction(g)
  <2> HIDE DEF rest
  <2> QED
    BY <1>1, <1>2, <1>4, SumOfTable
<1> QED
  BY <1>5, <1>6, <1>7, <1>8

\* One log more.
LEMMA StakedMore ==
  ASSUME NEW rows, rows \subseteq UpgradeLog, IsFiniteSet(rows), NEW log \in UpgradeLog,
         log \notin rows, NEW n
  PROVE  Staked(rows \cup {log}, n)
           = Staked(rows, n) + (IF log.from.nid = n THEN log.from.amount ELSE 0)
<1> DEFINE all == rows \cup {log}
           f == [r \in rows |-> IF r.from.nid = n THEN r.from.amount ELSE 0]
           g == [r \in all |-> IF r.from.nid = n THEN r.from.amount ELSE 0]
<1>1. f \in [rows -> Int] /\ g \in [all -> Int]
  BY DEF UpgradeLog, NAsset
<1>2. \A r \in rows : g[r] = f[r]
  OBVIOUS
<1>3. /\ Staked(rows, n) = SumFunction(f) /\ Staked(rows \cup {log}, n) = SumFunction(g)
      /\ g[log] = IF log.from.nid = n THEN log.from.amount ELSE 0
  BY DEF Staked
<1>4. all = rows \cup {log}
  OBVIOUS
<1> HIDE DEF all, f, g
<1>5. SumFunction(g) = SumFunction(f) + g[log]
  BY <1>1, <1>2, <1>4, SumGrows
<1> QED
  BY <1>3, <1>5

\* Tickets reach grab.cisum for a campaign.
LEMMA RestockStore ==
  ASSUME ShowInv, Holdings, Restock
  PROVE  StoreKept
<1>1. PICK id \in DOMAIN sales \cup DOMAIN upgrades, n \in Nids, k \in Amounts :
        \/ \E sig \in Accounts, s \in ShowIds :
             IssueToGrab(sig, GRAB, s, n, k) \/ ShowIssue(sig, GRAB, s, n, k)
        \/ /\ \E a \in Fans, extra \in Extras :
                NftTransfer(a, GRAB, [m \in Nids |-> extra[m] + Single(n, k)[m]])
           /\ UNCHANGED <<now, showVars>>
  BY DEF Restock
<1>2. k \in Nat
  BY NftAssumption DEF NftAssumption
<1>3. CASE \E sig \in Accounts, s \in ShowIds : IssueToGrab(sig, GRAB, s, n, k)
  <2>1. PICK sig \in Accounts, s \in ShowIds : IssueToGrab(sig, GRAB, s, n, k)
    BY <1>3
  <2>2. ShowInv'
    BY <1>2, <2>1, IssueToGrabStep
  <2>3. Holdings' /\ SurplusKept
    BY <1>2, <2>1, <2>2, Parties, GivenSurplus
  <2> QED
    BY <2>2, <2>3 DEF StoreKept
<1>4. CASE \E sig \in Accounts, s \in ShowIds : ShowIssue(sig, GRAB, s, n, k)
  <2>1. PICK sig \in Accounts, s \in ShowIds : ShowIssue(sig, GRAB, s, n, k)
    BY <1>4
  <2>2. BookIssues(s, n, k, 1) /\ UNCHANGED nstats
    BY <2>1 DEF ShowIssue, NftTransfer
  <2>3. ShowInv'
    BY <1>2, <2>2, BookIssuesStep
  <2>4. Holdings' /\ SurplusKept
    BY <1>2, <2>1, <2>3, Parties, GivenSurplus
  <2> QED
    BY <2>3, <2>4 DEF StoreKept
<1>5. CASE /\ \E a \in Fans, extra \in Extras :
                NftTransfer(a, GRAB, [m \in Nids |-> extra[m] + Single(n, k)[m]])
           /\ UNCHANGED <<now, showVars>>
  <2>1. PICK a \in Fans, extra \in Extras :
          NftTransfer(a, GRAB, [m \in Nids |-> extra[m] + Single(n, k)[m]])
    BY <1>5
  <2> DEFINE moved == [m \in Nids |-> extra[m] + Single(n, k)[m]]
  <2>2. moved \in [Nids -> Nat]
    BY <1>2, BatchType, GrabAssumption DEF GrabAssumption
  <2>3. CanMove(bal, a, GRAB, moved) /\ bal' = Move(bal, a, GRAB, moved) /\ UNCHANGED nstats
    BY <2>1 DEF NftTransfer
  <2>4. a \in Accounts /\ GRAB \in Accounts /\ SHOW \in Accounts \ {a, GRAB}
    BY ShowAssumption DEF ShowAssumption
  <2> HIDE DEF moved
  <2>5. /\ IsHoldings(bal')
        /\ \A m \in Nids : bal'[SHOW][m] = bal[SHOW][m]
    BY <2>2, <2>3, <2>4, MoveKeeps DEF Holdings
  <2>6. \A m \in Nids : bal[SHOW][m] \in Int
    BY <2>4 DEF Holdings, IsHoldings
  <2> QED
    BY <1>5, <2>3, <2>5, <2>6, LedgerOnly
<1> QED
  BY <1>1, <1>3, <1>4, <1>5

\* A draw of a sale pays the prize out of grab.cisum.
LEMMA GrabStore ==
  ASSUME ShowInv, Holdings, GrabInv, NEW u \in Fans, NEW id, NEW g, NEW paid,
         Grab(u, id, g, paid), UNCHANGED <<now, showVars>>
  PROVE  StoreKept
<1>1. u \in Accounts /\ u # GRAB /\ SHOW \in Accounts \ {GRAB, u}
  BY ShowAssumption DEF ShowAssumption
<1>2. CASE UNCHANGED nftVars
  <2>1. \A m \in Nids : bal[SHOW][m] \in Int
    BY <1>1 DEF Holdings, IsHoldings
  <2> QED
    BY <1>2, <2>1, LedgerOnly DEF nftVars, Holdings
<1>3. CASE PayOut(u, Single(sales[id].ticket_id, 1))
  <2>1. Single(sales[id].ticket_id, 1) \in [Nids -> Nat]
    BY DEF Single
  <2>2. /\ UNCHANGED nstats /\ IsHoldings(bal')
        /\ \A m \in Nids : bal'[SHOW][m] = bal[SHOW][m]
    BY <1>1, <1>3, <2>1, PayOutMoves DEF Holdings
  <2>3. \A m \in Nids : bal[SHOW][m] \in Int
    BY <1>1 DEF Holdings, IsHoldings
  <2> QED
    BY <2>2, <2>3, LedgerOnly
<1> QED
  BY <1>2, <1>3 DEF Grab

\* What a draw of an upgrade does to the ledger: the stake and what else it
\* carries come in, and a prize that is paid goes out.
DrawMoves(u, extra, pay, n, out) ==
  /\ IsHoldings(bal')
  /\ \A m \in Nids :
       /\ bal'[GRAB][m] = bal[GRAB][m] + extra[m] + (IF m = pay.nid THEN pay.amount ELSE 0)
                          - (IF m = n THEN out ELSE 0)
       /\ bal'[u][m] = bal[u][m] - extra[m] - (IF m = pay.nid THEN pay.amount ELSE 0)
                       + (IF m = n THEN out ELSE 0)
  /\ \A a \in Accounts \ {u, GRAB}, m \in Nids : bal'[a][m] = bal[a][m]

\* A transfer and another one back.
MovedBack(b, new, a, c, out, back) ==
  /\ IsHoldings(new)
  /\ \A m \in Nids : new[a][m] = b[a][m] - out[m] + back[m]
  /\ \A m \in Nids : new[c][m] = b[c][m] + out[m] - back[m]
  /\ \A d \in Accounts \ {a, c}, m \in Nids : new[d][m] = b[d][m]

\* What the two transfers come to.
LEMMA MoveAndBack ==
  ASSUME NEW b, IsHoldings(b), NEW a \in Accounts, NEW c \in Accounts,
         NEW out \in [Nids -> Nat], NEW back \in [Nids -> Nat],
         CanMove(b, a, c, out), CanMove(Move(b, a, c, out), c, a, back),
         NEW new, new = Move(Move(b, a, c, out), c, a, back)
  PROVE  MovedBack(b, new, a, c, out, back)
<1> DEFINE mid == Move(b, a, c, out)
<1>1. /\ IsHoldings(mid)
      /\ \A m \in Nids : mid[a][m] = b[a][m] - out[m]
      /\ \A m \in Nids : mid[c][m] = b[c][m] + out[m]
      /\ \A d \in Accounts \ {a, c}, m \in Nids : mid[d][m] = b[d][m]
  BY MoveKeeps
<1>2. CanMove(mid, c, a, back) /\ new = Move(mid, c, a, back)
  OBVIOUS
<1> HIDE DEF mid
<1>3. /\ IsHoldings(new)
      /\ \A m \in Nids : new[c][m] = mid[c][m] - back[m]
      /\ \A m \in Nids : new[a][m] = mid[a][m] + back[m]
      /\ \A d \in Accounts \ {c, a}, m \in Nids : new[d][m] = mid[d][m]
  BY <1>1, <1>2, MoveKeeps
<1>4. \A m \in Nids : b[a][m] \in Int /\ b[c][m] \in Int /\ out[m] \in Int /\ back[m] \in Int
  BY DEF IsHoldings
<1>5. \A m \in Nids : new[a][m] = b[a][m] - out[m] + back[m]
  BY <1>1, <1>3, <1>4
<1>6. \A m \in Nids : new[c][m] = b[c][m] + out[m] - back[m]
  BY <1>1, <1>3, <1>4
<1>7. \A d \in Accounts \ {a, c}, m \in Nids : new[d][m] = b[d][m]
  BY <1>1, <1>3
<1> QED
  BY <1>3, <1>5, <1>6, <1>7 DEF MovedBack

\* The two transfers of an upgrade draw: the stake in, the prize out.
LEMMA DrawLedger ==
  ASSUME IsHoldings(bal), NEW u \in Accounts, u # GRAB, NEW extra \in [Nids -> Nat],
         NEW pay \in NAsset, NEW n, NEW out \in Nat, NEW stake,
         stake = [m \in Nids |-> extra[m] + Single(pay.nid, pay.amount)[m]],
         CanMove(bal, u, GRAB, stake),
         CanMove(Move(bal, u, GRAB, stake), GRAB, u, Single(n, out)),
         bal' = Move(Move(bal, u, GRAB, stake), GRAB, u, Single(n, out))
  PROVE  DrawMoves(u, extra, pay, n, out)
<1>1. pay.amount \in Nat /\ GRAB \in Accounts
  BY Parties DEF NAsset
<1>2. stake \in [Nids -> Nat] /\ Single(n, out) \in [Nids -> Nat]
  BY <1>1, BatchType
<1>3. \A m \in Nids : stake[m] = extra[m] + (IF m = pay.nid THEN pay.amount ELSE 0)
  BY DEF Single
<1>4. \A m \in Nids : Single(n, out)[m] = IF m = n THEN out ELSE 0
  BY DEF Single
<1>5. MovedBack(bal, bal', u, GRAB, stake, Single(n, out))
  BY <1>1, <1>2, MoveAndBack
<1>6. \A m \in Nids : bal[GRAB][m] \in Int /\ bal[u][m] \in Int /\ extra[m] \in Int
  BY <1>1 DEF IsHoldings
<1>7. ASSUME NEW m \in Nids
      PROVE  /\ bal'[GRAB][m] = bal[GRAB][m] + extra[m] + (IF m = pay.nid THEN pay.amount ELSE 0)
                                - (IF m = n THEN out ELSE 0)
             /\ bal'[u][m] = bal[u][m] - extra[m] - (IF m = pay.nid THEN pay.amount ELSE 0)
                             + (IF m = n THEN out ELSE 0)
  BY <1>1, <1>3, <1>4, <1>5, <1>6 DEF MovedBack
<1> QED
  BY <1>5, <1>7 DEF DrawMoves, MovedBack

\* A draw of an upgrade by u that turns out as win.
DrawEffect(u, id, g, extra, win) ==
  /\ DrawMoves(u, extra, upgrades[id].pay_tickets, upgrades[id].ticket_id,
               IF win /\ PaysTickets THEN 1 ELSE 0)
  /\ upgrades' = [upgrades EXCEPT ![id] = Drawn(@, win)]
  /\ logs' = logs \cup
       {[scope |-> id, id |-> lastOrderId + 1, grab_id |-> g, account |-> u,
         from |-> upgrades[id].pay_tickets, win |-> win]}
  /\ UNCHANGED <<sales, nstats>>

\* Every upgrade draw is such an effect, for one of the two outcomes.
LEMMA DrawEffects ==
  ASSUME IsHoldings(bal), GrabInv, NEW u \in Accounts, NEW id, NEW g,
         NEW extra \in [Nids -> Nat], RushUpgradeDraw(u, id, g, extra)
  PROVE  \E win \in BOOLEAN : DrawEffect(u, id, g, extra, win)
<1>1. id \in DOMAIN upgrades /\ u # GRAB /\ UNCHANGED <<sales, nstats>>
  BY DEF RushUpgradeDraw
<1>2. upgrades[id].pay_tickets \in NAsset
  BY <1>1 DEF GrabInv, Balanced, UpgradeOK, RushUpgrade
<1> DEFINE pay == upgrades[id].pay_tickets
           n == upgrades[id].ticket_id
           stake == [m \in Nids |-> extra[m] + Single(pay.nid, pay.amount)[m]]
           out(win) == IF win /\ PaysTickets THEN 1 ELSE 0
           held == Move(bal, u, GRAB, stake)
<1>3. PICK rnd \in 0..RatioBase - 1 :
        /\ CanMove(bal, u, GRAB, stake)
        /\ CanMove(held, GRAB, u, Single(n, out(rnd < upgrades[id].win_ratio)))
        /\ bal' = Move(held, GRAB, u, Single(n, out(rnd < upgrades[id].win_ratio)))
        /\ upgrades' = [upgrades EXCEPT ![id] = Drawn(@, rnd < upgrades[id].win_ratio)]
        /\ logs' = logs \cup
             {[scope |-> id, id |-> lastOrderId + 1, grab_id |-> g, account |-> u,
               from |-> pay, win |-> rnd < upgrades[id].win_ratio]}
  BY DEF RushUpgradeDraw
<1> DEFINE win == rnd < upgrades[id].win_ratio
<1>4. win \in BOOLEAN /\ out(win) \in Nat
  OBVIOUS
<1>5. DrawMoves(u, extra, pay, n, out(win))
  <2> HIDE DEF pay, n, out, win
  <2>1. stake = [m \in Nids |-> extra[m] + Single(pay.nid, pay.amount)[m]]
    OBVIOUS
  <2>2. /\ CanMove(bal, u, GRAB, stake)
        /\ CanMove(Move(bal, u, GRAB, stake), GRAB, u, Single(n, out(win)))
        /\ bal' = Move(Move(bal, u, GRAB, stake), GRAB, u, Single(n, out(win)))
    BY <1>3 DEF win
  <2>3. pay \in NAsset
    BY <1>2 DEF pay
  <2> HIDE DEF stake
  <2> QED
    BY <1>1, <1>4, <2>1, <2>2, <2>3, DrawLedger
<1>6. DrawEffect(u, id, g, extra, win)
  BY <1>1, <1>3, <1>5 DEF DrawEffect
<1> QED
  BY <1>4, <1>6

\* A draw of an upgrade leaves show.cisum alone.
LEMMA UpgradeDrawStore ==
  ASSUME ShowInv, Holdings, GrabInv, NEW u \in Fans, NEW id, NEW g, NEW extra \in Extras,
         RushUpgradeDraw(u, id, g, extra), UNCHANGED <<now, showVars>>
  PROVE  StoreKept
<1>1. u \in Accounts /\ u # GRAB /\ SHOW \in Accounts \ {u, GRAB}
  BY ShowAssumption DEF ShowAssumption
<1>2. extra \in [Nids -> Nat]
  BY GrabAssumption DEF GrabAssumption
<1>3. PICK win \in BOOLEAN : DrawEffect(u, id, g, extra, win)
  BY <1>1, <1>2, DrawEffects DEF Holdings
<1>4. /\ IsHoldings(bal') /\ UNCHANGED nstats
      /\ \A m \in Nids : bal'[SHOW][m] = bal[SHOW][m]
  BY <1>1, <1>3 DEF DrawEffect, DrawMoves
<1>5. \A m \in Nids : bal[SHOW][m] \in Int
  BY <1>1 DEF Holdings, IsHoldings
<1> QED
  BY <1>4, <1>5, LedgerOnly

\* A page of settled stakes leaves grab.cisum for the accounts they are due to.
LEMMA SettleLedger ==
  ASSUME IsHoldings(bal), GrabInv, NEW sig, NEW id, DelUpgrade(sig, id),
         NEW paid, paid = Payable(Page(InScope(logs, id), MaxUpgrade))
  PROVE  /\ paid \subseteq InScope(logs, id) /\ IsFiniteSet(paid)
         /\ IsHoldings(bal') /\ UNCHANGED <<nstats, sales>>
         /\ \A n \in Nids : bal'[GRAB][n] = bal[GRAB][n] - Staked(paid, n)
         /\ \A a \in Accounts \ {GRAB}, n \in Nids :
              bal'[a][n] = bal[a][n] + Staked({log \in paid : Destination(log) = a}, n)
<1> DEFINE due(a) == {log \in paid : Destination(log) = a}
<1>1. /\ \A n \in Nids : Staked(paid, n) <= bal[GRAB][n]
      /\ bal' = [a \in Accounts |-> [n \in Nids |->
                   IF a = GRAB THEN bal[a][n] - Staked(paid, n)
                               ELSE bal[a][n] + Staked(due(a), n)]]
      /\ UNCHANGED <<nstats, sales>>
  BY DEF DelUpgrade
<1>2. paid \subseteq InScope(logs, id) /\ paid \subseteq logs
  BY DEF Payable, Page, InScope
<1>3. logs \subseteq UpgradeLog
  BY DEF GrabInv, RowsOK
<1>4. IsFiniteSet(logs)
  BY RowsFinite
<1>5. \A n : Staked(paid, n) \in Nat
  BY <1>2, <1>3, <1>4, FS_Subset, StakedIsNat
<1>6. \A a, n : Staked(due(a), n) \in Nat
  <2> TAKE a, n
  <2>1. due(a) \subseteq UpgradeLog /\ IsFiniteSet(due(a))
    BY <1>2, <1>3, <1>4, FS_Subset
  <2> HIDE DEF due
  <2> QED
    BY <2>1, StakedIsNat
<1> HIDE DEF due
<1>7. \A a \in Accounts, n \in Nids : bal[a][n] \in Nat
  BY DEF IsHoldings
<1>8. \A a \in Accounts, n \in Nids :
        (IF a = GRAB THEN bal[a][n] - Staked(paid, n) ELSE bal[a][n] + Staked(due(a), n)) \in Nat
  <2> TAKE a \in Accounts, n \in Nids
  <2>1. CASE a = GRAB
    BY <1>1, <1>5, <1>7, <2>1
  <2>2. CASE a # GRAB
    BY <1>6, <1>7, <2>2
  <2> QED
    BY <2>1, <2>2
<1>9. IsHoldings(bal')
  BY <1>1, <1>8 DEF IsHoldings
<1>10. /\ \A n \in Nids : bal'[GRAB][n] = bal[GRAB][n] - Staked(paid, n)
       /\ \A a \in Accounts \ {GRAB}, n \in Nids : bal'[a][n] = bal[a][n] + Staked(due(a), n)
  BY <1>1, Parties
<1>11. IsFiniteSet(paid)
  BY <1>2, <1>4, FS_Subset
<1> QED
  BY <1>1, <1>2, <1>9, <1>10, <1>11 DEF due

\* So does a cleanup, unless it refunds it.
LEMMA CleanupStore ==
  ASSUME ShowInv, Holdings, GrabInv, Cleanup
  PROVE  StoreKept
<1>1. \A m \in Nids : bal[SHOW][m] \in Int
  BY Parties DEF Holdings, IsHoldings
<1>2. UNCHANGED <<now, showVars>>
  BY DEF Cleanup
<1>3. CASE UNCHANGED nftVars
  BY <1>1, <1>2, <1>3, LedgerOnly DEF nftVars, Holdings
<1>4. ASSUME NEW sig \in Accounts, NEW id \in DOMAIN upgrades, DelUpgrade(sig, id)
      PROVE  StoreKept
  <2> DEFINE paid == Payable(Page(InScope(logs, id), MaxUpgrade))
             due == {log \in paid : Destination(log) = SHOW}
  <2>1. SHOW \in Accounts \ {GRAB}
    BY ShowAssumption DEF ShowAssumption
  <2>2. /\ paid \subseteq InScope(logs, id) /\ IsFiniteSet(paid)
        /\ IsHoldings(bal') /\ UNCHANGED nstats
        /\ \A n \in Nids : bal'[SHOW][n] = bal[SHOW][n] + Staked(due, n)
    <3> HIDE DEF Page, Payable
    <3> QED
      BY <1>4, <2>1, SettleLedger DEF Holdings
  <2>3. due \subseteq UpgradeLog /\ IsFiniteSet(due)
    BY <2>2, FS_Subset DEF GrabInv, RowsOK, InScope
  <2> HIDE DEF due, paid
  <2>4. \A n \in Nids : Staked(due, n) \in Nat
    BY <2>3, StakedIsNat
  <2>5. \A n \in Nids : bal'[SHOW][n] >= bal[SHOW][n]
    BY <1>1, <2>2, <2>4
  <2> QED
    BY <1>2, <2>2, <2>5, LedgerOnly
<1> QED
  BY <1>3, <1>4 DEF Cleanup

\* What a campaign gives back is in stock again.
LEMMA BackStore ==
  ASSUME ShowInv, Holdings, NEW s, NEW n \in Nids, NEW k \in Nat,
         BackToShow(s, n, k), UNCHANGED now
  PROVE  StoreKept
<1>1. CASE PaysTickets
  <2>1. OnReturnFromGrab(s, n, k) /\ NftTransfer(GRAB, SHOW, Single(n, k)) /\ UNCHANGED nstats
    BY <1>1 DEF BackToShow, PayOut, NftTransfer
  <2>2. ShowInv'
    BY <2>1, ReturnStep
  <2> QED
    BY <2>1, <2>2, ReturnSurplus DEF StoreKept
<1>2. CASE ~PaysTickets
  <2>1. UNCHANGED <<nftVars, showVars>>
    BY <1>2 DEF BackToShow, PayOut
  <2>2. \A m \in Nids : bal[SHOW][m] \in Int
    BY Parties DEF Holdings, IsHoldings
  <2> QED
    BY <2>1, <2>2, LedgerOnly DEF nftVars, Holdings
<1> QED
  BY <1>1, <1>2

\* What grab.cisum gives back goes to the stock it came from.
LEMMA TakeBackStore ==
  ASSUME ShowInv, Holdings, GrabInv, TakeBack
  PROVE  StoreKept
<1>1. \A k \in Amounts : k \in Nat
  BY NftAssumption DEF NftAssumption
<1>2. ASSUME NEW sig \in Accounts, NEW k \in Amounts, NEW id \in DOMAIN sales,
             SubRushSale(sig, id, k), UNCHANGED now
      PROVE  StoreKept
  <2>1. sales[id].ticket_id \in Nids
    BY DEF GrabInv, Balanced, SaleOK, RushSale
  <2> QED
    BY <1>1, <1>2, <2>1, BackStore DEF SubRushSale
<1>3. ASSUME NEW sig \in Accounts, NEW k \in Amounts, NEW id \in DOMAIN upgrades,
             SubRushUpgrade(sig, id, k), UNCHANGED now
      PROVE  StoreKept
  <2>1. upgrades[id].ticket_id \in Nids
    BY DEF GrabInv, Balanced, UpgradeOK, RushUpgrade
  <2> QED
    BY <1>1, <1>3, <2>1, BackStore DEF SubRushUpgrade
<1> QED
  BY <1>2, <1>3 DEF TakeBack

\* What the items of one call stock.
LEMMA OrderedIsNat ==
  ASSUME NEW items \in Rushes, NEW n
  PROVE  /\ Ordered(items, n) \in Nat
         /\ Ordered(items, n) > 0 => \E i \in DOMAIN items : items[i].nid = n
<1> DEFINE D == DOMAIN items
           f == [i \in D |-> IF items[i].nid = n THEN items[i].count ELSE 0]
<1>1. /\ items \in Seq(SaleItem \cup UpgradeItem)
  BY ShowmanAssumption DEF ShowmanAssumption
<1>2. /\ D = 1..Len(items) /\ Len(items) \in Nat
      /\ \A i \in D : items[i] \in SaleItem \cup UpgradeItem
  BY <1>1
<1>3. IsFiniteSet(D) /\ f \in [D -> Nat]
  <2>1. IsFiniteSet(D)
    BY <1>2, FS_Interval
  <2>2. \A i \in D : items[i].count \in Nat
    BY <1>2 DEF SaleItem, UpgradeItem
  <2> QED
    BY <2>1, <2>2
<1>4. (\A i \in D : items[i].nid # n) => \A i \in D : f[i] = 0
  OBVIOUS
<1>5. Ordered(items, n) = SumFunction(f)
  BY DEF Ordered, Sent
<1> HIDE DEF D, f
<1>6. SumFunction(f) \in Nat
  BY <1>3, SumIsNat
<1>7. (\A i \in D : f[i] = 0) => SumFunction(f) = 0
  BY <1>3, SumOfZeros
<1> QED
  BY <1>4, <1>5, <1>6, <1>7 DEF D

\* Every grade of show s hands over what moved says of its type.
LEMMA HandedStock ==
  ASSUME Books, IsFiniteSet(DOMAIN tickets), NEW s, NEW moved \in [Nids -> Nat],
         tickets' = [t \in DOMAIN tickets |->
           IF t[1] = s THEN HandedOver(tickets[t], moved[t[2]]) ELSE tickets[t]],
         NEW n \in Nids, moved[n] > 0 => <<s, n>> \in DOMAIN tickets
  PROVE  StockOf(n)' = StockOf(n) - moved[n]
<1> DEFINE D == DOMAIN tickets
           f == [t \in D |-> IF t[2] = n THEN tickets[t].stock_count ELSE 0]
           g == [t \in D |-> IF t[2] = n THEN tickets'[t].stock_count ELSE 0]
           x == <<s, n>>
<1>1. D \subseteq ShowIds \X Nids /\ \A t \in D : tickets[t] \in Ticket
  BY DEF Books, BooksOK
<1>2. \A t \in D : tickets[t].stock_count \in Int
  BY <1>1 DEF Ticket
<1>3. DOMAIN tickets' = D
  OBVIOUS
<1>4. \A t \in D : t[1] = s => tickets'[t].stock_count = tickets[t].stock_count - moved[t[2]]
  BY <1>1 DEF HandedOver, Ticket
<1>5. \A t \in D : t[1] # s => tickets'[t] = tickets[t]
  OBVIOUS
<1>6. \A t \in D : t[2] \in Nids /\ t = <<t[1], t[2]>>
  BY <1>1
<1>7. \A t \in D : tickets'[t].stock_count \in Int
  BY <1>2, <1>4, <1>5, <1>6
<1>8. f \in [D -> Int] /\ g \in [D -> Int]
  BY <1>2, <1>7
<1>9. StockOf(n) = SumFunction(f) /\ StockOf(n)' = SumFunction(g)
  BY <1>3 DEF StockOf
<1>10. \A t \in D \ {x} : g[t] = f[t]
  BY <1>5, <1>6
<1>11. CASE x \in D
  <2>1. PICK d \in Int : d = - moved[n]
    OBVIOUS
  <2>2. g[x] = f[x] + d
    BY <1>2, <1>4, <1>11, <2>1
  <2>3. IsFiniteSet(D)
    OBVIOUS
  <2> HIDE DEF f, g, x, D
  <2>4. SumFunction(g) = SumFunction(f) + d
    BY <1>8, <1>10, <1>11, <2>1, <2>2, <2>3, SumMoves
  <2>5. SumFunction(f) \in Int
    BY <1>8, <2>3, SumIsInt
  <2> QED
    BY <1>9, <2>1, <2>4, <2>5
<1>12. CASE x \notin D
  <2>1. moved[n] = 0
    BY <1>12
  <2>2. f = g
    BY <1>8, <1>10, <1>12
  <2>3. SumFunction(f) \in Int
    <3> HIDE DEF f
    <3> QED
      BY <1>8, SumIsInt
  <2> HIDE DEF f, g
  <2> QED
    BY <1>9, <2>1, <2>2, <2>3
<1> QED
  BY <1>11, <1>12

\* addupgrades hands the stock of all its campaigns over at once.
LEMMA AddUpgradesStore ==
  ASSUME ShowInv, Holdings, NEW s \in ShowIds, NEW items \in Rushes,
         AddUpgrades(s, items)
  PROVE  StoreKept
<1> DEFINE moved == [n \in Nids |-> Ordered(items, n)]
<1>1. moved \in [Nids -> Nat]
  <2>1. \A n \in Nids : Ordered(items, n) \in Nat
    BY OrderedIsNat
  <2> QED
    BY <2>1
<1>2. /\ \A n \in Nids : moved[n] > 0 => HasStock(s, n, moved[n])
      /\ CanMove(bal, SHOW, GRAB, moved) /\ bal' = Move(bal, SHOW, GRAB, moved)
      /\ tickets' = [t \in DOMAIN tickets |->
           IF t[1] = s THEN HandedOver(tickets[t], moved[t[2]]) ELSE tickets[t]]
      /\ UNCHANGED <<now, showGlobal, shows, nstats>>
  BY DEF AddUpgrades, Ordered
<1>3. \A n \in Nids : moved[n] > 0 => <<s, n>> \in DOMAIN tickets
  <2> TAKE n \in Nids
  <2>1. SUFFICES ASSUME Ordered(items, n) > 0
                 PROVE  <<s, n>> \in DOMAIN tickets
    OBVIOUS
  <2>2. PICK i \in DOMAIN items : items[i].nid = n
    BY <2>1, OrderedIsNat
  <2> QED
    BY <2>2 DEF AddUpgrades, CanAddSale, CanAddUpgrade
<1> HIDE DEF moved
<1>4. \A t \in DOMAIN tickets : BooksOK(tickets'[t], t[2])
  <2> TAKE t \in DOMAIN tickets
  <2>1. BooksOK(tickets[t], t[2]) /\ t \in ShowIds \X Nids
    BY DEF ShowInv, Books
  <2>2. t[2] \in Nids /\ t = <<t[1], t[2]>> /\ moved[t[2]] \in Nat
    BY <1>1, <2>1
  <2>3. CASE t[1] = s
    <3>1. tickets[t].stock_count >= moved[t[2]]
      BY <1>2, <2>1, <2>2, <2>3 DEF HasStock, BooksOK, Ticket
    <3>2. BooksOK(HandedOver(tickets[t], moved[t[2]]), t[2])
      BY <2>1, <2>2, <3>1, HandedOverOK
    <3> QED
      BY <1>2, <2>3, <3>2
  <2>4. CASE t[1] # s
    BY <1>2, <2>1, <2>4
  <2> QED
    BY <2>3, <2>4
<1>5. Books'
  <2>1. DOMAIN tickets' = DOMAIN tickets /\ UNCHANGED nstats
    BY <1>2
  <2>2. DOMAIN tickets \subseteq ShowIds \X Nids
    BY DEF ShowInv, Books
  <2> QED
    BY <1>4, <2>1, <2>2 DEF Books, BooksOK, Supply
<1>6. ShowInv'
  BY <1>2, <1>5 DEF ShowInv, Calendar, StatsBounded
<1>7. /\ IsHoldings(bal')
      /\ \A n \in Nids : bal'[SHOW][n] = bal[SHOW][n] - moved[n]
  BY <1>1, <1>2, Parties, MoveKeeps DEF Holdings
<1>8. Holdings'
  BY <1>2, <1>7 DEF Holdings
<1>9. ASSUME NEW n \in Nids
      PROVE  bal[SHOW][n] - StockOf(n) <= bal'[SHOW][n] - StockOf(n)'
  <2>1. StockOf(n)' = StockOf(n) - moved[n]
    BY <1>1, <1>2, <1>3, HandedStock DEF ShowInv, Holdings
  <2>2. StockOf(n) \in Nat
    BY StockIsNat DEF ShowInv, Holdings
  <2>3. bal[SHOW][n] \in Nat /\ moved[n] \in Nat
    BY <1>1, Parties DEF Holdings, IsHoldings
  <2> QED
    BY <1>7, <2>1, <2>2, <2>3
<1> QED
  BY <1>6, <1>8, <1>9 DEF StoreKept, SurplusKept

\* publishshow mints each type that it lists.
LEMMA PublishLedger ==
  ASSUME StatsBounded, NEW s \in ShowIds, NEW dates, NEW free, NEW grades \in Posters,
         PublishShow(s, dates, free, grades)
  PROVE  /\ StatsBounded'
         /\ \A n \in DOMAIN grades : Supply(n)' = grades[n].count
         /\ \A n : Supply(n)' >= Supply(n)
<1> DEFINE nids == DOMAIN grades
           cap(n) == 10 * grades[n].count
           row(n) == [supply |-> grades[n].count, max_supply |-> cap(n),
                      token_uri |-> grades[n].uri, ipowner |-> SHOW,
                      notary |-> NoName, issuer |-> SHOW]
<1>1. /\ nids \subseteq Nids
      /\ \A n \in nids : /\ grades[n].count \in Nat /\ grades[n].uri \in Uris
                         /\ cap(n) < CountMod
  BY ShowmanAssumption DEF ShowmanAssumption
<1>2. \A n \in nids : cap(n) \in Nat /\ grades[n].count <= cap(n)
  BY <1>1
<1>3. nids \cap DOMAIN nstats = {} /\ nstats' = PutAll(nstats, [n \in nids |-> row(n)])
  BY DEF PublishShow
<1>4. SHOW \in Accounts
  BY Parties
<1> HIDE DEF cap
<1>5. \A n \in nids : row(n) \in NStat /\ row(n).supply \in 0..row(n).max_supply
                      /\ row(n).max_supply < CountMod
  BY <1>1, <1>2, <1>4 DEF NStat
<1>6. /\ DOMAIN nstats' = DOMAIN nstats \cup nids
      /\ \A n \in DOMAIN nstats : nstats'[n] = nstats[n]
      /\ \A n \in nids : nstats'[n] = row(n)
  BY <1>3 DEF PutAll
<1>7. StatsBounded'
  <2>1. DOMAIN nstats' \subseteq Nids
    BY <1>1, <1>6 DEF StatsBounded
  <2>2. \A n \in DOMAIN nstats' :
          /\ nstats'[n] \in NStat
          /\ nstats'[n].supply \in 0..nstats'[n].max_supply
          /\ nstats'[n].max_supply < CountMod
    <3> HIDE DEF row
    <3> QED
      BY <1>5, <1>6 DEF StatsBounded
  <2> QED
    BY <2>1, <2>2 DEF StatsBounded
<1>8. \A n \in nids : Supply(n)' = grades[n].count /\ Supply(n) = 0
  BY <1>3, <1>6 DEF Supply
<1>9. \A n : n \notin nids => Supply(n)' = Supply(n)
  BY <1>6 DEF Supply
<1>10. \A n : Supply(n) \in Nat
  BY SupplyBounds
<1>11. \A n : Supply(n)' >= Supply(n)
  BY <1>1, <1>8, <1>9, <1>10
<1> QED
  BY <1>7, <1>8, <1>11

\* The rows it opens the books with.
LEMMA PublishRows ==
  ASSUME StatsBounded, Books, NEW s \in ShowIds, NEW dates, NEW free, NEW grades \in Posters,
         PublishShow(s, dates, free, grades)
  PROVE  /\ Books'
         /\ DOMAIN tickets' = DOMAIN tickets \cup ({s} \X DOMAIN grades)
         /\ DOMAIN tickets \cap ({s} \X DOMAIN grades) = {}
         /\ \A t \in DOMAIN tickets : tickets'[t] = tickets[t]
         /\ \A n \in DOMAIN grades : tickets'[<<s, n>>].stock_count = grades[n].count
<1> DEFINE nids == DOMAIN grades
           row(n) == Minted(FreshGrade(grades[n].usdt, grades[n].window), grades[n].count)
           cap(n) == 10 * grades[n].count
<1>1. /\ nids \subseteq Nids
      /\ \A n \in nids :
           /\ grades[n].count \in Nat /\ grades[n].usdt \in UsdtPrices
           /\ grades[n].window \in SaleWindows /\ cap(n) < CountMod
  BY ShowmanAssumption DEF ShowmanAssumption
<1>2. \A n \in nids : grades[n].count < CountMod
  <2>1. CountMod \in Nat
    BY CountAssumption DEF CountAssumption
  <2> QED
    BY <1>1, <2>1
<1>3. /\ tickets' = PutAll(tickets, [t \in {s} \X nids |-> row(t[2])])
      /\ \A n \in nids : <<s, n>> \notin DOMAIN tickets
  BY DEF PublishShow, CanList
<1>4. \A t \in {s} \X nids : t = <<s, t[2]>> /\ t[2] \in nids
  OBVIOUS
<1>5. \A n \in nids : /\ row(n) \in Ticket
                      /\ row(n).stock_count = grades[n].count
                      /\ row(n).total_count = grades[n].count
                      /\ row(n).sold_count = 0 /\ row(n).issued_count = 0
  <2> TAKE n \in nids
  <2>1. Wrap(0 + grades[n].count) = grades[n].count
    BY <1>1, <1>2, WrapSmall
  <2>2. /\ grades[n].usdt \in Nat /\ grades[n].window \in Nat \X Nat
    BY <1>1, ShowAssumption DEF ShowAssumption
  <2> QED
    BY <1>1, <2>1, <2>2 DEF Minted, FreshGrade, Ticket
<1> HIDE DEF row
<1>6. /\ DOMAIN tickets' = DOMAIN tickets \cup ({s} \X nids)
      /\ DOMAIN tickets \cap ({s} \X nids) = {}
      /\ \A t \in DOMAIN tickets : tickets'[t] = tickets[t]
      /\ \A t \in {s} \X nids : tickets'[t] = row(t[2])
  BY <1>3, <1>4 DEF PutAll
<1>7. \A n \in nids : tickets'[<<s, n>>] = row(n)
  BY <1>6
<1>8. /\ \A n \in nids : Supply(n)' = grades[n].count
      /\ \A n : Supply(n)' >= Supply(n)
      /\ \A n : Supply(n) \in Nat
      /\ StatsBounded'
  BY PublishLedger, SupplyBounds
<1>9. Books'
  <2>1. DOMAIN tickets' \subseteq ShowIds \X Nids
    BY <1>1, <1>6 DEF Books
  <2>2. ASSUME NEW t \in DOMAIN tickets'
        PROVE  /\ tickets'[t] \in Ticket
               /\ tickets'[t].stock_count <= tickets'[t].total_count
               /\ tickets'[t].total_count <= Supply(t[2])'
               /\ tickets'[t].issued_count = tickets'[t].sold_count
               /\ tickets'[t].sold_count <= Supply(t[2])'
    <3>1. CASE t \in DOMAIN tickets
      <4>1. BooksOK(tickets[t], t[2]) /\ tickets'[t] = tickets[t]
        BY <1>6, <3>1 DEF Books
      <4>2. Supply(t[2])' >= Supply(t[2]) /\ Supply(t[2]) \in Nat
        BY <1>8
      <4>3. Supply(t[2])' \in Int
        <5>1. CASE t[2] \in nids
          BY <1>1, <1>8, <5>1
        <5>2. CASE t[2] \notin nids
          BY <1>8, <5>2 DEF StatsBounded, NStat, Supply
        <5> QED
          BY <5>1, <5>2
      <4> QED
        BY <4>1, <4>2, <4>3 DEF BooksOK, Ticket
    <3>2. CASE t \in {s} \X nids
      BY <1>1, <1>4, <1>5, <1>6, <1>8, <3>2
    <3> QED
      BY <1>6, <3>1, <3>2
  <2> QED
    BY <2>1, <2>2 DEF Books, BooksOK
<1> QED
  BY <1>5, <1>6, <1>7, <1>9

\* The stock it adds is what it mints.
LEMMA PublishStock ==
  ASSUME ShowInv, Holdings, NEW s \in ShowIds, NEW dates, NEW free, NEW grades \in Posters,
         PublishShow(s, dates, free, grades), NEW n
  PROVE  StockOf(n)' = StockOf(n) + (IF n \in DOMAIN grades THEN grades[n].count ELSE 0)
<1> DEFINE nids == DOMAIN grades
           N == {s} \X nids
           D == DOMAIN tickets
           E == DOMAIN tickets'
           f == [t \in D |-> IF t[2] = n THEN tickets[t].stock_count ELSE 0]
           h == [t \in E |-> IF t[2] = n THEN tickets'[t].stock_count ELSE 0]
           k == [t \in N |-> IF t[2] = n THEN tickets'[t].stock_count ELSE 0]
<1>1. IsFiniteSet(nids) /\ \A m \in nids : grades[m].count \in Nat
  BY ShowmanAssumption DEF ShowmanAssumption
<1>2. /\ Books' /\ E = D \cup N /\ D \cap N = {}
      /\ \A t \in D : tickets'[t] = tickets[t]
      /\ \A m \in nids : tickets'[<<s, m>>].stock_count = grades[m].count
  BY PublishRows DEF ShowInv
<1>3. IsFiniteSet(D) /\ IsFiniteSet(N) /\ IsFiniteSet(E)
  <2>1. IsFiniteSet({s}) /\ IsFiniteSet(D)
    BY FS_Singleton DEF Holdings
  <2>2. IsFiniteSet(N)
    BY <1>1, <2>1, FS_Product
  <2>3. IsFiniteSet(D \cup N)
    <3> HIDE DEF D, N
    <3> QED
      BY <2>1, <2>2, FS_Union
  <2> QED
    BY <1>2, <2>1, <2>2, <2>3
<1>4. /\ \A t \in D : tickets[t].stock_count \in Int
      /\ \A t \in E : tickets'[t].stock_count \in Int
  BY <1>2 DEF ShowInv, Books, BooksOK, Ticket
<1>5. h \in [E -> Int] /\ f \in [D -> Int] /\ k \in [N -> Int] /\ DOMAIN f = D /\ DOMAIN k = N
  BY <1>2, <1>4
<1>6. /\ \A t \in D : h[t] = f[t]
  BY <1>2
<1>7. \A t \in N : h[t] = k[t]
  BY <1>2
<1>8. StockOf(n) = SumFunction(f) /\ StockOf(n)' = SumFunction(h)
  BY DEF StockOf
<1>9. D \in SUBSET E /\ E \ D = N
  BY <1>2
<1>10. SumFunction(k) = IF n \in nids THEN grades[n].count ELSE 0
  <2>1. CASE n \in nids
    <3> DEFINE x == <<s, n>>
    <3>1. /\ x \in N /\ k[x] = grades[n].count
          /\ \A t \in N \ {x} : k[t] = 0
      BY <1>2, <2>1
    <3> HIDE DEF k, N, x
    <3>2. SumFunction(k) = k[x]
      BY <1>3, <1>5, <3>1, SumOfOne
    <3> QED
      BY <2>1, <3>1, <3>2
  <2>2. CASE n \notin nids
    <3>1. \A t \in N : k[t] = 0
      BY <2>2
    <3> HIDE DEF k, N
    <3> QED
      BY <1>3, <1>5, <2>2, <3>1, SumOfZeros
  <2> QED
    BY <2>1, <2>2
<1> HIDE DEF f, h, k, D, N, E
<1>11. SumFunction(h) = SumFunctionOnSet(h, D) + SumFunctionOnSet(h, N)
  BY <1>3, <1>5, <1>9, SumOnParts
<1>12. SumFunctionOnSet(h, D) = SumFunction(f) /\ SumFunctionOnSet(h, N) = SumFunction(k)
  BY <1>3, <1>5, <1>6, <1>7, SumOfTable
<1> QED
  BY <1>8, <1>10, <1>11, <1>12

\* A published show stocks what it mints.
LEMMA PublishStore ==
  ASSUME ShowInv, Holdings, NEW s \in ShowIds, NEW dates \in ShowDates, NEW free,
         NEW grades \in Posters, PublishShow(s, dates, free, grades)
  PROVE  StoreKept
<1> DEFINE nids == DOMAIN grades
           more(n) == IF n \in nids THEN grades[n].count ELSE 0
<1>1. /\ shows' = Put(shows, s, [show_started_at |-> dates[1], show_ended_at |-> dates[2]])
      /\ bal' = [bal EXCEPT ![SHOW] = [n \in Nids |-> @[n] + more(n)]]
      /\ UNCHANGED <<now, showGlobal>>
  BY DEF PublishShow
<1>2. /\ StatsBounded' /\ Books'
      /\ DOMAIN tickets' = DOMAIN tickets \cup ({s} \X nids)
  BY PublishLedger, PublishRows DEF ShowInv
<1>3. dates[1] \in Nat /\ dates[2] \in Nat
  BY ShowAssumption DEF ShowAssumption
<1>4. Calendar'
  BY <1>1, <1>3 DEF ShowInv, Calendar, Put
<1>5. ShowInv'
  BY <1>2, <1>4 DEF ShowInv
<1>6. IsFiniteSet(nids) /\ \A n \in Nids : more(n) \in Nat
  BY ShowmanAssumption DEF ShowmanAssumption
<1> HIDE DEF more
<1>7. /\ IsHoldings(bal')
      /\ \A n \in Nids : bal'[SHOW][n] = bal[SHOW][n] + more(n)
  BY <1>1, <1>6, Parties DEF Holdings, IsHoldings
<1>8. IsFiniteSet(DOMAIN tickets')
  <2> DEFINE D == DOMAIN tickets
             N == {s} \X nids
  <2>1. IsFiniteSet(N) /\ IsFiniteSet(D)
    BY <1>6, FS_Singleton, FS_Product DEF Holdings
  <2>2. IsFiniteSet(D \cup N)
    <3> HIDE DEF D, N
    <3> QED
      BY <2>1, FS_Union
  <2> QED
    BY <1>2, <2>2
<1>9. ASSUME NEW n \in Nids
      PROVE  bal[SHOW][n] - StockOf(n) <= bal'[SHOW][n] - StockOf(n)'
  <2>1. StockOf(n)' = StockOf(n) + more(n)
    BY PublishStock DEF more
  <2>2. StockOf(n) \in Nat
    BY StockIsNat DEF ShowInv, Holdings
  <2>3. bal[SHOW][n] \in Nat
    BY Parties DEF Holdings, IsHoldings
  <2> QED
    BY <1>6, <1>7, <2>1, <2>2, <2>3
<1> QED
  BY <1>5, <1>7, <1>8, <1>9 DEF StoreKept, Holdings, SurplusKept

\* Every step of the four contracts keeps the books and the surplus of
\* show.cisum.
LEMMA StoreStep ==
  ASSUME ShowInv, Holdings, GrabInv, [Next]_vars
  PROVE  StoreKept
<1>1. \A m \in Nids : bal[SHOW][m] \in Int
  BY Parties DEF Holdings, IsHoldings
<1>2. CASE ShowSide \/ Ledger \/ UNCHANGED vars
  <2>1. [ShowNext]_<<now, showVars, nftVars>>
    BY <1>2 DEF ShowSide, Ledger, ShowNext, vars
  <2> QED
    BY <2>1, SurplusStep DEF StoreKept
<1>3. CASE Showman
  BY <1>3, PublishStore, AddUpgradesStore DEF Showman
<1>4. CASE Draw
  BY <1>4, GrabStore, UpgradeDrawStore DEF Draw
<1>5. CASE Campaigns \/ GrabConfig
  <2>1. UNCHANGED <<now, showVars, nftVars>>
    BY <1>5 DEF Campaigns, GrabConfig
  <2> QED
    BY <1>1, <2>1, LedgerOnly DEF nftVars, Holdings
<1> QED
  BY <1>2, <1>3, <1>4, <1>5, RestockStore, CleanupStore, TakeBackStore DEF Next

\* The opening stock is what show.cisum owns.
LEMMA StoreStart == Init => ShowInv /\ Holdings /\ StockBacked
<1> SUFFICES ASSUME Init PROVE ShowInv /\ Holdings /\ StockBacked
  OBVIOUS
<1> DEFINE Opened == DOMAIN OpenGrades
           key(n) == <<OpenGrades[n].show, n>>
           grades == {key(n) : n \in Opened}
<1>1. /\ now = 0
      /\ nstats = [n \in Opened |->
           [supply |-> OpenGrades[n].stock + Given(n),
            max_supply |-> OpenGrades[n].max, token_uri |-> OpenGrades[n].uri,
            ipowner |-> SHOW, notary |-> NoName, issuer |-> SHOW]]
      /\ bal = [a \in Accounts |-> [n \in Nids |->
           IF a = SHOW /\ n \in Opened THEN OpenGrades[n].stock ELSE HeldBy(a, n)]]
      /\ showGlobal = [admin |-> NoName, nft_bank |-> TICKET]
      /\ shows = [s \in {t[1] : t \in grades} |->
                    [show_started_at |-> 1, show_ended_at |-> 0]]
      /\ tickets = [t \in grades |->
           [price_usdt |-> OpenGrades[t[2]].usdt,
            total_count |-> OpenGrades[t[2]].stock + Given(t[2]),
            sold_count |-> Given(t[2]), stock_count |-> OpenGrades[t[2]].stock,
            issued_count |-> Given(t[2]),
            sale_started_at |-> OpenGrades[t[2]].window[1],
            sale_ended_at |-> OpenGrades[t[2]].window[2]]]
  BY DEF Init
<1>2. /\ Opened \subseteq Nids /\ IsFiniteSet(Opened)
      /\ \A n \in Opened :
           /\ OpenGrades[n].show \in ShowIds /\ OpenGrades[n].stock \in Nat
           /\ OpenGrades[n].max \in Nat /\ OpenGrades[n].uri \in Uris
           /\ OpenGrades[n].usdt \in Nat /\ OpenGrades[n].window[1] \in Nat
           /\ OpenGrades[n].window[2] \in Nat
           /\ OpenGrades[n].stock + Given(n) <= OpenGrades[n].max
           /\ OpenGrades[n].max < CountMod
  BY OpeningAssumption DEF OpeningAssumption, Opening
<1>3. \A n \in Nids : Given(n) \in Nat
  <2> TAKE n \in Nids
  <2> DEFINE f == [a \in Fans |-> Held[a][n]]
  <2>1. f \in [Fans -> Nat]
    BY OpeningAssumption DEF OpeningAssumption
  <2>2. IsFiniteSet(Fans)
    BY Parties, NftAssumption, FS_Subset DEF NftAssumption
  <2> HIDE DEF f
  <2>3. SumFunction(f) \in Nat
    BY <2>1, <2>2, SumIsNat
  <2> QED
    BY <2>3 DEF Given, f
<1>4. /\ \A t \in grades : t = key(t[2]) /\ t[2] \in Opened
      /\ \A n \in Opened : key(n) \in grades /\ key(n)[2] = n
  OBVIOUS
<1>5. DOMAIN tickets = grades /\ DOMAIN nstats = Opened
  BY <1>1
<1>6. StatsBounded
  BY <1>1, <1>2, <1>3, Parties DEF StatsBounded, NStat
<1>7. \A n \in Opened : Supply(n) = OpenGrades[n].stock + Given(n)
  BY <1>1 DEF Supply
<1>8. Books
  <2>1. ASSUME NEW t \in grades
        PROVE  t \in ShowIds \X Nids /\ BooksOK(tickets[t], t[2])
    <3>1. t = key(t[2]) /\ t[2] \in Opened
      BY <1>4
    <3>2. /\ OpenGrades[t[2]].stock \in Nat /\ Given(t[2]) \in Nat
          /\ Supply(t[2]) = OpenGrades[t[2]].stock + Given(t[2])
      BY <1>2, <1>3, <1>7, <3>1
    <3>3. t \in ShowIds \X Nids
      BY <1>2, <3>1
    <3> HIDE DEF grades, key
    <3>4. BooksOK(tickets[t], t[2])
      BY <1>1, <1>2, <3>1, <3>2 DEF BooksOK, Ticket
    <3> QED
      BY <3>3, <3>4
  <2> QED
    BY <1>5, <2>1 DEF Books
<1>9. Calendar
  <2>1. 0 \in 0..MaxTime /\ TICKET \in {NoName, TICKET}
    BY ShowAssumption DEF ShowAssumption
  <2>2. \A s \in DOMAIN shows : s \in ShowIds
    BY <1>1, <1>2, <1>4
  <2> QED
    BY <1>1, <2>1, <2>2 DEF Calendar
<1>10. IsHoldings(bal)
  <2>1. \A a \in Accounts, n \in Nids : HeldBy(a, n) \in Nat
    BY OpeningAssumption DEF HeldBy, OpeningAssumption
  <2> QED
    BY <1>1, <1>2, <2>1 DEF IsHoldings
<1>11. IsFiniteSet(grades)
  <2> DEFINE f == [n \in Opened |-> key(n)]
  <2>1. f \in Surjection(Opened, grades)
    BY <1>4 DEF Surjection
  <2> HIDE DEF f, grades
  <2> QED
    BY <1>2, <2>1, FS_Surjection
<1>12. ASSUME NEW n \in Nids
       PROVE  StockOf(n) <= bal[SHOW][n]
  <2> DEFINE f == [t \in grades |-> IF t[2] = n THEN tickets[t].stock_count ELSE 0]
  <2>1. \A t \in grades : tickets[t].stock_count \in Nat
    BY <1>5, <1>8 DEF Books, BooksOK, Ticket
  <2>2. f \in [grades -> Int] /\ StockOf(n) = SumFunction(f)
    BY <1>5, <2>1 DEF StockOf
  <2>3. bal[SHOW][n] = IF n \in Opened THEN OpenGrades[n].stock ELSE HeldBy(SHOW, n)
    BY <1>1, Parties
  <2>4. CASE n \in Opened
    <3> DEFINE x == key(n)
    <3>1. x \in grades /\ x[2] = n /\ \A t \in grades \ {x} : t[2] # n
      BY <1>4, <2>4
    <3>2. tickets[x].stock_count = OpenGrades[n].stock
      BY <1>1, <3>1
    <3>3. f[x] = OpenGrades[n].stock /\ \A t \in grades \ {x} : f[t] = 0
      BY <3>1, <3>2
    <3> HIDE DEF x, f, grades
    <3>4. SumFunction(f) = f[x]
      BY <1>11, <2>2, <3>1, <3>3, SumOfOne
    <3> QED
      BY <1>2, <2>2, <2>3, <2>4, <3>3, <3>4
  <2>5. CASE n \notin Opened
    <3>1. \A t \in grades : f[t] = 0
      BY <1>4, <2>5
    <3> HIDE DEF f, grades
    <3>2. SumFunction(f) = 0
      BY <1>11, <2>2, <3>1, SumOfZeros
    <3>3. HeldBy(SHOW, n) = 0
      BY ShowAssumption DEF ShowAssumption, HeldBy
    <3> QED
      BY <2>2, <2>3, <2>5, <3>2, <3>3
  <2> QED
    BY <2>4, <2>5
<1> QED
  BY <1>5, <1>6, <1>8, <1>9, <1>10, <1>11, <1>12 DEF ShowInv, Holdings, StockBacked

\* The invariant of the four contracts together.
StoreInv == ShowInv /\ Holdings /\ StockBacked

\* Every step keeps the books of show.cisum and what backs them.
LEMMA StoreInvStep ==
  ASSUME StoreInv, GrabInv, [Next]_vars
  PROVE  StoreInv'
<1>1. StoreKept
  BY StoreStep DEF StoreInv
<1> QED
  BY <1>1, BackedKept DEF StoreInv, StoreKept

\* Every ticket in stock is there to be sent, with rush sales, upgrades,
\* cisumshowman and their returns running, over all shows of a type.
THEOREM StockStaysBacked == Spec => []StockBacked
<1>1. StoreInv => StockBacked
  BY DEF StoreInv
<1> QED
  BY <1>1, CirculationStart, CirculationStep, StoreStart, StoreInvStep, PTL DEF Spec, StoreInv

-----------------------------------------------------------------------------
(***************************************************************************)
(* Conservation: the four contracts neither make nor lose a ticket.        *)
(***************************************************************************)

\* What two accounts have between them stays, and the others rest.
LEMMA HeldByPair ==
  ASSUME NEW b, NEW new, NEW n \in Nids, NEW x \in Accounts, NEW y \in Accounts \ {x},
         IsHoldings(b), IsHoldings(new), new[x][n] + new[y][n] = b[x][n] + b[y][n],
         \A a \in Accounts \ {x, y} : new[a][n] = b[a][n]
  PROVE  TotalHeld(new, n) = TotalHeld(b, n)
<1> DEFINE f == [a \in Accounts |-> b[a][n]]
           g == [a \in Accounts |-> new[a][n]]
<1>1. f \in [Accounts -> Int] /\ g \in [Accounts -> Int] /\ IsFiniteSet(Accounts)
  BY NftAssumption DEF IsHoldings, NftAssumption
<1>2. \A a \in Accounts \ {x, y} : g[a] = f[a]
  OBVIOUS
<1>3. g[x] + g[y] = f[x] + f[y]
  OBVIOUS
<1>4. TotalHeld(b, n) = SumFunction(f) /\ TotalHeld(new, n) = SumFunction(g)
  BY DEF TotalHeld
<1> HIDE DEF f, g
<1>5. SumFunction(g) = SumFunction(f) - f[x] - f[y] + g[x] + g[y]
  BY <1>1, <1>2, SumChangeTwoKeys
<1>6. /\ SumFunction(f) \in Int /\ f[x] \in Int /\ f[y] \in Int /\ g[x] \in Int /\ g[y] \in Int
  BY <1>1, SumIsInt
<1> QED
  BY <1>3, <1>4, <1>5, <1>6

\* One account hands out to the others, each its part.
LEMMA HandedOut ==
  ASSUME NEW b, NEW new, NEW n \in Nids, NEW x \in Accounts, NEW part \in [Accounts -> Int],
         part[x] = 0, IsHoldings(b), IsHoldings(new),
         new[x][n] = b[x][n] - SumFunction(part),
         \A a \in Accounts \ {x} : new[a][n] = b[a][n] + part[a]
  PROVE  TotalHeld(new, n) = TotalHeld(b, n)
<1> DEFINE f == [a \in Accounts |-> b[a][n]]
           g == [a \in Accounts |-> new[a][n]]
           h == [a \in Accounts |-> b[a][n] + part[a]]
           d == 0 - SumFunction(part)
<1>1. /\ f \in [Accounts -> Int] /\ g \in [Accounts -> Int] /\ h \in [Accounts -> Int]
      /\ IsFiniteSet(Accounts)
  BY NftAssumption DEF IsHoldings, NftAssumption
<1>2. SumFunction(part) \in Int
  BY <1>1, SumIsInt
<1>3. \A a \in Accounts : h[a] = f[a] + part[a]
  OBVIOUS
<1>4. g[x] = h[x] + d /\ \A a \in Accounts \ {x} : g[a] = h[a]
  <2>1. b[x][n] \in Int /\ h[x] = b[x][n] + 0 /\ g[x] = b[x][n] - SumFunction(part)
    BY DEF IsHoldings
  <2> QED
    BY <1>2, <2>1
<1>5. TotalHeld(b, n) = SumFunction(f) /\ TotalHeld(new, n) = SumFunction(g)
  BY DEF TotalHeld
<1>6. d \in Int
  BY <1>2
<1> HIDE DEF f, g, h, d
<1>7. SumFunction(h) = SumFunction(f) + SumFunction(part)
  BY <1>1, <1>3, SumPlus
<1>8. SumFunction(g) = SumFunction(h) + d
  BY <1>1, <1>4, <1>6, SumMoves
<1>9. SumFunction(f) \in Int
  BY <1>1, SumIsInt
<1> QED
  BY <1>2, <1>5, <1>7, <1>8, <1>9 DEF d

\* Tickets change hands and no row of the ledger its supply.
LEMMA TradeAddsUp ==
  ASSUME AddsUp, UNCHANGED nstats, \A n \in Nids : TotalHeld(bal', n) = TotalHeld(bal, n)
  PROVE  AddsUp'
BY DEF AddsUp, Supply

\* One batch transfer.
LEMMA MoveAddsUp ==
  ASSUME NEW a \in Accounts, NEW c \in Accounts, NEW moved \in [Nids -> Nat],
         IsHoldings(bal), AddsUp, CanMove(bal, a, c, moved), bal' = Move(bal, a, c, moved),
         UNCHANGED nstats
  PROVE  AddsUp'
<1>1. a # c
  BY DEF CanMove
<1>2. /\ IsHoldings(bal')
      /\ \A n \in Nids : bal'[a][n] = bal[a][n] - moved[n]
      /\ \A n \in Nids : bal'[c][n] = bal[c][n] + moved[n]
      /\ \A d \in Accounts \ {a, c}, n \in Nids : bal'[d][n] = bal[d][n]
  BY MoveKeeps
<1>3. ASSUME NEW n \in Nids
      PROVE  TotalHeld(bal', n) = TotalHeld(bal, n)
  <2>1. bal[a][n] \in Int /\ bal[c][n] \in Int /\ moved[n] \in Int
    BY DEF IsHoldings
  <2>2. bal'[a][n] + bal'[c][n] = bal[a][n] + bal[c][n]
    BY <1>2, <2>1
  <2> QED
    BY <1>1, <1>2, <2>2, HeldByPair
<1> QED
  BY <1>3, TradeAddsUp

\* A transfer of one type, as the contracts send.
LEMMA SentAddsUp ==
  ASSUME NEW a \in Accounts, NEW c \in Accounts, NEW n, NEW k \in Nat,
         IsHoldings(bal), AddsUp, NftTransfer(a, c, Single(n, k))
  PROVE  AddsUp'
<1>1. Single(n, k) \in [Nids -> Nat]
  BY DEF Single
<1> QED
  BY <1>1, MoveAddsUp DEF NftTransfer

\* A payment out of grab.cisum.
LEMMA PaidAddsUp ==
  ASSUME NEW u \in Accounts, NEW n, NEW k \in Nat,
         IsHoldings(bal), AddsUp, PayOut(u, Single(n, k))
  PROVE  AddsUp'
<1>1. CASE PaysTickets
  BY <1>1, Parties, SentAddsUp DEF PayOut
<1>2. CASE ~PaysTickets
  BY <1>2, TradeAddsUp DEF PayOut, nftVars
<1> QED
  BY <1>1, <1>2

\* batchreward hands out k tickets for each time a name is listed.
LEMMA RewardAddsUp ==
  ASSUME IsHoldings(bal), IsHoldings(bal'), AddsUp, NEW sig, NEW s, NEW n \in Nids,
         NEW k \in Nat, NEW batch \in Seq(Accounts), BatchReward(sig, s, n, k, batch)
  PROVE  AddsUp'
<1> DEFINE cnt == Len(batch)
           S == 1..cnt
           Listed(a) == {i \in S : batch[i] = a}
           Gift(a) == [m \in Nids |-> IF m = n THEN k * Cardinality(Listed(a)) ELSE 0]
           part == [a \in Accounts |-> k * Cardinality(Listed(a))]
           w == [i \in S |-> k]
           o == [i \in S |-> batch[i]]
           p == [a \in Accounts |-> SumFunctionOnSet(w, {i \in S : o[i] = a})]
<1>1. cnt \in Nat /\ IsFiniteSet(S) /\ Cardinality(S) = cnt
  <2>1. cnt \in Nat
    OBVIOUS
  <2> HIDE DEF cnt
  <2>2. IsFiniteSet(1..cnt) /\ Cardinality(1..cnt) = IF 1 > cnt THEN 0 ELSE cnt - 1 + 1
    BY <2>1, FS_Interval
  <2> QED
    BY <2>1, <2>2
<1>2. /\ \A i \in 1..cnt : CanMove(bal, SHOW, batch[i], Gift(batch[i]))
      /\ bal' = [a \in Accounts |->
                   IF a = SHOW THEN [bal[a] EXCEPT ![n] = @ - k * cnt]
                               ELSE [m \in Nids |-> bal[a][m] + Gift(a)[m]]]
      /\ UNCHANGED nstats
  BY DEF BatchReward
<1>3. \A i \in S : batch[i] # SHOW
  BY <1>2 DEF CanMove
<1>4. ASSUME NEW a \in Accounts
      PROVE  /\ p[a] = part[a] /\ part[a] \in Int
             /\ IsFiniteSet(Listed(a)) /\ Cardinality(Listed(a)) \in Nat
  <2> DEFINE T == Listed(a)
  <2>1. T \in SUBSET S /\ T = {i \in S : o[i] = a} /\ \A i \in T : w[i] = k
    OBVIOUS
  <2>2. IsFiniteSet(T)
    BY <1>1, <2>1, FS_Subset
  <2> HIDE DEF T, w, o, S
  <2>3. SumFunctionOnSet(w, T) = k * Cardinality(T)
    BY <2>1, <2>2, SumOfSame
  <2>4. Cardinality(T) \in Nat
    BY <2>2, FS_CardinalityType
  <2>5. k * Cardinality(T) \in Int
    BY <2>4
  <2> QED
    BY <2>1, <2>2, <2>3, <2>4, <2>5 DEF T, S
<1>5. part \in [Accounts -> Int] /\ p = part
  BY <1>4
<1>6. SumFunction(part) = k * cnt
  <2>1. w \in [S -> Int] /\ o \in [S -> Accounts] /\ \A i \in S : w[i] = k
    OBVIOUS
  <2>2. IsFiniteSet(Accounts) /\ DOMAIN w = S
    BY NftAssumption DEF NftAssumption
  <2>3. p = [a \in Accounts |-> SumFunctionOnSet(w, {i \in S : o[i] = a})]
    OBVIOUS
  <2> HIDE DEF w, o, S, p
  <2>4. SumFunction(p) = SumFunction(w)
    BY <1>1, <2>1, <2>2, <2>3, SumByOwner
  <2>5. k \in Int
    OBVIOUS
  <2> HIDE DEF part, Listed, Gift
  <2>6. SumFunctionOnSet(w, S) = k * Cardinality(S)
    BY <1>1, <2>1, <2>5, SumOfSame
  <2> QED
    BY <1>1, <1>5, <2>2, <2>4, <2>6 DEF SumFunction
<1>7. part[SHOW] = 0
  <2>1. Listed(SHOW) = {}
    BY <1>3
  <2>2. Cardinality(Listed(SHOW)) = 0
    BY <2>1, FS_EmptySet
  <2> QED
    BY <2>2, Parties
<1>8. \A a \in Accounts \ {SHOW}, m \in Nids :
        bal'[a][m] = bal[a][m] + (IF m = n THEN part[a] ELSE 0)
  BY <1>2
<1>9. \A m \in Nids : bal'[SHOW][m] = bal[SHOW][m] - (IF m = n THEN k * cnt ELSE 0)
  <2>1. \A m \in Nids : bal[SHOW][m] \in Int
    BY Parties DEF IsHoldings
  <2>2. bal[SHOW] = [m \in Nids |-> bal[SHOW][m]]
    BY Parties DEF IsHoldings
  <2>3. bal'[SHOW] = [bal[SHOW] EXCEPT ![n] = @ - k * cnt]
    BY <1>2, Parties
  <2> DEFINE q == k * cnt
  <2> HIDE DEF q
  <2>4. \A m \in Nids : bal'[SHOW][m] = bal[SHOW][m] - (IF m = n THEN q ELSE 0)
    BY <2>1, <2>2, <2>3 DEF q
  <2> QED
    BY <2>4 DEF q
<1>10. TotalHeld(bal', n) = TotalHeld(bal, n)
  <2>1. /\ bal'[SHOW][n] = bal[SHOW][n] - SumFunction(part)
        /\ \A a \in Accounts \ {SHOW} : bal'[a][n] = bal[a][n] + part[a]
    BY <1>6, <1>8, <1>9
  <2> HIDE DEF part
  <2> QED
    BY <1>5, <1>7, <2>1, Parties, HandedOut
<1>11. ASSUME NEW m \in Nids \ {n}
       PROVE  TotalHeld(bal', m) = TotalHeld(bal, m)
  <2>1. \A a \in Accounts : bal[a][m] \in Int
    BY DEF IsHoldings
  <2>2. m \in Nids /\ m # n
    OBVIOUS
  <2> HIDE DEF part
  <2>3. ASSUME NEW a \in Accounts
        PROVE  bal'[a][m] = bal[a][m]
    <3>1. CASE a = SHOW
      <4>1. bal'[SHOW][m] = bal[SHOW][m] - 0
        BY <1>9, <2>2
      <4> QED
        BY <2>1, <3>1, <4>1
    <3>2. CASE a # SHOW
      <4>1. bal'[a][m] = bal[a][m] + 0
        BY <1>8, <2>2, <3>2
      <4> QED
        BY <2>1, <4>1
    <3> QED
      BY <3>1, <3>2
  <2> QED
    BY <2>3 DEF TotalHeld
<1> QED
  BY <1>2, <1>10, <1>11, TradeAddsUp

\* A draw of an upgrade: stake in, prize out, both between u and grab.cisum.
LEMMA DrawAddsUp ==
  ASSUME GrabInv, IsHoldings(bal), AddsUp, NEW u \in Accounts, NEW id, NEW g,
         NEW extra \in [Nids -> Nat], RushUpgradeDraw(u, id, g, extra)
  PROVE  AddsUp'
<1>1. u # GRAB /\ GRAB \in Accounts /\ id \in DOMAIN upgrades /\ UNCHANGED nstats
  BY Parties DEF RushUpgradeDraw
<1>2. PICK win \in BOOLEAN : DrawEffect(u, id, g, extra, win)
  BY DrawEffects
<1> DEFINE pay == upgrades[id].pay_tickets
           prize == upgrades[id].ticket_id
           out == IF win /\ PaysTickets THEN 1 ELSE 0
<1>3. pay.amount \in Nat /\ out \in Nat
  BY <1>1 DEF GrabInv, Balanced, UpgradeOK, RushUpgrade, NAsset
<1>4. DrawMoves(u, extra, pay, prize, out)
  BY <1>2 DEF DrawEffect
<1> HIDE DEF pay, prize, out
<1>5. ASSUME NEW n \in Nids
      PROVE  TotalHeld(bal', n) = TotalHeld(bal, n)
  <2>1. bal[u][n] \in Int /\ bal[GRAB][n] \in Int /\ extra[n] \in Int
    BY <1>1 DEF IsHoldings
  <2> DEFINE i == IF n = pay.nid THEN pay.amount ELSE 0
             p == IF n = prize THEN out ELSE 0
  <2>2. i \in Int /\ p \in Int
    BY <1>3
  <2>3. /\ bal'[GRAB][n] = bal[GRAB][n] + extra[n] + i - p
        /\ bal'[u][n] = bal[u][n] - extra[n] - i + p
    BY <1>4 DEF DrawMoves
  <2> HIDE DEF i, p
  <2>4. bal'[u][n] + bal'[GRAB][n] = bal[u][n] + bal[GRAB][n]
    BY <2>1, <2>2, <2>3
  <2>5. IsHoldings(bal') /\ \A a \in Accounts \ {u, GRAB} : bal'[a][n] = bal[a][n]
    BY <1>4 DEF DrawMoves
  <2> QED
    BY <1>1, <2>4, <2>5, HeldByPair
<1> QED
  BY <1>1, <1>5, TradeAddsUp

\* grab.cisum does not draw: no stake goes back to it.
StakersDiffer == \A log \in logs : log.account # GRAB

\* delupgrade hands out the stakes of a page, each to one account.
LEMMA SettledAddsUp ==
  ASSUME GrabInv, IsHoldings(bal), AddsUp, StakersDiffer, NEW sig, NEW id, DelUpgrade(sig, id)
  PROVE  AddsUp'
<1> DEFINE paid == Payable(Page(InScope(logs, id), MaxUpgrade))
<1>1. /\ paid \subseteq InScope(logs, id) /\ IsFiniteSet(paid)
      /\ IsHoldings(bal') /\ UNCHANGED nstats
      /\ \A n \in Nids : bal'[GRAB][n] = bal[GRAB][n] - Staked(paid, n)
      /\ \A a \in Accounts \ {GRAB}, n \in Nids :
           bal'[a][n] = bal[a][n] + Staked({log \in paid : Destination(log) = a}, n)
  <2> HIDE DEF Page, Payable
  <2> QED
    BY SettleLedger
<1> HIDE DEF paid
<1>2. paid \subseteq logs /\ logs \subseteq UpgradeLog
  BY <1>1 DEF InScope, GrabInv, RowsOK
<1>3. \A log \in paid : Destination(log) \in Accounts \ {GRAB}
  BY <1>2, GrabAssumption DEF Destination, UpgradeLog, StakersDiffer, GrabAssumption
<1>4. ASSUME NEW n \in Nids
      PROVE  TotalHeld(bal', n) = TotalHeld(bal, n)
  <2> DEFINE w == [log \in paid |-> IF log.from.nid = n THEN log.from.amount ELSE 0]
             o == [log \in paid |-> Destination(log)]
             due(a) == {log \in paid : Destination(log) = a}
             part == [a \in Accounts |-> SumFunctionOnSet(w, {log \in paid : o[log] = a})]
  <2>1. w \in [paid -> Int] /\ o \in [paid -> Accounts]
    BY <1>2, <1>3 DEF UpgradeLog, NAsset
  <2>2. IsFiniteSet(Accounts)
    BY NftAssumption DEF NftAssumption
  <2>3. SumFunction(w) = Staked(paid, n)
    BY DEF Staked
  <2>4. ASSUME NEW a \in Accounts
        PROVE  part[a] = Staked(due(a), n)
    <3> DEFINE D == due(a)
               f == [log \in D |-> IF log.from.nid = n THEN log.from.amount ELSE 0]
    <3>1. /\ DOMAIN f = D /\ D = {log \in paid : o[log] = a} /\ D \in SUBSET paid
          /\ \A log \in D : w[log] = f[log]
      OBVIOUS
    <3>2. IsFiniteSet(D)
      BY <1>1, <3>1, FS_Subset
    <3>3. Staked(D, n) = SumFunction(f)
      BY DEF Staked
    <3>4. part[a] = SumFunctionOnSet(w, D)
      BY <3>1
    <3> HIDE DEF D, f, w, o, part
    <3>5. SumFunctionOnSet(w, D) = SumFunction(f)
      BY <3>1, <3>2, SumOfTable
    <3> QED
      BY <3>3, <3>4, <3>5 DEF D
  <2>5. \A a \in Accounts : Staked(due(a), n) \in Nat
    <3> TAKE a \in Accounts
    <3> DEFINE D == due(a)
    <3>1. D \subseteq paid
      OBVIOUS
    <3> HIDE DEF D
    <3>2. D \subseteq UpgradeLog /\ IsFiniteSet(D)
      BY <1>1, <1>2, <3>1, FS_Subset
    <3>3. Staked(D, n) \in Nat
      BY <3>2, StakedIsNat
    <3> QED
      BY <3>3 DEF D
  <2>6. Staked(due(GRAB), n) = 0
    <3> DEFINE D == due(GRAB)
               f == [log \in D |-> IF log.from.nid = n THEN log.from.amount ELSE 0]
    <3>1. D = {} /\ DOMAIN f = D
      BY <1>3
    <3>2. Staked(D, n) = SumFunction(f)
      BY DEF Staked
    <3> HIDE DEF f
    <3> QED
      BY <3>1, <3>2, SumOfNone
  <2>7. DOMAIN part = Accounts /\ part = [a \in Accounts |-> part[a]]
    OBVIOUS
  <2>8. SumFunction(part) = SumFunction(w)
    <3>1. part = [a \in Accounts |-> SumFunctionOnSet(w, {log \in paid : o[log] = a})]
      OBVIOUS
    <3> HIDE DEF w, o, part
    <3> QED
      BY <1>1, <2>1, <2>2, <3>1, SumByOwner
  <2>9. \A a \in Accounts \ {GRAB} : bal'[a][n] = bal[a][n] + Staked(due(a), n)
    BY <1>1
  <2> HIDE DEF w, o, due, part
  <2>10. part \in [Accounts -> Int] /\ part[GRAB] = 0
    BY <2>4, <2>5, <2>6, <2>7, Parties
  <2>11. bal'[GRAB][n] = bal[GRAB][n] - SumFunction(part)
    BY <1>1, <2>3, <2>8
  <2>12. \A a \in Accounts \ {GRAB} : bal'[a][n] = bal[a][n] + part[a]
    BY <2>4, <2>9
  <2> QED
    BY <1>1, <2>10, <2>11, <2>12, Parties, HandedOut
<1> QED
  BY <1>1, <1>4, TradeAddsUp

\* publishshow mints to show.cisum.
LEMMA PublishAddsUp ==
  ASSUME ShowInv, Holdings, AddsUp, NEW s \in ShowIds, NEW dates \in ShowDates, NEW free,
         NEW grades \in Posters, PublishShow(s, dates, free, grades)
  PROVE  AddsUp'
<1> DEFINE nids == DOMAIN grades
           more(n) == IF n \in nids THEN grades[n].count ELSE 0
<1>1. /\ bal' = [bal EXCEPT ![SHOW] = [n \in Nids |-> @[n] + more(n)]]
      /\ nids \cap DOMAIN nstats = {}
      /\ DOMAIN nstats' = DOMAIN nstats \cup nids
      /\ \A n \in DOMAIN nstats : nstats'[n] = nstats[n]
  BY DEF PublishShow, PutAll
<1>2. \A n \in Nids : more(n) \in Int
  BY ShowmanAssumption DEF ShowmanAssumption
<1>3. \A n \in nids : Supply(n)' = grades[n].count
  BY PublishLedger DEF ShowInv
<1>4. IsHoldings(bal')
  BY PublishStore DEF StoreKept, Holdings
<1>5. ASSUME NEW n \in Nids
      PROVE  Supply(n)' = Supply(n) + more(n)
  <2>1. Supply(n) \in Int
    BY SupplyBounds DEF ShowInv
  <2>2. CASE n \in nids
    <3>1. Supply(n) = 0 /\ Supply(n)' = grades[n].count /\ more(n) = grades[n].count
      BY <1>1, <1>3, <2>2 DEF Supply
    <3> QED
      BY <1>2, <3>1
  <2>3. CASE n \notin nids
    <3>1. Supply(n)' = Supply(n) /\ more(n) = 0
      BY <1>1, <2>3 DEF Supply
    <3> QED
      BY <2>1, <3>1
  <2> QED
    BY <2>2, <2>3
<1> HIDE DEF more
<1>6. ASSUME NEW n \in Nids
      PROVE  GainsOnly(bal, bal', n, SHOW, more(n))
  BY <1>1, Parties DEF GainsOnly, Holdings, IsHoldings
<1>7. \A n \in Nids : TotalHeld(bal', n) = TotalHeld(bal, n) + more(n)
  BY <1>2, <1>4, <1>6, Parties, HeldByOne DEF Holdings
<1> QED
  BY <1>5, <1>7 DEF AddsUp

\* show.cisum mints to itself and sends to others.
LEMMA StockAddsUp ==
  ASSUME ShowInv, Holdings, Holdings', AddsUp, Stock
  PROVE  AddsUp'
<1>1. \A k \in Amounts : k \in Nat
  BY NftAssumption DEF NftAssumption
<1>2. SHOW \in Accounts /\ Fans \subseteq Accounts
  BY Parties
<1>3. ASSUME NEW sig \in Accounts, NEW n \in Nids, NEW max \in MaxSupplies, NEW u \in Uris,
             CreateNft(sig, max, n, u)
      PROVE  AddsUp'
  BY <1>3, CreateAddsUp DEF CreateNft
<1>4. ASSUME NEW sig \in Accounts, NEW s \in ShowIds, NEW n \in Nids, NEW k \in Amounts,
             IssueNft(sig, s, n, k)
      PROVE  AddsUp'
  <2>1. /\ n \in DOMAIN nstats
        /\ nstats' = [nstats EXCEPT ![n].supply = @ + k]
        /\ bal' = [bal EXCEPT ![SHOW][n] = @ + k]
    BY <1>4 DEF IssueNft, NftIssue
  <2>2. nstats[n] \in NStat /\ k \in Int
    BY <1>1, <2>1 DEF ShowInv, StatsBounded
  <2> QED
    BY <1>2, <2>1, <2>2, MintAddsUp DEF Holdings
<1>5. ASSUME NEW sig \in Accounts, NEW s \in ShowIds, NEW n \in Nids, NEW k \in Amounts,
             NEW a \in Fans,
             \/ ShowIssue(sig, a, s, n, k) \/ IssueToGrab(sig, a, s, n, k)
             \/ \E pay \in UsdtPrices : BuyTicket(sig, a, pay, s, n, k)
      PROVE  AddsUp'
  <2>1. NftTransfer(SHOW, a, Single(n, k))
    BY <1>5 DEF ShowIssue, IssueToGrab, BuyTicket
  <2> QED
    BY <1>1, <1>2, <2>1, SentAddsUp DEF Holdings
<1>6. ASSUME NEW sig \in Accounts, NEW s \in ShowIds, NEW n \in Nids, NEW k \in Amounts,
             NEW batch \in Batches, BatchReward(sig, s, n, k, batch)
      PROVE  AddsUp'
  <2>1. batch \in Seq(Accounts)
    BY ShowAssumption DEF ShowAssumption
  <2> QED
    BY <1>1, <1>6, <2>1, RewardAddsUp DEF Holdings
<1>7. ASSUME NEW s, NEW n, NEW k, ShowRetire(s, n, k)
      PROVE  AddsUp'
  BY <1>7, TradeAddsUp DEF ShowRetire, nftVars
<1> QED
  BY <1>3, <1>4, <1>5, <1>6, <1>7 DEF Stock

\* So do holders and grab.cisum.
LEMMA SendersAddUp ==
  ASSUME GrabInv, IsHoldings(bal), AddsUp, Ledger \/ Restock \/ TakeBack
  PROVE  AddsUp'
<1>1. \A k \in Amounts : k \in Nat
  BY NftAssumption DEF NftAssumption
<1>2. SHOW \in Accounts /\ GRAB \in Accounts /\ Fans \subseteq Accounts
  BY Parties
<1>3. ASSUME NEW a \in Fans, NEW b \in Fans \cup {SHOW}, NEW n \in Nids, NEW k \in Amounts,
             NftTransfer(a, b, Single(n, k))
      PROVE  AddsUp'
  BY <1>1, <1>2, <1>3, SentAddsUp
<1>4. ASSUME UNCHANGED <<bal, nstats>>
      PROVE  AddsUp'
  BY <1>4, TradeAddsUp
<1>5. CASE Ledger
  BY <1>3, <1>4, <1>5 DEF Ledger, Holders, AddWhitelist, DelWhitelist, SetNftWhite
<1>6. ASSUME NEW sig, NEW s, NEW n \in Nids, NEW k \in Amounts,
             IssueToGrab(sig, GRAB, s, n, k) \/ ShowIssue(sig, GRAB, s, n, k)
      PROVE  AddsUp'
  <2>1. NftTransfer(SHOW, GRAB, Single(n, k))
    BY <1>6 DEF ShowIssue, IssueToGrab
  <2> QED
    BY <1>1, <1>2, <2>1, SentAddsUp
<1>7. ASSUME NEW a \in Fans, NEW extra \in Extras, NEW n \in Nids, NEW k \in Amounts,
             NftTransfer(a, GRAB, [m \in Nids |-> extra[m] + Single(n, k)[m]])
      PROVE  AddsUp'
  <2> DEFINE moved == [m \in Nids |-> extra[m] + Single(n, k)[m]]
  <2>1. moved \in [Nids -> Nat]
    BY <1>1, BatchType, GrabAssumption DEF GrabAssumption
  <2>2. CanMove(bal, a, GRAB, moved) /\ bal' = Move(bal, a, GRAB, moved) /\ UNCHANGED nstats
    BY <1>7 DEF NftTransfer
  <2> HIDE DEF moved
  <2> QED
    BY <1>2, <2>1, <2>2, MoveAddsUp
<1>8. CASE Restock
  BY <1>6, <1>7, <1>8 DEF Restock
<1>9. CASE TakeBack
  <2>1. ASSUME NEW sig \in Accounts, NEW k \in Amounts, NEW id,
               SubRushSale(sig, id, k) \/ SubRushUpgrade(sig, id, k)
        PROVE  AddsUp'
    <3>1. \E n : PayOut(SHOW, Single(n, k))
      BY <2>1 DEF SubRushSale, SubRushUpgrade, BackToShow
    <3> QED
      BY <1>1, <1>2, <3>1, PaidAddsUp
  <2> QED
    BY <1>9, <2>1 DEF TakeBack
<1> QED
  BY <1>5, <1>8, <1>9

\* Every step of the four contracts.
LEMMA CirculationAddsUp ==
  ASSUME ShowInv, Holdings, Holdings', GrabInv, AddsUp, StakersDiffer, [Next]_vars
  PROVE  AddsUp'
<1>1. ASSUME UNCHANGED <<bal, nstats>>
      PROVE  AddsUp'
  BY <1>1, TradeAddsUp
<1>2. CASE ShowSide
  <2>1. CASE Catalogue \/ Tick
    <3>1. ASSUME UNCHANGED nftVars
          PROVE  AddsUp'
      BY <1>1, <3>1 DEF nftVars
    <3>2. ASSUME NEW sig, NEW s, NEW dates, NewShow(sig, s, dates) \/ SetShow(sig, s, dates)
          PROVE  AddsUp'
      BY <3>1, <3>2 DEF NewShow, SetShow
    <3>3. ASSUME NEW sig, NEW s, DelShow(sig, s)
          PROVE  AddsUp'
      BY <3>1, <3>3 DEF DelShow
    <3>4. ASSUME NEW sig, NEW s, NEW n, NEW usdt, NEW w,
                 NewTicket(sig, s, n, usdt, w) \/ SetTicket(sig, s, n, usdt, w)
          PROVE  AddsUp'
      BY <3>1, <3>4 DEF NewTicket, SetTicket
    <3>5. ASSUME NEW a, Configure(a, TICKET)
          PROVE  AddsUp'
      BY <3>1, <3>5 DEF Configure
    <3>6. CASE Tick
      BY <3>1, <3>6 DEF Tick
    <3>7. CASE Catalogue
      BY <3>2, <3>3, <3>4, <3>5, <3>7 DEF Catalogue
    <3> QED
      BY <2>1, <3>6, <3>7
  <2> QED
    BY <1>2, <2>1, StockAddsUp DEF ShowSide
<1>3. CASE Showman
  <2>1. ASSUME NEW s \in ShowIds, NEW items \in Rushes, AddUpgrades(s, items)
        PROVE  AddsUp'
    <3> DEFINE moved == [n \in Nids |-> Ordered(items, n)]
    <3>1. \A n \in Nids : Ordered(items, n) \in Nat
      BY OrderedIsNat
    <3>2. CanMove(bal, SHOW, GRAB, moved) /\ bal' = Move(bal, SHOW, GRAB, moved)
          /\ UNCHANGED nstats
      BY <2>1 DEF AddUpgrades, Ordered
    <3>3. moved \in [Nids -> Nat]
      BY <3>1
    <3> HIDE DEF moved
    <3> QED
      BY <3>2, <3>3, Parties, MoveAddsUp DEF Holdings
  <2> QED
    BY <1>3, <2>1, PublishAddsUp DEF Showman
<1>4. CASE Draw
  <2>1. \A u \in Fans : u \in Accounts
    BY Parties
  <2>2. ASSUME NEW u \in Fans, NEW g, NEW id, NEW paid, Grab(u, id, g, paid)
        PROVE  AddsUp'
    <3>1. UNCHANGED nftVars \/ PayOut(u, Single(sales[id].ticket_id, 1))
      BY <2>2 DEF Grab
    <3> QED
      BY <1>1, <2>1, <3>1, PaidAddsUp DEF nftVars, Holdings
  <2>3. ASSUME NEW u \in Fans, NEW g, NEW id, NEW extra \in Extras,
               RushUpgradeDraw(u, id, g, extra)
        PROVE  AddsUp'
    <3>1. extra \in [Nids -> Nat]
      BY GrabAssumption DEF GrabAssumption
    <3> QED
      BY <2>1, <2>3, <3>1, DrawAddsUp DEF Holdings
  <2> QED
    BY <1>4, <2>2, <2>3 DEF Draw
<1>5. CASE Cleanup
  <2>1. ASSUME NEW sig, NEW id, DelUpgrade(sig, id)
        PROVE  AddsUp'
    BY <2>1, SettledAddsUp DEF Holdings
  <2> QED
    BY <1>1, <1>5, <2>1 DEF Cleanup, nftVars
<1>6. CASE Campaigns \/ GrabConfig \/ UNCHANGED vars
  BY <1>1, <1>6 DEF Campaigns, GrabConfig, vars, nftVars
<1> QED
  BY <1>2, <1>3, <1>4, <1>5, <1>6, SendersAddUp DEF Next, Holdings

\* Logs are written by the draws of fans.
LEMMA StakersStep ==
  ASSUME StakersDiffer, [Next]_vars
  PROVE  StakersDiffer'
<1>1. ASSUME logs' \subseteq logs
      PROVE  StakersDiffer'
  BY <1>1 DEF StakersDiffer
<1>2. CASE Draw
  <2>1. ASSUME NEW u \in Fans, NEW g, NEW id, NEW extra, RushUpgradeDraw(u, id, g, extra)
        PROVE  StakersDiffer'
    <3>1. u # GRAB
      BY <2>1 DEF RushUpgradeDraw
    <3>2. \A log \in logs' : log \in logs \/ log.account = u
      BY <2>1 DEF RushUpgradeDraw
    <3> QED
      BY <3>1, <3>2 DEF StakersDiffer
  <2>2. ASSUME NEW u, NEW id, NEW g, NEW paid, Grab(u, id, g, paid)
        PROVE  UNCHANGED logs
    BY <2>2 DEF Grab
  <2> QED
    BY <1>1, <1>2, <2>1, <2>2 DEF Draw
<1>3. CASE Cleanup
  <2>1. logs' \subseteq logs
    <3>1. ASSUME NEW sig, NEW id, NEW forced, DelRushSale(sig, id, forced)
          PROVE  UNCHANGED logs
      BY <3>1 DEF DelRushSale
    <3>2. ASSUME NEW sig, NEW id, DelUpgrade(sig, id)
          PROVE  logs' \subseteq logs
      BY <3>2 DEF DelUpgrade
    <3> QED
      BY <1>3, <3>1, <3>2 DEF Cleanup
  <2> QED
    BY <1>1, <2>1
<1>4. CASE Campaigns \/ GrabConfig \/ UNCHANGED vars
  <2>1. CASE Campaigns
    <3>1. ASSUME NEW sig, NEW s, NEW n, NEW w, NEW ratio, NEW price, NEW limit,
                 AddRushSale(sig, s, n, w, price, limit, ratio)
          PROVE  StakersDiffer'
      BY <1>1, <3>1 DEF AddRushSale
    <3>2. ASSUME NEW sig, NEW s, NEW n, NEW w, NEW ratio, NEW pay,
                 AddUpgrade(sig, s, n, pay, w, ratio)
          PROVE  StakersDiffer'
      BY <1>1, <3>2 DEF AddUpgrade
    <3>3. ASSUME NEW sig, NEW id, NEW w, NEW ratio, NEW price, NEW limit,
                 SetRushSale(sig, id, price, limit, ratio, w[1], w[2])
          PROVE  StakersDiffer'
      BY <1>1, <3>3 DEF SetRushSale
    <3>4. ASSUME NEW sig, NEW id, NEW w, NEW ratio, NEW pay,
                 SetUpgrade(sig, id, pay, ratio, w[1], w[2])
          PROVE  StakersDiffer'
      BY <1>1, <3>4 DEF SetUpgrade
    <3> QED
      BY <2>1, <3>1, <3>2, <3>3, <3>4 DEF Campaigns
  <2>2. CASE GrabConfig
    BY <1>1, <2>2 DEF GrabConfig
  <2>3. CASE UNCHANGED vars
    BY <1>1, <2>3 DEF vars, grabVars
  <2> QED
    BY <1>4, <2>1, <2>2, <2>3
<1>5. CASE ShowSide \/ Ledger \/ Showman
  <2>1. ASSUME NEW s, NEW dates, NEW free, NEW grades, PublishShow(s, dates, free, grades)
        PROVE  UNCHANGED logs
    BY <2>1 DEF PublishShow, grabVars
  <2>2. ASSUME NEW s, NEW items, AddUpgrades(s, items)
        PROVE  UNCHANGED logs
    BY <2>2 DEF AddUpgrades
  <2>3. CASE ShowSide \/ Ledger
    BY <1>1, <2>3 DEF ShowSide, Ledger, grabVars
  <2>4. CASE Showman
    BY <1>1, <2>1, <2>2, <2>4 DEF Showman
  <2> QED
    BY <1>5, <2>3, <2>4
<1>6. CASE Restock \/ TakeBack
  BY <1>1, <1>6 DEF Restock, TakeBack, OnAddRushSale, OnAddRushUpgrade, SubRushSale,
                    SubRushUpgrade
<1> QED
  BY <1>2, <1>3, <1>4, <1>5, <1>6 DEF Next

\* What the fans and show.cisum open with is what has been minted.
LEMMA CirculationOpens == Init => AddsUp /\ StakersDiffer
<1> SUFFICES ASSUME Init PROVE AddsUp /\ StakersDiffer
  OBVIOUS
<1>1. StakersDiffer
  BY DEF Init, StakersDiffer
<1>2. IsHoldings(bal)
  BY StoreStart DEF Holdings
<1>3. ASSUME NEW n \in Nids
      PROVE  TotalHeld(bal, n) = Supply(n)
  <2> DEFINE Others == Accounts \ {SHOW}
             f == [a \in Accounts |-> bal[a][n]]
             h == [a \in Accounts |-> HeldBy(a, n)]
             g == [a \in Fans |-> Held[a][n]]
             stock == IF n \in DOMAIN OpenGrades THEN OpenGrades[n].stock ELSE 0
  <2>1. /\ SHOW \in Accounts /\ SHOW \notin Fans /\ Fans \in SUBSET Accounts
        /\ IsFiniteSet(Accounts)
    BY ShowAssumption, NftAssumption DEF ShowAssumption, NftAssumption
  <2>2. IsFiniteSet(Fans)
    BY <2>1, FS_Subset
  <2>3. /\ Held \in [Fans -> [Nids -> Nat]] /\ stock \in Int
        /\ n \notin DOMAIN OpenGrades => \A a \in Fans : Held[a][n] = 0
    BY OpeningAssumption DEF OpeningAssumption, Opening
  <2>4. g \in [Fans -> Int] /\ h \in [Accounts -> Int] /\ f \in [Accounts -> Int]
    BY <1>2, <2>3 DEF HeldBy, IsHoldings
  <2>5. \A a \in Fans : g[a] = h[a]
    BY <2>1 DEF HeldBy
  <2>6. \A a \in Accounts \ Fans : h[a] = 0
    BY DEF HeldBy
  <2>7. \A a \in Accounts : bal[a][n] = IF a = SHOW /\ n \in DOMAIN OpenGrades
                                          THEN OpenGrades[n].stock ELSE HeldBy(a, n)
    BY DEF Init
  <2>8. \A a \in Accounts \ {SHOW} : f[a] = h[a]
    BY <2>7
  <2>9. f[SHOW] = h[SHOW] + stock
    BY <2>1, <2>3, <2>7 DEF HeldBy
  <2>10. SumFunction(g) = Given(n) /\ SumFunction(f) = TotalHeld(bal, n)
    BY DEF Given, TotalHeld
  <2>11. n \notin DOMAIN OpenGrades => \A a \in Fans : g[a] = 0
    BY <2>3
  <2>12. Supply(n) = IF n \in DOMAIN OpenGrades THEN stock + Given(n) ELSE 0
    BY DEF Init, Supply
  <2>13. n \notin DOMAIN OpenGrades => stock = 0
    OBVIOUS
  <2> HIDE DEF f, g, h, stock
  <2>14. SumFunction(g) = SumFunction(h)
    BY <2>1, <2>4, <2>5, <2>6, SumIgnoresZeros
  <2>15. SumFunction(f) = SumFunction(h) + stock
    BY <2>1, <2>3, <2>4, <2>8, <2>9, SumMoves
  <2>16. SumFunction(g) \in Int
    BY <2>2, <2>4, SumIsInt
  <2>17. CASE n \in DOMAIN OpenGrades
    BY <2>3, <2>10, <2>12, <2>14, <2>15, <2>16, <2>17
  <2>18. CASE n \notin DOMAIN OpenGrades
    <3>1. SumFunction(g) = 0
      BY <2>2, <2>4, <2>11, <2>18, SumOfZeros
    <3> QED
      BY <2>10, <2>12, <2>13, <2>14, <2>15, <2>18, <3>1
  <2> QED
    BY <2>17, <2>18
<1> QED
  BY <1>1, <1>3 DEF AddsUp

\* Adds what the accounts hold to the invariant of the four contracts.
SupplyInv == AddsUp /\ StakersDiffer

\* Over all accounts the tickets of a type add up to its supply, which stays
\* within the cap, while the four contracts sell, hand over, raffle, stake,
\* refund, burn and take back: none of them makes or loses a ticket.
THEOREM TicketsAddUp == Spec => []SupplyConserved
<1>1. StoreInv /\ GrabInv /\ SupplyInv /\ [Next]_vars => StoreInv' /\ GrabInv' /\ SupplyInv'
  <2>1. StoreInv' => Holdings'
    BY DEF StoreInv
  <2> QED
    BY <2>1, CirculationStep, StoreInvStep, CirculationAddsUp, StakersStep DEF StoreInv, SupplyInv
<1>2. StoreInv /\ SupplyInv => SupplyConserved
  BY DEF StoreInv, SupplyInv, ShowInv, StatsBounded, AddsUp, TotalHeld, SupplyConserved
<1>3. Init => StoreInv /\ GrabInv /\ SupplyInv
  BY CirculationStart, StoreStart, CirculationOpens DEF StoreInv, SupplyInv
<1> QED
  BY <1>1, <1>2, <1>3, PTL DEF Spec

\* What left the books never comes back on sale with the four contracts running:
\* no return, draw, cleanup or hand-over lowers what show.cisum owns beyond its stock.
THEOREM NothingComesBackAcross == Spec => RetiredStaysRetired
<1>1. StoreInv /\ GrabInv /\ [Next]_vars => [SurplusKept]_<<now, showVars, nftVars>>
  BY StoreStep DEF StoreInv, StoreKept
<1>2. StoreInv /\ GrabInv /\ [Next]_vars => StoreInv' /\ GrabInv'
  BY CirculationStep, StoreInvStep
<1>3. Init => StoreInv /\ GrabInv
  BY CirculationStart, StoreStart DEF StoreInv
<1>4. [SurplusKept]_<<now, showVars, nftVars>> =>
        [\A n \in Nids : bal[SHOW][n] - StockOf(n) <= bal'[SHOW][n] - StockOf(n)']_
          <<now, showVars, nftVars>>
  BY DEF SurplusKept
<1> QED
  BY <1>1, <1>2, <1>3, <1>4, PTL DEF Spec, RetiredStaysRetired

\* Stock, sales and supply of every grade stay in order with the four contracts
\* running.
THEOREM CountsStayInOrder == Spec => [](StockWithinTotal /\ SoldIsIssued)
<1>1. StoreInv => StockWithinTotal /\ SoldIsIssued
  BY DEF StoreInv, ShowInv, Books, BooksOK, StockWithinTotal, SoldIsIssued
<1> QED
  BY <1>1, CirculationStart, CirculationStep, StoreStart, StoreInvStep, PTL DEF Spec, StoreInv
=============================================================================
