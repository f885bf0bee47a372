---------------------------- MODULE CisumShowman ----------------------------
(***************************************************************************)
(* cisumshowman: two actions that aggregate calls to show.cisum and        *)
(* grab.cisum.  The contract keeps no table; each of its actions is one    *)
(* transaction whose inline actions run in order and depth first, so a     *)
(* failure of any of them undoes all.  Anybody may sign as creator: the    *)
(* inline actions carry the authority of cisumshowman itself.              *)
(***************************************************************************)
EXTENDS GrabCisum

CONSTANTS
  Posters,  \* what publishshow is given: nid -> [uri, count, usdt, window]
  Rushes    \* what addupgrades is given: sequences of campaigns

SaleItem == [kind : {"rushsale"}, nid : Nids, count : Nat \ {0},
             window : SaleWindows, ratio : Ratios, price : Prices,
             limit : GrabLimits]
UpgradeItem == [kind : {"rushupgrade"}, nid : Nids, count : Nat \ {0},
                window : SaleWindows, ratio : Ratios, pay : PayTickets]

ASSUME ShowmanAssumption ==
  /\ \A grades \in Posters :
       /\ DOMAIN grades \subseteq Nids /\ DOMAIN grades # {}
       /\ IsFiniteSet(DOMAIN grades)
       /\ \A n \in DOMAIN grades :
            /\ grades[n] \in [uri : Uris, count : Nat \ {0},
                              usdt : UsdtPrices, window : SaleWindows]
            /\ 10 * grades[n].count < CountMod
            /\ \A m \in DOMAIN grades \ {n} : grades[m].uri # grades[n].uri
  /\ \A items \in Rushes : items \in Seq(SaleItem \cup UpgradeItem)

-----------------------------------------------------------------------------
\* publishshow: the show, then for each grade its token type with a cap of ten
\* times the first issue, its listing for free transfer, its row and its
\* stock.
PublishShow(s, dates, transferable, grades) ==
  LET nids == DOMAIN grades
  IN  /\ ShowAuth(OPS, RoleShow)
      /\ BankSet
      /\ CanShow(s, dates)
      /\ CreatorAuthCheck(SHOW)
      /\ nids \cap DOMAIN nstats = {}
      /\ \A n \in nids, m \in DOMAIN nstats :
           nstats[m].token_uri # grades[n].uri
      /\ transferable => nids \cap nftWhite = {}
      /\ \A n \in nids : CanList(s, n, grades[n].window)
      /\ shows' = Put(shows, s, [show_started_at |-> dates[1],
                                 show_ended_at |-> dates[2]])
      /\ nstats' = PutAll(nstats, [n \in nids |->
           [supply |-> grades[n].count, max_supply |-> 10 * grades[n].count,
            token_uri |-> grades[n].uri, ipowner |-> SHOW,
            notary |-> NoName, issuer |-> SHOW]])
      /\ bal' = [bal EXCEPT ![SHOW] = [n \in Nids |->
           @[n] + (IF n \in nids THEN grades[n].count ELSE 0)]]
      /\ nftWhite' = IF transferable THEN nftWhite \cup nids ELSE nftWhite
      /\ tickets' = PutAll(tickets, [t \in {s} \X nids |->
           Minted(FreshGrade(grades[t[2]].usdt, grades[t[2]].window),
                  grades[t[2]].count)])
      /\ UNCHANGED <<now, showGlobal, creators, notaries, whitelist, grabVars>>

\* The id grab.cisum gives to the campaign of item i: each registration of the
\* call has saved its last_rush_sale_id before the next one reads it.
AssignedId(i) == lastRushId + i

\* The id cisumshowman writes into the memo of item i, before any inline action
\* has run: it counts the items itself.  Mutant: the table is read again for
\* each item, and still shows the old id.
PredictedReread(i) == lastRushId + 1
PredictedId(i) == lastRushId + i

\* The items of one kind, and the tickets that a set of items sends.
OfKind(items, kind) == {i \in DOMAIN items : items[i].kind = kind}
Sent(items, S) ==
  SumFunction([i \in DOMAIN items |-> IF i \in S THEN items[i].count ELSE 0])

\* The transfer of item i finds the campaign its memo names: one that was there
\* before, or one that this call has registered by then, for that ticket.
Finds(table, items, i) ==
  /\ PredictedId(i) \in DOMAIN table /\ PredictedId(i) <= AssignedId(i)
  /\ Fits(table[PredictedId(i)], items[i].nid)

\* Each transfer is booked with the campaign its memo names.
Booked(table, items, kind) ==
  [id \in DOMAIN table |->
     LET naming == {i \in OfKind(items, kind) : PredictedId(i) = id}
     IN  IF naming = {} THEN table[id]
                        ELSE Restocked(table[id], Sent(items, naming))]

\* addupgrades: campaign after campaign is registered and sent its tickets.
AddUpgrades(s, items) ==
  LET Ids(kind) == {AssignedId(i) : i \in OfKind(items, kind)}
      Item(id) == items[id - lastRushId]
      opened == PutAll(sales, [id \in Ids("rushsale") |->
        FreshSale(s, Item(id).nid, Item(id).window, Item(id).price,
                  Item(id).limit, Item(id).ratio)])
      raised == PutAll(upgrades, [id \in Ids("rushupgrade") |->
        FreshUpgrade(s, Item(id).nid, Item(id).window, Item(id).pay,
                     Item(id).ratio)])
      moved == [n \in Nids |-> Sent(items, {i \in DOMAIN items : items[i].nid = n})]
  IN  /\ ShowAuth(OPS, RoleShow)
      /\ BankSet
      /\ lastRushId + Len(items) <= MaxRushId
      /\ \A i \in DOMAIN items :
           IF items[i].kind = "rushsale"
             THEN /\ CanAddSale(s, items[i].nid, items[i].window, items[i].price)
                  /\ Finds(opened, items, i)
             ELSE /\ CanAddUpgrade(s, items[i].nid, items[i].window, items[i].pay)
                  /\ Finds(raised, items, i)
      /\ \A n \in Nids : moved[n] > 0 => HasStock(s, n, moved[n])
      /\ CanMove(bal, SHOW, GRAB, moved)
      /\ bal' = Move(bal, SHOW, GRAB, moved)
      /\ tickets' = [t \in DOMAIN tickets |->
           IF t[1] = s THEN HandedOver(tickets[t], moved[t[2]])
                       ELSE tickets[t]]
      /\ lastRushId' = lastRushId + Len(items)
      /\ sales' = Booked(opened, items, "rushsale")
      /\ upgrades' = Booked(raised, items, "rushupgrade")
      /\ UNCHANGED <<now, showGlobal, shows, nstats, nftConfig, grabConfig,
                     lastOrderId, allowTokens, orders, grabStats, logs, history>>

=============================================================================
