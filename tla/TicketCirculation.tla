-------------------------- MODULE TicketCirculation --------------------------
(***************************************************************************)
(* The life of a ticket across four contracts: ticket.cvnft (the ledger),  *)
(* show.cisum (the stock), grab.cisum (rush sales and upgrades) and        *)
(* cisumshowman, with fans who buy, stake, win, donate and pass on, and    *)
(* with managers who may call anything in any order.                       *)
(*                                                                         *)
(* A behaviour starts when the catalogue has been published: the grades    *)
(* of OpenGrades are minted and in stock, Held has been issued to fans,    *)
(* show.cisum and grab.cisum are on the whitelist of the ledger and the    *)
(* payment symbols are allowed.                                            *)
(***************************************************************************)
EXTENDS CisumShowman

CONSTANTS
  OpenGrades,  \* nid -> [show, stock, max, uri, usdt, window]
  Held         \* fan -> nid -> tickets already issued to the fan

HeldBy(a, n) == IF a \in Fans THEN Held[a][n] ELSE 0
Given(n) == SumFunction([a \in Fans |-> Held[a][n]])

Opening == [show : ShowIds, stock : Nat, max : Nat, uri : Uris, usdt : Nat,
            window : Nat \X Nat]

ASSUME OpeningAssumption ==
  /\ DOMAIN OpenGrades \subseteq Nids /\ IsFiniteSet(DOMAIN OpenGrades)
  /\ Held \in [Fans -> [Nids -> Nat]]
  /\ \A a \in Fans, n \in Nids \ DOMAIN OpenGrades : Held[a][n] = 0
  /\ \A n \in DOMAIN OpenGrades :
       /\ OpenGrades[n] \in Opening
       /\ OpenGrades[n].stock + Given(n) <= OpenGrades[n].max
       /\ OpenGrades[n].max < CountMod

Init ==
  LET grades == {<<OpenGrades[n].show, n>> : n \in DOMAIN OpenGrades}
  IN  /\ now = 0
      /\ nstats = [n \in DOMAIN OpenGrades |->
           [supply |-> OpenGrades[n].stock + Given(n),
            max_supply |-> OpenGrades[n].max, token_uri |-> OpenGrades[n].uri,
            ipowner |-> SHOW, notary |-> NoName, issuer |-> SHOW]]
      /\ bal = [a \in Accounts |-> [n \in Nids |->
           IF a = SHOW /\ n \in DOMAIN OpenGrades THEN OpenGrades[n].stock
                                                  ELSE HeldBy(a, n)]]
      /\ creators = {} /\ notaries = {} /\ nftWhite = {}
      /\ whitelist = {SHOW, GRAB}
      /\ showGlobal = [admin |-> NoName, nft_bank |-> TICKET]
      /\ shows = [s \in {t[1] : t \in grades} |->
                    [show_started_at |-> 1, show_ended_at |-> 0]]
      /\ tickets = [t \in grades |->
           [price_usdt |-> OpenGrades[t[2]].usdt,
            total_count |-> OpenGrades[t[2]].stock + Given(t[2]),
            sold_count |-> Given(t[2]), stock_count |-> OpenGrades[t[2]].stock,
            issued_count |-> Given(t[2]),
            sale_started_at |-> OpenGrades[t[2]].window[1],
            sale_ended_at |-> OpenGrades[t[2]].window[2]]]
      /\ grabConfig = [admin |-> NoName, point_contract |-> CISUM,
                       ticket_contract |-> TICKET, oracles |-> {}]
      /\ lastRushId = 1 /\ lastOrderId = 1
      /\ allowTokens = [sym \in Syms |-> CISUM]
      /\ sales = EmptyTable /\ orders = {} /\ grabStats = EmptyTable
      /\ upgrades = EmptyTable /\ logs = {}
      /\ everWon = {} /\ partly = {}

-----------------------------------------------------------------------------
\* show.cisum on its own: its managers, its buyers, and the clock.
ShowSide ==
  /\ Catalogue \/ Stock \/ Tick
  /\ UNCHANGED grabVars

\* Holders pass tickets on and ticket.cvnft is reconfigured.
Ledger == Holders /\ UNCHANGED grabVars

\* cisumshowman.
Showman ==
  \E s \in ShowIds :
    \/ \E dates \in ShowDates, free \in BOOLEAN, grades \in Posters :
         PublishShow(s, dates, free, grades)
    \/ \E items \in Rushes : AddUpgrades(s, items)

\* Tickets sent to grab.cisum with a memo that names a campaign: issuetograb,
\* an issue to grab.cisum, or a fan's own transfer, of which only the first
\* asset is booked.
Restock ==
  \E id \in DOMAIN sales \cup DOMAIN upgrades, n \in Nids, k \in Amounts :
    /\ OnAddRushSale(id, n, k) \/ OnAddRushUpgrade(id, n, k)
    /\ \/ \E sig \in Accounts, s \in ShowIds :
            IssueToGrab(sig, GRAB, s, n, k) \/ ShowIssue(sig, GRAB, s, n, k)
       \/ /\ \E a \in Fans, extra \in Extras :
               NftTransfer(a, GRAB,
                           [m \in Nids |-> extra[m] + Single(n, k)[m]])
          /\ UNCHANGED <<now, showVars>>

\* Draws.
Draw ==
  /\ \E u \in Fans, g \in GrabIds :
       \/ \E id \in DOMAIN sales, paid \in Prices : Grab(u, id, g, paid)
       \/ \E id \in DOMAIN upgrades, extra \in Extras :
            RushUpgradeDraw(u, id, g, extra)
  /\ UNCHANGED <<now, showVars>>

\* Campaigns opened, changed and closed.
Campaigns ==
  /\ \E sig \in Accounts :
       \/ \E s \in ShowIds, n \in Nids, w \in SaleWindows, ratio \in Ratios :
            \/ \E price \in Prices, limit \in GrabLimits :
                 AddRushSale(sig, s, n, w, price, limit, ratio)
            \/ \E pay \in PayTickets : AddUpgrade(sig, s, n, pay, w, ratio)
       \/ \E id \in DOMAIN sales, w \in SaleWindows, price \in Prices,
             limit \in GrabLimits, ratio \in Ratios :
            SetRushSale(sig, id, price, limit, ratio, w[1], w[2])
       \/ \E id \in DOMAIN upgrades, w \in SaleWindows, pay \in PayTickets,
             ratio \in Ratios :
            SetUpgrade(sig, id, pay, ratio, w[1], w[2])
  /\ UNCHANGED <<now, showVars, nftVars>>

Cleanup ==
  /\ \E sig \in Accounts :
       \/ /\ \E id \in DOMAIN sales, forced \in BOOLEAN :
               DelRushSale(sig, id, forced)
          /\ UNCHANGED nftVars
       \/ \E id \in DOMAIN upgrades : DelUpgrade(sig, id)
  /\ UNCHANGED <<now, showVars>>

TakeBack ==
  /\ \E sig \in Accounts, k \in Amounts :
       \/ \E id \in DOMAIN sales : SubRushSale(sig, id, k)
       \/ \E id \in DOMAIN upgrades : SubRushUpgrade(sig, id, k)
  /\ UNCHANGED now

\* grab.cisum is reconfigured.
GrabConfig ==
  /\ \/ /\ \E a \in ConfigAccts :
             \/ SetAdmin(a) \/ AddOracle(a) \/ DelOracle(a)
             \/ \E sig \in Accounts : CfgPoint(sig, a) \/ CfgTicket(sig, a)
        /\ UNCHANGED allowTokens
     \/ /\ \E sig \in Accounts, sym \in Syms, bank \in ConfigAccts :
             AddToken(sig, sym, bank) \/ DelToken(sig, sym, bank)
        /\ UNCHANGED grabConfig
  /\ UNCHANGED <<now, showVars, nftVars, lastRushId, lastOrderId, sales,
                 orders, grabStats, upgrades, logs, history>>

Next ==
  \/ ShowSide \/ Ledger \/ Showman \/ Restock \/ Draw
  \/ Campaigns \/ Cleanup \/ TakeBack \/ GrabConfig

Spec == Init /\ [][Next]_vars

-----------------------------------------------------------------------------
(***************************************************************************)
(* Safety.                                                                 *)
(***************************************************************************)

\* available_tickets is recomputed from the other two counters by some
\* handlers and decremented by others: under every interleaving of draws,
\* restocks and take-backs the three agree, and none of them goes negative.
CampaignAccounting ==
  /\ \A id \in DOMAIN sales :
       sales[id].total = sales[id].available + sales[id].grabbed
  /\ \A id \in DOMAIN upgrades :
       upgrades[id].total = upgrades[id].available + upgrades[id].grabbed

\* Ids come from two counters that sales and upgrades share: no id serves
\* twice, and no order, stat or log row outlives its campaign, although a
\* campaign of many rows is deleted by several calls with draws in between.
NoOrphanRows ==
  /\ DOMAIN sales \cap DOMAIN upgrades = {}
  /\ \A id \in DOMAIN sales \cup DOMAIN upgrades : id <= lastRushId
  /\ \A row \in orders : row.scope \in DOMAIN sales /\ row.id <= lastOrderId
  /\ \A key \in DOMAIN grabStats : key[1] \in DOMAIN sales
  /\ \A row \in logs : row.scope \in DOMAIN upgrades /\ row.id <= lastOrderId
  /\ \A r1, r2 \in orders \cup logs : r1.id = r2.id => r1 = r2

\* Within the rows a campaign has, an account wins at most once and a grab id
\* is used at most once.
OneWinPerUser ==
  \A rows \in {orders, logs} : \A r1, r2 \in rows :
    (r1.scope = r2.scope /\ r1 # r2) =>
      /\ r1.grab_id # r2.grab_id
      /\ (r1.win /\ r2.win) => r1.account # r2.account

Winning(rows) == {row \in rows : row.win}

\* The rows are the evidence of the counters: a campaign that no cleanup has
\* touched has a row for each draw and a winning row for each ticket it gave
\* away, and a sale has counted each user's draws; one being cleaned up never
\* shows more than it gave.
DrawsAreRecorded ==
  LET Agree(id, c, rows) ==
        /\ Cardinality(Winning(rows)) <= c.grabbed
        /\ Cardinality(rows) <= c.total_grabs
        /\ id \notin partly => /\ Cardinality(Winning(rows)) = c.grabbed
                              /\ Cardinality(rows) = c.total_grabs
  IN  /\ \A id \in DOMAIN sales : Agree(id, sales[id], InScope(orders, id))
      /\ \A id \in DOMAIN upgrades : Agree(id, upgrades[id], InScope(logs, id))
      /\ \A id \in DOMAIN sales \ partly, u \in Fans :
           Cardinality({row \in InScope(orders, id) : row.account = u})
             = IF <<id, u>> \in DOMAIN grabStats THEN grabStats[<<id, u>>] ELSE 0

-----------------------------------------------------------------------------
(***************************************************************************)
(* Custody.                                                                *)
(***************************************************************************)

\* Tickets of type n that campaigns may still give away.
Pot(n) ==
  SumFunction([id \in DOMAIN sales |->
    IF sales[id].ticket_id = n THEN sales[id].available ELSE 0])
  + SumFunction([id \in DOMAIN upgrades |->
      IF upgrades[id].ticket_id = n THEN upgrades[id].available ELSE 0])

\* grab.cisum can always pay what it owes: the prizes of every campaign and
\* the stakes of every log are covered, type by type, by its balance at the
\* ledger, whoever sends what with which memo and however the ticket
\* contract is configured.
GrabSolvent == \A n \in Nids : Pot(n) + Staked(logs, n) <= bal[GRAB][n]

\* The books of every campaign agree with each other, with the rows that
\* remember who drew and staked, and with what grab.cisum owns.
CampaignBooks ==
  CampaignAccounting /\ NoOrphanRows /\ DrawsAreRecorded /\ GrabSolvent

\* The campaigns that were there keep every value.
OlderKept ==
  /\ \A id \in DOMAIN sales : id \in DOMAIN sales' /\ sales'[id] = sales[id]
  /\ \A id \in DOMAIN upgrades :
       id \in DOMAIN upgrades' /\ upgrades'[id] = upgrades[id]

\* One campaign without tickets.
OpenedEmpty ==
  /\ lastRushId' = lastRushId + 1 /\ UNCHANGED nftVars
  /\ lastRushId' \in DOMAIN sales' => sales'[lastRushId'].total = 0
  /\ lastRushId' \in DOMAIN upgrades' => upgrades'[lastRushId'].total = 0

\* A campaign for each item, in their order, with the tickets of that item.
OpenedFor(items) ==
  /\ lastRushId' = lastRushId + Len(items)
  /\ \A i \in DOMAIN items :
       LET table == IF items[i].kind = "rushsale" THEN sales' ELSE upgrades'
           id == lastRushId + i
       IN  /\ id \in DOMAIN table
           /\ table[id].ticket_id = items[i].nid
           /\ table[id].total = items[i].count
           /\ table[id].available = items[i].count

\* cisumshowman guesses the ids of the campaigns it opens before grab.cisum
\* assigns them, and the tickets follow the guess: a call that opens campaigns
\* touches none of the older ones, and stocks each new one, of the kind and for
\* the ticket ordered, with the count of its own item.  A manager opens one
\* campaign at a time, without tickets.
OpenedAsOrdered ==
  [][lastRushId' > lastRushId =>
       OlderKept /\ (OpenedEmpty \/ \E items \in Rushes : OpenedFor(items))]_vars

Custody == INSTANCE TicketCustody WITH
  pot    <- [n \in Nids |-> Pot(n)],
  escrow <- [n \in Nids |-> Staked(logs, n)],
  stray  <- [n \in Nids |-> bal[GRAB][n] - Pot(n) - Staked(logs, n)]

\* grab.cisum implements TicketCustody: each transaction pays a prize out of
\* the pot or settles stakes out of the escrow, never one from the other, and
\* what nobody claims is never paid to anyone.
CustodySpec == Custody!Spec

\* What fan u owns of type n, with the stakes that did not win.
Wealth(u, n) ==
  bal[u][n]
  + Staked({log \in logs : log.account = u /\ ~log.win}, n)

\* A stake that did not win is only lent: no step of anybody but the fan's
\* own transfer makes the fan poorer, through every page of every cleanup.
StakesComeBack ==
  [][\A u \in Fans, n \in Nids :
       bal'[u][n] >= bal[u][n] => Wealth(u, n)' >= Wealth(u, n)]_vars

\* "prevent the same user from winning twice" (the comment above the
\* by_userwin check of on_transfer_cisum): no draw wins for an account that
\* has won in the same campaign before.
WinsOnce ==
  [][\A row \in orders' \ orders : row.win =>
       <<row.scope, row.account>> \notin everWon]_vars

-----------------------------------------------------------------------------
(***************************************************************************)
(* Liveness.  delupgrade is called by hand, one page per call; a manager   *)
(* is assumed to keep calling it while it is possible, and time to pass.   *)
(***************************************************************************)

CleanUpgrade(id) ==
  /\ \E sig \in Accounts : DelUpgrade(sig, id)
  /\ UNCHANGED <<now, showVars>>

PassTime == Tick /\ UNCHANGED grabVars

Fairness ==
  /\ WF_vars(PassTime)
  /\ \A id \in 1..MaxRushId : WF_vars(CleanUpgrade(id))

FairSpec == Spec /\ Fairness

\* "the logs not processed yet: call again next time" (delupgrade): the calls
\* come to an end, so each upgrade is closed and each stake settled, whatever
\* draws, restocks and changes of the upgrade come in between.
UpgradesClose ==
  \A id \in 1..MaxRushId : id \in DOMAIN upgrades ~> id \notin DOMAIN upgrades

=============================================================================
