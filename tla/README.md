# Verification of the Cisum contracts

TLA+ specifications of the contracts under `src/contracts`, the TLC
configurations that check them on small instances, and theorems about them that
TLAPS proves for every instance. The specifications were translated from the
C++ code; comments in the modules name the action or handler each definition
stands for, and the `map` of `PROJECT.json` gives its lines.

## 1. The system

The repository is a suite of EOSIO smart contracts. An action is one
transaction: it runs alone, the inline actions it sends run after it, depth
first and in order, handlers of `require_recipient` run with it, and a failed
`check` anywhere undoes everything. Concurrency is therefore the order in which
*transactions* of independent callers (fans, managers, other contracts) arrive,
and the hard behaviours are long sequences of legal calls, cleanups that take
several transactions, settings that change under running business, and tables of
different contracts that must agree.

| component | state | operations | talks to |
|---|---|---|---|
| `ticket.cvnft` | token types (supply, cap, issuer, uri), balances, creators, notaries, whitelists | create, issue, retire, transfer (batch), set ip owner / uri / notary / creator, whitelist account or type | notifies sender and receiver of a transfer |
| `show.cisum` | shows; per show the grades on sale with total, sold, issued and stock counts | show and grade create / set / delete, create and mint NFTs, issue, batch reward, buy, hand-over to a rush sale, retire, receive returns | inline create / issue / transfer at `ticket.cvnft`; `mine` at `pop.cisum`; asks `flon.auth` |
| `grab.cisum` | rush sales and rush upgrades with total / available / grabbed counts, orders, per-user stats, upgrade logs, two id counters, allowed tokens, configuration | add / set / delete sale, add / set / delete upgrade, `subgrab`, configuration; handlers for token and ticket transfers (stocking and draws) | reads the grades of `show.cisum`; pays through the configured ticket contract |
| `cisumshowman` | none | `publishshow`, `addupgrades`: one transaction of many inline actions | `show.cisum`, `grab.cisum`, `ticket.cvnft` |
| `flon.auth` | roles, role permissions, roles of users, allowlist, three id counters | add / delete role, grant / revoke, add / delete permissions, allowlist, `checkrole` | asked by the contracts with managers; asks itself, inline, after a change |
| `cisum.token` | balances with the sum each row has consumed, supplies, consume and redeem lists, badge rules | token actions, lists, rules; a payment adds to the sum and announces badges | `cvbadgestore` by notification |
| `cvbadgestore` | badges it minted, notifiers, which contract and account it hands out from | create badge, award on notification, `reward`, settings | creates and transfers at `badge.cvnft` |
| `sing.token` | balances and supply | token actions, minting by three contracts, deletion of rows | - |
| `pop.cisum` | pool and cap of rewards, debt of the platform, sums of the payers, rules, executors | `mine`, `settle`, settings | mints at `sing.token`; announces badges |
| `poe.cisum` | available, claimed and total points, reward codes, operators | batch claim, batch airdrop, `consumeact`, deposits | pays at `cisum.token` |
| `poh.cisum` | funds of inviters per token, issued counters, caps | `registreward`, refuel (with or without terms), `setfundinfo`, `redeemfund` | mints SING and CISUM, consumes points at `poe.cisum`, pays from funds |
| `pos.cisum` | plans, saves of each account, MUSIC treasury | deposit, refuel, MUSIC loan and return, collect interest, withdraw, `setplan`, `delplan` | pays principal, interest, points, MUSIC at their ledgers |
| `blindboxgame` | booths with two counters, the boxes of each booth, settings | create, fill, enable, close booth, buy, maintenance of boxes | the NFT ledgers and the ledgers of the price |
| `cisumreserve` | fee, admin, orders | USDT in, SING out | two ledgers and the swap |
| `artist.cisum` | admin, auditors, artists | register, update, status, meta, delete | - |
| `cisum.vault`, `minyin.vault` | a switch | accept or refuse transfers | - |
| `cisumsummary` | a list of tokens | a view over balances | reads other tables |

### What makes each part correct

- *Ledgers*: the balances add up to the supply, the supply stays within the cap,
  and nobody goes negative.
- *Shows*: every ticket in stock can be delivered; counts are unsigned and mostly
  subtracted without a check, so `stock <= total <= minted` is what keeps them
  meaningful; a ticket taken off the books does not come back on sale.
- *Rush sales and upgrades*: prizes and stakes are always covered by what the
  contract owns; a stake that did not win comes back; a user wins at most once
  in a campaign; ids never serve twice; the cleanup ends and leaves no row behind.
- *Aggregation*: the ids `addupgrades` predicts are those `grab.cisum` assigns, so
  that each campaign gets the tickets ordered for it and no older one changes.
- *Rights*: deleting a role leaves nothing that a later role of the same name
  would inherit; the platform does not lose its last manager by a manager's own
  change; an artist edits nothing but its own row.
- *Badges*: an account gets the badges its spending earns, none twice for one
  threshold, whatever happens to the rules in between.
- *Rewards* (pop, poh, poe): what is minted or paid stays within the caps, within
  the funds of the right sponsor, and on the books of both contracts involved.
- *Custody* (pos, poh, poe, blind boxes, reserve): the balance of the contract
  covers each thing it holds for somebody, whatever the order of calls.

### What is hard to test

`PROJECT.json` lists the hazards, each at its line. The ones this project was
built around: a `delrushsale(forced)` of a *running* sale takes several calls,
with draws in between; `setupgrade` changes the stake and the window while old
stakes are in escrow and while `delupgrade` is half way; `setplan` and `delplan`
change and delete a staking plan that has saves; the sum a badge is awarded by is
read before and after a debit, and erased by `close`; counters that several
actions recompute, decrement or leave alone (`available_tickets`, the points of
`poe.cisum`, the pool of `pop.cisum`, the two counters of a booth); funds drained
by one transaction over three contracts; unsigned counts that are subtracted
without a check.

Two hazards of the code are left out of that list, as the assumptions below
exclude them: the counts of tickets are 32 bits wide while the ledger's amounts
have 64 (`CountAssumption`), and before `grab.cisum` has a global row
`cisumshowman` predicts id 0 where `grab.cisum` starts with 1.

## 2. The modules

| module | models | state and actions |
|---|---|---|
| `EosTable` | the `multi_index` table | `Put`, `PutAll`, `Drop` on partial functions from primary key to row |
| `TicketNFT` | `ticket.cvnft` | `nstats`, `bal`, `creators`, `notaries`, `whitelist`, `nftWhite`; one action per contract action (`NftCreate`, `NftIssue`, `NftRetire`, `NftTransfer`, ...). `CanMove` / `Move` are the check and the effect of one batch transfer on a given ledger, so that a transaction with two transfers can thread them |
| `ShowCisum` | `show.cisum` on the ledger | `shows`, `tickets` (keyed by `<<show_id, nid>>`), `showGlobal`, the clock `now`; each action is the contract action with its inline ledger actions. `OnReturnFromGrab` is `on_transfer_ticket`. `ShowSpec` closes the module with fans and an arbitrary contract at the `grab.cisum` account |
| `GrabCisum` | `grab.cisum` | `sales`, `orders`, `grabStats`, `upgrades`, `logs`, counters and configuration; `Grab` is `on_transfer_cisum`, `OnAddRushSale`, `OnAddRushUpgrade` and `RushUpgradeDraw` are the three branches of `on_transfer_ticket`; `DelRushSale` and `DelUpgrade` erase one page per call, as the code does; `SubRushSale` and `SubRushUpgrade` are `subgrab` |
| `CisumShowman` | `cisumshowman` | `PublishShow`, `AddUpgrades`: the net effect of the whole transaction, with the checks of every inline action |
| `TicketCirculation` | the four contracts together | `Next` is the disjunction of what each party may do: `ShowSide`, `Ledger`, `Showman`, `Restock`, `Draw`, `Campaigns`, `Cleanup`, `TakeBack`, `GrabConfig`; here are the properties that span contracts |
| `TicketCustody` | what `grab.cisum` promises about the tickets it holds | `pot` (prizes), `escrow` (stakes), `stray` (claimed by nobody), with the five ways they may change. `TicketCirculation!CustodySpec` is the refinement: pot = sum of the available tickets of the campaigns, escrow = sum of the stakes of the logs, stray = the rest of the balance |
| `FlonAuth` | `flon.auth` | `roles`, `userroles`, `roleperms` with their counters, `admin`, `allowlist`; `RequireManagePerm` is the inline `checkrole`, evaluated on the tables the change *leaves*, as the code does. `change` remembers who made the last change |
| `ArtistCisum` | `artist.cisum` | `artists`, `auditors`, the admin; of the public fields two are kept, `bio` for those an artist may set by key and `country` for those it may not |
| `BadgeStore` | `cvbadgestore`, and the part of `badge.cvnft` it relies on | `badges`, `stock`, `notifiers`, settings; `OnNotifyAward` is the effect of an award within the transaction that announces it |
| `BadgeRules` | the rules of `cisum.token` and `pop.cisum`, which are the same code twice | `rules` and the history `tally` (spent and awarded per rule and account); `AwardPacks` is `try_award_badges` |
| `CisumToken` | `cisum.token` | `accounts`, `stats`, `issuer`, the lists; `TokenTransfer` is the payment with the sum before, the sum after and the award |
| `SingToken` | `sing.token` | `purse`, `coinstat`; `drift` is what the deletions of rows separated; `MintTo` is `issue` as the mining contracts call it |
| `PopCisum` | `pop.cisum` over `SingToken` and `BadgeRules` | the pool of four counters, `receivable`; `MineRewarded` and `MineSkipped` are the two ways `mine` ends |
| `PoeCisum` | `poe.cisum` | the three counters of points, codes, operators; `bank` is its balance at `cisum.token` |
| `PohCisum` | `poh.cisum` over `PoeCisum` | `funds`, the issued counters; `RegisterAlone` and `RegisterInvited` are the transaction of `registreward` over both contracts |
| `PosCisum` | `pos.cisum` | `plans`, `saves`, `music_treasury`, the clock; `held` is what the token ledgers keep for it; interest, points and fine are computed with the two roundings of `safemath` |
| `BlindBox` | `blindboxgame` | `booths`, their `boxes`, `vault` for the NFT ledgers; `DrawsOf` leaves the random draw open |
| `CisumReserve` | `cisumreserve` | `orders`, fee, admin, the two reserves; any price |
| `TicketStockProofs`, `TicketCirculationProofs`, `TicketCustodyProofs`, `AwardsProofs`, `FundsProofs`, `ReserveBoxProofs`, `FlonAuthProofs`, `SumTheorems` | - | theorems and proofs (section 4) |
| `MCTicketNFT`, `MCShowCisum`, `MCTicketCirculation`, `MCAwards`, `MCFunds`, `MCRights` | - | values, scenes and initial states for the small instances |

Abstractions. A signer is an argument; `ShowAuth`, `ManageAuth` and the like say
who may sign, with the answers of `flon.auth` as the constants `RoleShow`,
`RoleDelShow`, `RoleGiveTicket`, `ShowRole` and `AllowList`: those contracts only
ask yes or no, at the moment of the call, and what `flon.auth` itself keeps is
checked in `FlonAuth`. Memos are replaced by the handler branch they select. Times
are small integers, names are model values, and a 64-bit hash that keys a row is
the value it is taken from. A batch transfer is given by the amount it moves of
each type; only its first asset is booked by the handlers, and the rest
(`Extras`) is what a sender adds. Random numbers and swap prices may come out
anyhow. Units are scaled down (`SingUnit`, `Bps`, `PctBoost`, `YearDays`, `RatioBase`),
every rounding is kept. History variables are read by no guard of the code's
actions: `everWon` and `partly` (who has won, which campaigns a cleanup left half
done), `tally`, `drift`, `change`, `orphaned` and the like. `supply` is an integer
that may go below zero only if a check is missing, while ticket counts are
`% CountMod` (2^32 in the code).

Assumptions about the deployment, each visible in the modules: `init` of
`show.cisum` is called with `ticket.cvnft` as bank; no supply cap reaches 2^32;
`grab.cisum` has saved its global row before `addupgrades` is used; the fans are
plain accounts; the whitelist of the ledger keeps `show.cisum` and `grab.cisum`;
`pos.cisum` has been initialised and keeps one principal token; sums of money do not
overflow 64 bits (the reward of a `poh.cisum` fund, given in whole units and
multiplied by 10^precision, included).

## 3. The runs

| run | question | bounds |
|---|---|---|
| `nft_ledger` | does the ledger conserve units and respect caps, whoever calls it | two accounts (the ledger, which also stands for `cisumshowman` and the badge store, and one other), two types, two uris, cap 2 |
| `show_stock` | do the books of `show.cisum` stay within what was minted and what it owns, with a counterpart that returns anything it owns to any show | two shows selling one type, one fan, cap 3, amounts 1 and 2, batches that name the fan twice, counts modulo 4, two ticks |
| `rush_sale` | accounting, id discipline, evidence rows, one winner, solvency and custody for a sale | up to one new sale, two fans who hold a ticket each, one in stock of three, pages of one row, two windows, three draws |
| `rush_upgrade` | the same books (`CampaignBooks`) for an upgrade whose stake and window change under it, custody, and whether lost stakes come back | one upgrade, two fans who hold two tickets each, two stakes (one and two tickets), two windows, a prize type of one ticket, tickets sent along uninvited, pages of one row, three draws |
| `campaign_setup` | are the ids `addupgrades` predicts those that `grab.cisum` assigns, whatever was opened and deleted before, so that each campaign gets the tickets of its own item (`OpenedAsOrdered`); does any reconfiguration make `grab.cisum` owe more than it has | empty catalogue, one poster of two types, a list of one campaign and two lists of two (a sale and an upgrade, two sales of one type), up to three campaigns, one fan |
| `upgrade_closes` | does the paged settlement end | one upgrade, one fan, pages of one row |
| `awards` | do the two tokens conserve what they issue, do payers get the badges they earned, does the budget of the rewards hold | four scenes, below |
| `funds_held` | is what five contracts hold for others there, and do their books say so | eight scenes, below |
| `rights` | does `flon.auth` lose, duplicate or leave behind a right; who can touch a row of `artist.cisum` | three accounts, two roles and the two management permissions, two rows per table; two people who are admin, auditor and artist in turn |
| `unique_uri`, `wins_once`, `pos_early` | three statements of comments that the code does not keep (section 5) | the instances above; for `pos_early` one plan without a fine |

*Scenes.* `MCAwards`, `MCFunds` and `MCRights` put several contracts into one run.
A scene is chosen in the initial state and never changes; the contracts of one
scene share no table with those of another, so interleaving them would show
nothing that each alone does not. Contracts that do share tables are always in
one scene.

| scene | contracts | what happens |
|---|---|---|
| `awards`: trade | `cisum.token`, `cvbadgestore` | 30 units circulate between a fan and a shop, payments of 10 and 20, thresholds 10 and 30, two rules made, repointed, switched off and deleted between payments, one close of a row, badges run out |
| `awards`: genesis | the same | every action of token and store from empty tables, one badge, one rule |
| `awards`: mining | `pop.cisum`, `sing.token`, `cvbadgestore` | a fresh `pop.cisum` with the default pool of 6, four payments of 5, 15 or 25 at two prices, cap 3 or 6, cap of the token 5: pool, cap and supply all run out |
| `awards`: ledger | `sing.token` | every action, deletion of rows included |
| `funds_held`: stake | `pos.cisum` | two savers, a term plan with fine and loan of MUSIC, a plan that pays points, three days |
| `funds_held`: switch | `pos.cisum` | two saves of one saver while the plan becomes shorter, longer, a demand plan, or one with another interest token |
| `funds_held`: funds, points | `poh.cisum`, `poe.cisum` | one sponsor with funds in two tokens merged, drained and redeemed; sign-ups and operators on one pool of points |
| `funds_held`: poe | `poe.cisum` | the contract from its first day, claims in pairs, airdrops that name an account twice, batches of three and a drop at the limit |
| `funds_held`: booths, repairs | `blindboxgame` | two booths of one owner on one ledger with two kinds of NFT; one booth whose boxes maintenance edits |
| `funds_held`: reserve | `cisumreserve` | three orders, two prices, five fees, repeated `init` |

Why these bounds are enough for what they show. Every handler touches one
campaign, plan, booth or fund, one or two types and one or two users at a time; a
second user is needed for interference and a second show or booth for shared
balances, and both are there. Pages of one row make every cleanup of two rows a
multi-call cleanup, which in the code takes more than 1000 orders or 100 logs. A
cap of 2 or 3 units makes "the last one" and "none left" happen in every run. Two
windows are enough for a campaign to end, be extended and end again; a term of two
days in a clock of three or four gives a save before, at and after its term. The
thresholds 10 and 30 with payments of 10 and 20 give payments that cross none, one
and several thresholds of one and of two rules. `MaxRushId`, `MaxOrderId`,
`MaxTime`, `MaxSpent`, `MaxMines`, `MaxSaves`, `MaxHeld`, `MaxFund`, `MaxPoints`,
`MaxBooths`, `MaxNfts`, `MaxOrders`, `MaxId` and the other constants commented
`bound` are the only bounds on counters. They stop behaviours, so the runs do not
look for deadlock (`CHECK_DEADLOCK FALSE`): with all tickets handed out and the
clock at its bound the model really stops.

`CustodySpec` is checked with the ticket contract configured as `ticket.cvnft`.
With another one (`campaign_setup`) the payouts do nothing, so winners and stakers
are not paid; the contract stays solvent but does not honour custody.

Some run properties are conjunctions, each of the named parts with its own
comment: the type invariants of the contracts of a run (`AwardsTypeOK`,
`FundsTypeOK`, `RightsTypeOK`), `CampaignBooks`, `BalancesCovered`,
`RewardBudget`, `IssuesAccounted`, `BoothsAddUp`, `ReserveAccounts`,
`BadgesFollowSpending`, `OwnRowOnly`.

Fairness (`upgrade_closes`). Nothing in the code calls `delupgrade`; the comment
in it says "call again next time". The run assumes a manager who keeps calling it
while it is possible, `WF_vars(CleanUpgrade(id))`, and that time passes,
`WF_vars(PassTime)`. No fairness is assumed of fans. The whitelist of the ledger
and the configuration of `grab.cisum` stay put in that run: a refund the
whitelist blocks would stop the settlement, which is listed as a hazard. The other
contracts promise nothing that must eventually happen: every step of theirs is
somebody's call.

### What the runs made visible

Consequences of the code that the models keep, none of which breaks a property:

- *Badges.* A rule that got id 0 can be deleted but never modified, as 0 means
  "new". A payment in a second symbol is measured against the thresholds of the
  first. An empty stock of badges blocks the payment that earns one. `close`
  erases the sum, so the next threshold is reached later, never earlier.
  `badge_from` is tested for being set, nothing more.
- *Rewards.* `setmaxreward` truncates the pool but a raised cap adds nothing, so
  available and issued rewards no longer add up to the cap. A payment that is
  skipped is in neither table.
- *Staking.* A plan of 0 days accepts no deposit, although its comment allows it.
  A second `init` resets `last_save_id`, and the next deposit fails if its id is
  taken. `delplan` strands the saves of the plan until the id is used again. The
  fine is rounded half up where its name says up.
- *Points and funds.* `delrewardact` forgets what a code has given out.
  `setfundinfo` may put the start of a fund after its end.
- *Blind boxes.* After maintenance a draw may fall beyond the boxes of a booth: an
  iterator at its end is read. Whatever it reads, the transfer of an NFT the
  contract does not have fails, so the model lets the purchase fail (`InRange`). No
  property can catch such a draw; `BoothsAddUp` says that it cannot happen in a booth
  that maintenance left alone. A booth may be created for zero days.
- *Reserve.* A second `init` starts the order ids again; the exchange that
  reaches a taken id fails.
- *Artists.* `updateartist` ignores the status of the row and lets an artist set
  its own country and level.
- *Rights.* A change is checked after it was made, by an inline action; a change
  by which a manager loses its right to make it is undone.

## 4. The proofs

TLAPS checks every leaf; nothing is assumed beyond the named `ASSUME`s of the
modules and the hypotheses a theorem states. The theorems hold for every set of
accounts, types, shows, roles, plans and amounts, for pages of any size and clocks
of any length, where a run has two or three of each.

| module | about | inductive invariant | theorems |
|---|---|---|---|
| `SumTheorems` | sums over finite sets | - | lemmas only |
| `TicketStockProofs` | `TicketNFT`, `ShowCisum` | `NftInv /\ AddsUp`; `ShowInv /\ Holdings` | `NftInvariant`, `NoTicketFromNowhere`, `ShowTypes`, `StockStaysWithinTotal`, `NothingOversold`, `StockIsDeliverable`, `NothingComesBack`, `UrisUniqueByCreate` |
| `TicketCirculationProofs` | the four ticket contracts: tables and stock | `GrabInv`; `StoreInv`; `SupplyInv` | `GrabTypes`, `CampaignsBalance`, `RowsHaveCampaigns`, `WinnersDiffer`, `ItemsReachTheirCampaigns`, `StockStaysBacked`, `TicketsAddUp`, `NothingComesBackAcross`, `CountsStayInOrder` |
| `TicketCustodyProofs` | the tickets `grab.cisum` holds | `CustodyInv`; `WinsInv` | `GrabStaysSolvent`, `NothingFallsShort`, `GrabImplementsCustody`, `StakesAreLent`, `LedgerStaysConfigured`, `DrawsStayRecorded`, `CampaignBooksHold`, `SecondWinNeedsCleanup`, `CleanupsTerminate` |
| `AwardsProofs` | `SingToken`, `PopCisum`, `CisumToken` with the badges | `SingInv`, `PopInv`, `TokenInv`; `ScenesInv` | `NoSingCreated`, `SingTypes`, `MiningConserves`, `PaymentsStayInBudget`, `PaymentsEarnBadges`, `PopTypes`, `TokensAddUp`, `SpendingEarnsBadges`, `AwardsTypes`, `AwardsScenesTypes`, `AwardsScenesBooks` |
| `FundsProofs` | `PoeCisum`, `PohCisum`, `PosCisum` | `PoeInv`, `PohInv`, `PosInv` | `PointsStayBacked`, `PointsStayBackedAcross`, `FundsAreKept`, `SignupsAreAccounted`, `FundTypes`, `StakesAreCovered`, `PlansAccountForSaves`, `InterestStaysWithinTerm`, `PosTypes` |
| `ReserveBoxProofs` | `CisumReserve`, `BlindBox`; the scenes of `MCFunds` | `ReserveInv`, `BoxInv`; `ScenesInv` | `ReserveKeepsAccounts`, `ReserveTypes`, `BoothsKeepBooks`, `BoxesStayBacked`, `BoxTypes`, `FundsTypes`, `FundsScenesBooks` |
| `FlonAuthProofs` | `FlonAuth`, `ArtistCisum` | `AuthInv`; `ArtistTypeOK` | `AuthTypes`, `RolesAreReal`, `RightsHeldOnce`, `SomeManagerRemains`, `ArtistTypes`, `ArtistsEditTheirRow`, `RightsTypes` |

*Sums.* Most of what these contracts promise is that two sums agree: balances and
supply, stakes and holdings, deposits and saves. The models write them with
`SumFunction` and `SumFunctionOnSet`, which fold over a set and choose the order.
The induction theorems of the library take a predicate as a parameter, which the
provers cannot instantiate; `SumTheorems` goes round them. Its `SetInduction` is
about a *set* of subsets instead of a predicate on them, and `RunningDef` shows, by
induction on the size of the subsets, that the function the fold chooses exists and
satisfies its recursive equation. What follows is what the
proofs cite: the sum does not depend on the order (`SumOnSplit`), how it changes when a
key is added, dropped or rewritten, when two keys exchange an amount, when keys are
renamed (`SumReindex`), and that the parts of a partition add up to the whole
(`SumOnParts`, `SumByOwner`). A proof
that a step keeps a balance then says which keys the step touches, and no more.

*Ledger and shows.* `NftInv` is the type invariant with "the supply is within the
cap"; `AddsUp` says that the balances of a type add up to its supply, kept by a
transfer because it moves what it takes. The properties of `show.cisum` hold together
or not at all: `issuenft` adds to an unsigned 32-bit count without a check, so "no
wrap" needs `total <= supply`, the supply needs its cap, and the cap needs
`CountAssumption`. `ShowInv` conjoins the types, the bounds of the ledger rows
(`StatsBounded`) and of the books (`Books`). The `...OK` lemmas are about one grade:
what each operation does to it stays within bounds (in `WrittenOffOK` the unchecked
subtraction is shown not to wrap); the `...Step` lemmas lift them to the actions.
`StockBacked` is a sum over the shows that sell a type. Its proof is one action
property, `SurplusKept`: no step makes what `show.cisum` owns beyond its stock
smaller. `RetiredStaysRetired` says this of every step. `UrisUniqueByCreate` narrows
down finding 2: `create` looks before it takes a uri, so along every behaviour in which
no `settokenuri` is given a uri that another type has, no two types share one.

*Campaigns.* `GrabInv` is the invariant of `grab.cisum` with all four contracts
running: types and settings, the numbering of campaigns and rows by their two
counters, the accounting of each campaign, the scope of each row, and that the rows
of a campaign differ in grab id and in winner. None of its properties is inductive
alone. A draw needs the numbering (its row gets an id nobody has) and the accounting
(the prize it takes is there, so `available` stays a natural number); the last call of
a deletion needs the scopes (it erases the campaign only after a page with no row left
behind it, and so leaves none); an edit needs both, as it recomputes one count from
two others. `NewCampaigns` adds any number of rows under fresh ids, by which
`addrushsale`, `addupgrade` and `addupgrades` are one case, and
`RowsGone` erases rows; everything that leaves the tables of `grab.cisum` alone is
`QuietStep`. `WinnersDiffer` is about the rows that exist, which is what the handlers
can see; that a winner whose row is gone can win again is finding 1.
`AddUpgrades` keeps the id an item is promised (`PredictedId`, counted by `cisumshowman`
from one reading of the counter) apart from the id its campaign gets (`AssignedId`), and
books each transfer under the former; `BookedAsOrdered` shows that the two bookings
coincide, because an id above the counter is nobody's yet, and `ItemsReachTheirCampaigns`
follows for lists of any length. `StoreInv` carries
`SurplusKept` over to the four contracts, where more actions move tickets of
`show.cisum`. `TicketsAddUp` says that they make and lose no ticket between them:
`HeldByPair` covers every transfer between two accounts, `HandedOut` with
`SumByOwner` the two actions that hand out to many at once, `batchreward` and a page of
`delupgrade`. The latter needs `StakersDiffer` (`grab.cisum` does not draw), as a
refund to the sender would be booked twice.

*Custody.* Solvency of `grab.cisum` is: what it holds of a type is at least the prizes
of the campaigns (pot) and the stakes in the logs (escrow). The proof is that the rest,
`Stray`, is zero at first and never shrinks (`StrayKept`), case by case over every
action: a stocking adds to pot what it adds to the balance, a draw adds the
stake to the escrow and the balance and on a win takes the prize from the pot and the
balance, a page of a cleanup takes from the escrow the stakes of just the logs it pays out.
A draw with stake and prize of one type would count both in one row of the ledger;
`StakeDiffers` says that the code lets none be configured, and `CustodyInv` is
`GrabInv /\ StoreInv /\ StakeDiffers`. The same steps, with the amounts
named, are the five actions of `TicketCustody`, so `GrabImplementsCustody` comes from
the same lemmas. `GrabStaysSolvent` holds with any configuration. `GrabImplementsCustody`
and `StakesAreLent` have the hypothesis `[]PaysTickets`, that the ticket contract
configured with `cfgticket` is `ticket.cvnft`: with another one a cleanup erases the logs
while its payments do nothing, and the stakes become stray, which is not custody.
`LedgerStaysConfigured` shows that nothing but `cfgticket` can break the hypothesis.
`DrawsAreRecorded` counts rows: one row per grabbed ticket or draw, except in the campaigns a
cleanup has begun to erase (`SalesRecorded`, `UpgradesRecorded`, `StatsRecorded`).
`NothingFallsShort` draws the conclusion for the callers: neither a prize nor a
take-back nor a page of refunds, of whatever size, can fail for want of tickets.

*Second wins and closing.* `SecondWinNeedsCleanup` narrows down finding 1. `WinsInv`
relates the history of winners to the rows: whoever has won in a campaign that no
cleanup has left half erased still has a winning row there, which is what the handler
looks at (`Remembered`). It is kept because a win writes the row in the same step, only
the cleanups erase rows, and the number of a campaign is not used twice; so a draw that
wins for an earlier winner is one in a half-erased campaign. `CleanupsTerminate` is the
safety half of `UpgradesClose`, for pages of any size: `Work` of an upgrade is twice the
draws still to come plus its rows. A draw uses up one of the former and adds one of the
latter, a page of `delupgrade` erases rows or closes the upgrade, and no step of anybody
adds to the sum. That the calls are made is the fairness assumption and stays with the
run. The draws to come are finite because of the bound on row ids (`MaxOrderId`); in the
code, where they are 64-bit, an upgrade without new draws is closed by as many calls as
it has pages.

*Tokens and badges.* `SingInv` has the balances with the drift of deleted rows add up
to the supply, and the supply within the cap. `PopInv` adds the pool and the rules: a
payment takes from the pool what it mints. `TokenInv` contains `SpendingFits`, the
relation between the sum stored in a payer's row and the history of each rule, which is
what makes "one badge for each threshold crossed" inductive over changes of rules,
debits and `close`. `SpendingEarnsBadges` is proved for `TokenSymbols = {Currency}`: the
code applies the rules of the platform token to the sum of whatever symbol is paid
(`src/contracts/cisum.token/src/cisum.token.cpp:409`), so with a second symbol a payer is
measured against the wrong sum and the property does not hold.

*Funds and stakes.* `PoeInv` is types with `PointsBacked`. `PohInv` adds the funds of all
sponsors and the mint counters to it; `registreward` is one step over both contracts.
`PosInv` has the scalars, the form of saves and plans (`InterestWithinTerm` is part
of the form of a save), the balance of the principal at least the deposits and the interest
kept in it, the balance of MUSIC the treasury less the loans, and each plan's deposits
the sum of its saves. A withdrawal pays principal, interest, points, a fine and a loan
out of balances that may be one and the same; that principal, MUSIC and CISUM have
different symbols (`PosAssumption`, as deployed) keeps their books apart.

*Reserve and boxes.* `ReserveInv` is `ReserveAccounts` with types. `BoxInv` relates three tables:
the two counters of a booth to the number of its boxes, and for each ledger the number
of boxes of its booths to what the vault holds of it. `BoxSpec` includes the
maintenance actions of the contract account, which edit boxes behind the
counters: they end the claim on the counters of that booth and on no other.

*Rights.* `AuthInv` says of each of the three tables that its rows have keys
within its counter and no row occurs twice (`Numbered`), and that every role that is
referred to exists. The parts need each other: a new row is not in the table only
because its key is above the counter, `grantrole` may add a grant because the role
exists, and `delrole` leaves nothing dangling because it takes the permissions along
and refuses a role that is held. None of `AuthTypes`, `RolesAreReal` and
`RightsHeldOnce` needs the check of rights, so they hold whoever calls;
`SomeManagerRemains` and `ArtistsEditTheirRow` are about that check, and are action
properties proved from the types.

*What the proofs assume of the constants.* Sets of accounts that are summed over are
finite, as tables of a chain are. `OpeningAssumption` describes the state a run of the four
contracts starts in: the stock of the shows that are there is covered by what
`show.cisum` holds, `grab.cisum` holds nothing, and fans hold only types that exist. Amounts, caps, thresholds and
periods are natural numbers; `CountAssumption` excludes a supply cap of 2^32.

*Whole runs.* The type invariants of three runs are conjunctions over contracts that
share no table, in scenes some of which start with tokens, badges, a budget or points at
hand. `AwardsScenesTypes`, `FundsTypes` and `RightsTypes` prove them of the specification
TLC checks. For the first two every scene starts in `ScenesInv`, the conjunction of the
invariants of its contracts, and takes steps of one group of them; `AwardsScenesBooks` and
`FundsScenesBooks` are the other invariants of those runs. In the `ScenesInv` of `MCAwards`
the scene decides which sums the rules are held against: those of pop.cisum or those of
the token. `SceneAssumption` and `InviteAssumption` say that the accounts, the badge and
the points the scenes mention are among those of the run.

*Only model-checked.* `UpgradesClose` is a liveness property under fairness; its ranking
argument is proved (`CleanupsTerminate`). The three properties of section 5 fail, as the
code has it; for two of them a theorem says what has to happen first.

## 5. Findings

- **An account can win twice in a rush sale** (`wins_once`). The rule that a user
  wins once is checked against the orders that still exist. `delrushsale` with
  `forced` on a sale that is still open erases a page of orders and returns when
  more are left; the sale goes on. A winner whose order was in that page, and whose
  draws are not used up, can draw again and win again. The comment on the check
  says it prevents the same user from winning twice.
- **Two token types can share a uri** (`unique_uri`). `create` refuses a uri in use
  and the field is documented as globally unique; `settokenuri` does not look.
- **A plan without a fine cannot be redeemed early** (`pos_early`). A plan says
  whether advance redemption is allowed. An early `withdraw` always transfers the
  fine to the penalty account, and a ledger refuses to transfer nothing: with a fine
  of zero, or one that rounds to zero, the redemption fails until the term is over.

Read in passing, without a run of its own: `stock_count` is not
`total_count - sold_count`, contrary to the comment on the field, because a hand-over
to a rush sale leaves the stock without being sold.

## 6. What is not modelled

Inside the ticket contracts: timestamps, descriptions, prices in the platform
token, the `pop.cisum` reward of `buyticket`, the token a draw is paid with (it
stays at `cisum.token`; whether it matches the price and comes from the allowed
contract is modelled), the co-signature of `ticket.cvnft` on transfers, and
`show.cisum` itself taking part in a draw. That a deleted campaign strands the tickets
it still had is what the code does; `CustodySpec` says only that they are never paid out
for another campaign. `notenftissue` and `notifyticket` only
log or notify.

Inside the others: `settokenuri` of `cvbadgestore` and `setuint` of `artist.cisum`,
which change no state of their contract; the first `init` and a change of the
principal token of `pos.cisum`, and its counter `redeemed`, which nothing reads;
the descriptive fields of plans, funds, booths and artists; the change of a purchase at
`blindboxgame` and the share of the distributor (only the recorded payment is
modelled). `badge.cvnft`,
`flon.ntoken`, the swap, and the token ledgers as seen by `pos.cisum`, `poh.cisum`,
`poe.cisum`, `blindboxgame` and `cisumreserve` are external: a balance per account
and the refusal to transfer nothing or more than there is.

Whole components: `cisum.vault` and `minyin.vault` are a switch and a filter on
memos, and no token leaves them by an action of theirs; `cisumsummary` is a list of
tokens and a read-only view; `libs/base` holds table wrappers and string helpers
without state of their own; the `*.gen.cpp` files are dispatchers generated from the
contracts. There is nothing in them whose order of steps could matter.
