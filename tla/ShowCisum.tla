------------------------------ MODULE ShowCisum ------------------------------
(***************************************************************************)
(* show.cisum: shows, their ticket grades and the stock of each grade.     *)
(* The contract is the issuer and the first owner of every ticket: it      *)
(* mints into its own balance at ticket.cvnft and books what it may still  *)
(* give away as stock_count.  The books and the ledger are two tables of   *)
(* two contracts, kept in step only by the inline actions of each          *)
(* operation.                                                              *)
(***************************************************************************)
EXTENDS TicketNFT, Sequences

CONSTANTS
  SHOW,             \* the account show.cisum is deployed to
  GRAB,             \* the account grab.cisum is deployed to
  Fans,             \* ticket holders: plain accounts, no contract of the platform
  RoleShow,         \* accounts cisum.auth grants the permission "show"
  RoleDelShow,      \* ... the permission "delShow"
  RoleGiveTicket,   \* ... the permission "giveTicket"
  AllowList,        \* accounts on the allowlist of cisum.auth
  ShowIds,          \* show ids
  ShowDates,        \* <<show_started_at, show_ended_at>>, 0 for "not given"
  SaleWindows,      \* <<sale_started_at, sale_ended_at>>
  UsdtPrices,       \* ticket prices, in units of 10^-6 USDT
  Batches,          \* recipient lists batchreward is called with
  MaxBatch,         \* 500 in the code
  CountMod,         \* ticket counts are uint32_t: 2^32 in the code
  MaxTime           \* bound on the clock

ASSUME ShowAssumption ==
  /\ {SHOW, GRAB} \cup RoleShow \cup RoleDelShow \cup RoleGiveTicket
       \cup AllowList \cup Fans \subseteq Accounts
  /\ SHOW # GRAB /\ {SHOW, GRAB} \cap Fans = {}
  /\ ShowDates \subseteq Nat \X Nat
  /\ SaleWindows \subseteq Nat \X Nat
  /\ UsdtPrices \subseteq Nat
  /\ \A batch \in Batches : batch \in Seq(Accounts)
  /\ MaxBatch \in Nat /\ MaxTime \in Nat

\* No supply cap reaches the width of a count: a bound of the model, the code
\* does not check it.
ASSUME CountAssumption ==
  /\ CountMod \in Nat \ {0}
  /\ \A max \in MaxSupplies : max < CountMod

VARIABLES
  now,         \* block time
  showGlobal,  \* the global singleton: [admin, nft_bank]
  shows,       \* show_id -> [show_started_at, show_ended_at]
  tickets      \* <<show_id, nid>> -> ticket grade

showVars == <<showGlobal, shows, tickets>>

Ticket == [price_usdt : Nat, total_count : Nat, sold_count : Nat,
           stock_count : Nat, issued_count : Nat,
           sale_started_at : Nat, sale_ended_at : Nat]

ShowTypeOK ==
  /\ now \in 0..MaxTime
  /\ showGlobal \in [admin : Accounts \cup {NoName},
                     nft_bank : {NoName, TICKET}]
  /\ DOMAIN shows \subseteq ShowIds
  /\ \A s \in DOMAIN shows :
       shows[s] \in [show_started_at : Nat, show_ended_at : Nat]
  /\ DOMAIN tickets \subseteq ShowIds \X Nids
  /\ \A t \in DOMAIN tickets : tickets[t] \in Ticket

-----------------------------------------------------------------------------
\* require_perm, after the two signatures that need no role.
ShowAuth(signer, role) ==
  signer \in {SHOW, showGlobal.admin} \cup role

\* issue and buyticket ask for the allowlist instead of a role.
IssuerAuth(signer) == ShowAuth(signer, AllowList)

\* nft_bank is where the inline ticket actions are sent.  init is only called
\* with ticket.cvnft for it, so once set it is the ledger.
BankSet == showGlobal.nft_bank # NoName

Wrap(count) == count % CountMod

\* init, signed by show.cisum; it may be called again.
Configure(admin, bank) ==
  /\ showGlobal' = [admin |-> admin, nft_bank |-> bank]
  /\ UNCHANGED <<now, shows, tickets, nftVars>>

CanShow(s, dates) ==
  /\ dates[1] # 0
  /\ dates[2] # 0 => dates[2] >= dates[1]
  /\ s \notin DOMAIN shows

NewShow(signer, s, dates) ==
  /\ ShowAuth(signer, RoleShow)
  /\ CanShow(s, dates)
  /\ shows' = Put(shows, s, [show_started_at |-> dates[1],
                             show_ended_at |-> dates[2]])
  /\ UNCHANGED <<now, showGlobal, tickets, nftVars>>

SetShow(signer, s, dates) ==
  /\ ShowAuth(signer, RoleShow)
  /\ s \in DOMAIN shows
  /\ dates[1] # 0
  /\ dates[2] # 0 => dates[2] >= dates[1]
  /\ shows' = [shows EXCEPT ![s] = [show_started_at |-> dates[1],
                                    show_ended_at |-> dates[2]]]
  /\ UNCHANGED <<now, showGlobal, tickets, nftVars>>

\* Every grade of the show goes first, sold or not, then the show.
DelShow(signer, s) ==
  /\ ShowAuth(signer, RoleDelShow)
  /\ s \in DOMAIN shows
  /\ tickets' = [t \in {u \in DOMAIN tickets : u[1] # s} |-> tickets[t]]
  /\ shows' = Drop(shows, s)
  /\ UNCHANGED <<now, showGlobal, nftVars>>

FreshGrade(usdt, window) ==
  [price_usdt |-> usdt, total_count |-> 0, sold_count |-> 0,
   stock_count |-> 0, issued_count |-> 0,
   sale_started_at |-> window[1], sale_ended_at |-> window[2]]

CanList(s, n, window) ==
  /\ window[1] # 0 /\ window[2] >= window[1]
  /\ <<s, n>> \notin DOMAIN tickets

NewTicket(signer, s, n, usdt, window) ==
  /\ ShowAuth(signer, RoleShow)
  /\ BankSet
  /\ s \in DOMAIN shows
  /\ CanList(s, n, window)
  /\ tickets' = Put(tickets, <<s, n>>, FreshGrade(usdt, window))
  /\ UNCHANGED <<now, showGlobal, shows, nftVars>>

SetTicket(signer, s, n, usdt, window) ==
  /\ ShowAuth(signer, RoleShow)
  /\ <<s, n>> \in DOMAIN tickets
  /\ window[1] # 0 /\ window[2] >= window[1]
  /\ tickets' = [tickets EXCEPT ![<<s, n>>].price_usdt = usdt,
                                ![<<s, n>>].sale_started_at = window[1],
                                ![<<s, n>>].sale_ended_at = window[2]]
  /\ UNCHANGED <<now, showGlobal, shows, nftVars>>

-----------------------------------------------------------------------------
(***************************************************************************)
(* Minting: an inline create or issue at ticket.cvnft.                     *)
(***************************************************************************)

CreateNft(signer, max, n, uri) ==
  /\ ShowAuth(signer, RoleShow)
  /\ BankSet
  /\ NftCreate(SHOW, max, n, uri, SHOW)
  /\ UNCHANGED <<now, showVars>>

\* The books of an issuenft of k.
Minted(grade, k) == [grade EXCEPT !.total_count = Wrap(@ + k),
                                  !.stock_count = Wrap(@ + k)]

IssueNft(signer, s, n, k) ==
  /\ ShowAuth(signer, RoleShow)
  /\ BankSet
  /\ <<s, n>> \in DOMAIN tickets
  /\ NftIssue(SHOW, n, k)
  /\ tickets' = [tickets EXCEPT ![<<s, n>>] = Minted(@, k)]
  /\ UNCHANGED <<now, showGlobal, shows>>

-----------------------------------------------------------------------------
(***************************************************************************)
(* Giving tickets away.                                                    *)
(***************************************************************************)

\* Stock covers k; mutant: unchecked.
AnyStock(s, n, k) == <<s, n>> \in DOMAIN tickets
HasStock(s, n, k) == tickets[<<s, n>>].stock_count >= k

\* The "sold overflow" check; mutant: unchecked.
AnySold(s, n, k) == <<s, n>> \in DOMAIN tickets
SoldFits(s, n, k) ==
  Wrap(tickets[<<s, n>>].sold_count + k) <= tickets[<<s, n>>].total_count

\* The books of an issue of k.
Sold(grade, k) == [grade EXCEPT !.sold_count = Wrap(@ + k),
                                !.stock_count = @ - k,
                                !.issued_count = Wrap(@ + k)]

\* The books of `times` issues of k tickets each, checked one by one.
BookIssues(s, n, k, times) ==
  /\ s \in DOMAIN shows
  /\ BankSet
  /\ k > 0
  /\ <<s, n>> \in DOMAIN tickets
  /\ HasStock(s, n, k * times)
  /\ now <= tickets[<<s, n>>].sale_ended_at
  /\ SoldFits(s, n, k * times)
  /\ tickets' = [tickets EXCEPT ![<<s, n>>] = Sold(@, k * times)]
  /\ UNCHANGED <<now, showGlobal, shows>>

ShowIssue(signer, user, s, n, k) ==
  /\ IssuerAuth(signer)
  /\ BookIssues(s, n, k, 1)
  /\ NftTransfer(SHOW, user, Single(n, k))

\* One inline issue per recipient, all or none; a name may be listed twice.
BatchReward(signer, s, n, k, recipients) ==
  LET cnt == Len(recipients)
      Listed(a) == Cardinality({i \in 1..cnt : recipients[i] = a})
      Given(a) == [m \in Nids |-> IF m = n THEN k * Listed(a) ELSE 0]
  IN  /\ ShowAuth(signer, RoleGiveTicket)
      /\ cnt \in 1..MaxBatch
      /\ BookIssues(s, n, k, cnt)
      /\ \A i \in 1..cnt :
           CanMove(bal, SHOW, recipients[i], Given(recipients[i]))
      /\ bal[SHOW][n] >= k * cnt
      /\ bal' = [a \in Accounts |->
                   IF a = SHOW
                     THEN [bal[a] EXCEPT ![n] = @ - k * cnt]
                     ELSE [m \in Nids |-> bal[a][m] + Given(a)[m]]]
      /\ UNCHANGED <<nstats, nftConfig>>

\* The payment itself is made off this contract: the claimed pay amount only
\* feeds the pop.cisum reward and may not exceed the price.
BuyTicket(signer, payer, pay, s, n, k) ==
  /\ IssuerAuth(signer)
  /\ pay > 0 /\ k > 0
  /\ <<s, n>> \in DOMAIN tickets
  /\ tickets[<<s, n>>].sale_started_at <= now
  /\ pay <= tickets[<<s, n>>].price_usdt * k
  /\ BookIssues(s, n, k, 1)
  /\ NftTransfer(SHOW, payer, Single(n, k))

\* The books of a hand-over of k; mutant: none.
Unbooked(grade, k) == grade
HandedOver(grade, k) == [grade EXCEPT !.stock_count = @ - k]

\* Stock handed to a rush sale; it leaves the stock without being sold.
IssueToGrab(signer, to, s, n, k) ==
  /\ ShowAuth(signer, RoleShow)
  /\ BankSet
  /\ k > 0
  /\ <<s, n>> \in DOMAIN tickets
  /\ HasStock(s, n, k)
  /\ tickets' = [tickets EXCEPT ![<<s, n>>] = HandedOver(@, k)]
  /\ NftTransfer(SHOW, to, Single(n, k))
  /\ UNCHANGED <<now, showGlobal, shows>>

\* The books of a write-off of k; mutant: the stock is forgotten.
WrittenOffTotal(grade, k) == [grade EXCEPT !.total_count = Wrap(@ - k)]
WrittenOff(grade, k) == [grade EXCEPT !.stock_count = @ - k,
                                      !.total_count = Wrap(@ - k)]

\* Written off the books; the NFTs stay in the balance of show.cisum.
ShowRetire(s, n, k) ==
  /\ k > 0
  /\ <<s, n>> \in DOMAIN tickets
  /\ HasStock(s, n, k)
  /\ tickets' = [tickets EXCEPT ![<<s, n>>] = WrittenOff(@, k)]
  /\ UNCHANGED <<now, showGlobal, shows, nftVars>>

\* The books of a return of k; mutant: everything is on sale again.
Refilled(grade, k) == [grade EXCEPT !.stock_count = grade.total_count]
Returned(grade, k) == [grade EXCEPT !.stock_count = Wrap(@ + k)]

\* on_transfer_ticket of a transfer from grab.cisum with the memo
\* backfromgrab:<show_id>.  Any other transfer to show.cisum is accepted
\* without a booking.
OnReturnFromGrab(s, n, k) ==
  /\ <<s, n>> \in DOMAIN tickets
  /\ Returned(tickets[<<s, n>>], k).stock_count
       <= tickets[<<s, n>>].total_count
  /\ tickets' = [tickets EXCEPT ![<<s, n>>] = Returned(@, k)]
  /\ UNCHANGED <<showGlobal, shows>>

-----------------------------------------------------------------------------
(***************************************************************************)
(* The contract with its callers.  grab.cisum is the only account that     *)
(* refuses a ticket it is sent without a memo it knows, so no plain        *)
(* transfer reaches it; here it may return any ticket it owns, to any      *)
(* show, and its own rules are left to GrabCisum.                          *)
(***************************************************************************)

ShowInit ==
  /\ NftInit
  /\ now = 0
  /\ showGlobal = [admin |-> NoName, nft_bank |-> NoName]
  /\ shows = EmptyTable
  /\ tickets = EmptyTable

\* The show and its grades.
Catalogue ==
  \/ \E a \in ConfigAccts : Configure(a, TICKET)
  \/ \E sig \in Accounts, s \in ShowIds :
       \/ \E dates \in ShowDates : NewShow(sig, s, dates)
       \/ \E dates \in ShowDates : SetShow(sig, s, dates)
       \/ DelShow(sig, s)
       \/ \E n \in Nids, usdt \in UsdtPrices, w \in SaleWindows :
            NewTicket(sig, s, n, usdt, w) \/ SetTicket(sig, s, n, usdt, w)

\* Minting, selling and writing off.
Stock ==
  \/ \E sig \in Accounts, n \in Nids, max \in MaxSupplies, u \in Uris :
       CreateNft(sig, max, n, u)
  \/ \E sig \in Accounts, s \in ShowIds, n \in Nids, k \in Amounts :
       \/ IssueNft(sig, s, n, k)
       \/ \E a \in Fans : ShowIssue(sig, a, s, n, k)
       \/ \E a \in Fans : IssueToGrab(sig, a, s, n, k)
       \/ \E batch \in Batches : BatchReward(sig, s, n, k, batch)
       \/ \E a \in Fans, pay \in UsdtPrices :
            BuyTicket(sig, a, pay, s, n, k)
  \/ \E s \in ShowIds, n \in Nids, k \in Amounts : ShowRetire(s, n, k)

\* Holders pass tickets on, to show.cisum too; ticket.cvnft is reconfigured.
Holders ==
  /\ \/ \E a \in Fans, b \in Fans \cup {SHOW}, n \in Nids, k \in Amounts :
          NftTransfer(a, b, Single(n, k))
     \/ \E a \in ConfigAccts :
          \/ AddWhitelist(a) \/ DelWhitelist(a)
          \/ \E n \in Nids, add \in BOOLEAN : SetNftWhite(a, n, add)
  /\ UNCHANGED <<now, showVars>>

GrabStub ==
  \E s \in ShowIds, n \in Nids, k \in Amounts :
    \/ /\ \E sig \in Accounts : IssueToGrab(sig, GRAB, s, n, k)
    \/ /\ \E a \in Fans : NftTransfer(a, GRAB, Single(n, k))
       /\ UNCHANGED <<now, showVars>>
    \/ /\ OnReturnFromGrab(s, n, k)
       /\ NftTransfer(GRAB, SHOW, Single(n, k))
       /\ UNCHANGED now

Tick == now < MaxTime /\ now' = now + 1 /\ UNCHANGED <<showVars, nftVars>>

ShowNext == Catalogue \/ Stock \/ Holders \/ GrabStub \/ Tick

ShowSpec == ShowInit /\ [][ShowNext]_<<now, showVars, nftVars>>

-----------------------------------------------------------------------------
\* Stock is never more than the grade's total.  retire subtracts the stock it
\* writes off from the unsigned total_count, so this is what keeps that count
\* from wrapping around, across returns from grab.cisum, write-offs and
\* deleted and re-created shows; the total itself never exceeds what was
\* minted.
StockWithinTotal ==
  \A t \in DOMAIN tickets :
    /\ tickets[t].stock_count <= tickets[t].total_count
    /\ tickets[t].total_count <= Supply(t[2])

\* The two sale counters are one: nothing is booked as sold before it has
\* been sent, and no more is ever booked than was minted.
SoldIsIssued ==
  \A t \in DOMAIN tickets :
    /\ tickets[t].issued_count = tickets[t].sold_count
    /\ tickets[t].sold_count <= Supply(t[2])

StockOf(n) ==
  SumFunction([t \in DOMAIN tickets |-> IF t[2] = n THEN tickets[t].stock_count ELSE 0])

\* Every ticket a show has in stock can be delivered: over all the shows that
\* sell a token type, the stock is backed by the balance of show.cisum, so no
\* issue, reward or hand-over fails for want of tokens.
StockBacked == \A n \in Nids : StockOf(n) <= bal[SHOW][n]

\* Tickets that left the books (retired, of a deleted show, or sent back by a
\* holder) never come back on sale: what show.cisum owns beyond its stock
\* never shrinks.
RetiredStaysRetired ==
  [][\A n \in Nids : bal[SHOW][n] - StockOf(n) <= bal'[SHOW][n] - StockOf(n)']_
    <<now, showVars, nftVars>>
=============================================================================
