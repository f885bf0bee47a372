----------------------------- MODULE CisumToken -----------------------------
(***************************************************************************)
(* cisum.token: the platform token.  Users may only spend it at the        *)
(* contracts of the consume list; what they spend is added up in their     *)
(* balance row, and every rule hands out one badge each time the sum       *)
(* crosses a multiple of its threshold.  The award is announced by an      *)
(* inline action whose notification cvbadgestore handles (BadgeStore).     *)
(***************************************************************************)
EXTENDS BadgeRules

CONSTANTS
  CISUMTOKEN,   \* the account cisum.token is deployed to
  POH, POS,     \* the contracts that may be issued to besides the issuer
  TokenSymbols, \* the symbols create is called with
  TokenCaps,    \* the maximum_supply values create is called with
  TokenAmounts, \* the amounts the ledger is called with
  TokenAccts,   \* the accounts configuration actions of the token name
  Holders,      \* the accounts that pay and are paid
  MaxCloses     \* bound: how often one account closes its row

ASSUME TokenAssumption ==
  /\ {CISUMTOKEN, POH, POS} \cup TokenAccts \cup Holders \subseteq Accounts
  /\ Spenders \subseteq Holders /\ TokenSymbols \subseteq Symbols
  /\ TokenCaps \cup TokenAmounts \subseteq Nat \ {0} /\ MaxCloses \in Nat

VARIABLES
  issuer, admin, badgestore_contract,   \* global_t
  transfer_wl,   \* account -> enabled: may send to anybody
  redeem_wl,     \* the consume list: spending there counts
  stats,         \* symbol -> [supply, max_supply]
  accounts       \* <<owner, symbol>> -> [balance, consumed]

tokenGlobal == <<issuer, admin, badgestore_contract>>
tokenLists == <<transfer_wl, redeem_wl>>
ledger == <<stats, accounts>>
tokenVars == <<tokenGlobal, tokenLists, ledger, ruleTbl>>

TokenTypeOK ==
  /\ {issuer, admin, badgestore_contract} \subseteq Accounts \cup {NoAcct}
  /\ transfer_wl \in [DOMAIN transfer_wl -> BOOLEAN]
  /\ DOMAIN transfer_wl \cup redeem_wl \subseteq Accounts
  /\ DOMAIN stats \subseteq TokenSymbols
  /\ stats \in [DOMAIN stats -> [supply : Nat, max_supply : Nat]]
  /\ DOMAIN accounts \subseteq Accounts \X DOMAIN stats
  /\ accounts \in [DOMAIN accounts -> [balance : Nat, consumed : Nat]]
  /\ RulesTypeOK

TokenInit ==
  /\ issuer = NoAcct /\ admin = NoAcct /\ badgestore_contract = NoAcct
  /\ transfer_wl = EmptyTable /\ redeem_wl = {}
  /\ stats = EmptyTable /\ accounts = EmptyTable
  /\ RulesInit

AdminAuth(signer) == signer \in {CISUMTOKEN, admin}

-----------------------------------------------------------------------------
(***************************************************************************)
(* Configuration.                                                          *)
(***************************************************************************)

TokenConfigure(new_issuer, new_admin, new_store) ==
  /\ issuer' = new_issuer /\ admin' = new_admin
  /\ badgestore_contract' = new_store
  /\ UNCHANGED <<tokenLists, ledger, ruleTbl>>

SetIssuer(acct) == TokenConfigure(acct, admin, badgestore_contract)
SetAdmin(acct) == TokenConfigure(issuer, acct, badgestore_contract)
SetBadgeStore(acct) == TokenConfigure(issuer, admin, acct)

SetWhite(acct, enabled) ==
  /\ transfer_wl' = Put(transfer_wl, acct, enabled)
  /\ UNCHANGED <<tokenGlobal, redeem_wl, ledger, ruleTbl>>

AddWhitelist(signer, acct) == AdminAuth(signer) /\ SetWhite(acct, TRUE)

DelWhitelist(signer, acct) ==
  /\ AdminAuth(signer)
  /\ acct \in DOMAIN transfer_wl
  /\ transfer_wl' = Drop(transfer_wl, acct)
  /\ UNCHANGED <<tokenGlobal, redeem_wl, ledger, ruleTbl>>

\* The flag of a row of the consume list is never written FALSE.
AddConsumeWl(signer, acct) ==
  /\ AdminAuth(signer)
  /\ redeem_wl' = redeem_wl \cup {acct}
  /\ UNCHANGED <<tokenGlobal, transfer_wl, ledger, ruleTbl>>

DelConsumeWl(signer, acct) ==
  /\ AdminAuth(signer)
  /\ acct \in redeem_wl
  /\ redeem_wl' = redeem_wl \ {acct}
  /\ UNCHANGED <<tokenGlobal, transfer_wl, ledger, ruleTbl>>

-----------------------------------------------------------------------------
(***************************************************************************)
(* Rules.                                                                  *)
(***************************************************************************)

AddRule(signer, id, rule) ==
  /\ AdminAuth(signer)
  /\ rule.symbol \in DOMAIN stats
  /\ rule.nid \in DOMAIN badges
  /\ PutRule(id, rule)
  /\ UNCHANGED <<tokenGlobal, tokenLists, ledger>>

DelRule(signer, id) ==
  /\ AdminAuth(signer)
  /\ EraseRule(id)
  /\ UNCHANGED <<tokenGlobal, tokenLists, ledger>>

-----------------------------------------------------------------------------
(***************************************************************************)
(* The ledger.                                                             *)
(***************************************************************************)

Balance(owner, sym) ==
  IF <<owner, sym>> \in DOMAIN accounts THEN accounts[<<owner, sym>>].balance ELSE 0

NewRow == [balance |-> 0, consumed |-> 0]
Row(owner, sym) ==
  IF <<owner, sym>> \in DOMAIN accounts THEN accounts[<<owner, sym>>] ELSE NewRow

\* add_balance opens the row it misses.
Credited(tbl, owner, sym, amount) ==
  Put(tbl, <<owner, sym>>,
      [(IF <<owner, sym>> \in DOMAIN tbl THEN tbl[<<owner, sym>>] ELSE NewRow)
         EXCEPT !.balance = @ + amount])

\* sub_balance, which also counts what is spent at a contract of the consume
\* list; mutant: it is counted but not taken.
CountedOnly(tbl, owner, sym, amount, counted) ==
  [tbl EXCEPT ![<<owner, sym>>].consumed = @ + (IF counted THEN amount ELSE 0)]
Debited(tbl, owner, sym, amount, counted) ==
  [tbl EXCEPT ![<<owner, sym>>].balance = @ - amount,
              ![<<owner, sym>>].consumed = @ + (IF counted THEN amount ELSE 0)]

TokenCreate(to, sym, max) ==
  /\ issuer = to
  /\ sym \notin DOMAIN stats
  /\ stats' = Put(stats, sym, [supply |-> 0, max_supply |-> max])
  /\ UNCHANGED <<tokenGlobal, tokenLists, accounts, ruleTbl>>

TokenIssue(signer, to, sym, amount) ==
  /\ signer \in {to, POH, POS}
  /\ to \in {issuer, POH, POS}
  /\ sym \in DOMAIN stats
  /\ amount <= stats[sym].max_supply - stats[sym].supply
  /\ stats' = [stats EXCEPT ![sym].supply = @ + amount]
  /\ accounts' = Credited(accounts, to, sym, amount)
  /\ UNCHANGED <<tokenGlobal, tokenLists, ruleTbl>>

\* Signed by the issuer of the moment, whose balance is burnt; mutant: without
\* looking at it.
AnyAmount(sym, amount) == <<issuer, sym>> \in DOMAIN accounts
CanRetire(sym, amount) ==
  <<issuer, sym>> \in DOMAIN accounts /\ Balance(issuer, sym) >= amount

TokenRetire(sym, amount) ==
  /\ sym \in DOMAIN stats
  /\ CanRetire(sym, amount)
  /\ stats' = [stats EXCEPT ![sym].supply = @ - amount]
  /\ accounts' = Debited(accounts, issuer, sym, amount, FALSE)
  /\ UNCHANGED <<tokenGlobal, tokenLists, ruleTbl>>

Open(owner, sym) ==
  /\ sym \in DOMAIN stats
  /\ accounts' = Put(accounts, <<owner, sym>>, Row(owner, sym))
  /\ UNCHANGED <<tokenGlobal, tokenLists, stats, ruleTbl>>

\* What the owner has spent goes with the row.
Close(owner, sym) ==
  /\ <<owner, sym>> \in DOMAIN accounts
  /\ Balance(owner, sym) = 0
  /\ \A i \in DOMAIN rules, u \in {owner} \cap Spenders : tally[i][u].closes < MaxCloses
  /\ accounts' = Drop(accounts, <<owner, sym>>)
  /\ tally' = [i \in DOMAIN tally |-> [u \in Spenders |->
       IF u = owner THEN [tally[i][u] EXCEPT !.closes = @ + 1] ELSE tally[i][u]]]
  /\ UNCHANGED <<tokenGlobal, tokenLists, stats, rules>>

-----------------------------------------------------------------------------
(***************************************************************************)
(* Spending and awards.                                                    *)
(***************************************************************************)

\* May send: the issuer, the whitelist, and anybody to the consume list.
MaySend(from, to) ==
  \/ from = issuer
  \/ from \in DOMAIN transfer_wl /\ transfer_wl[from]
  \/ to \in redeem_wl

TokenTransfer(from, to, sym, amount) ==
  LET counted == to \in redeem_wl
      before == Row(from, sym).consumed
      after == before + amount
  IN
  /\ from # to
  /\ sym \in DOMAIN stats
  /\ MaySend(from, to)
  /\ <<from, sym>> \in DOMAIN accounts
  /\ Balance(from, sym) >= amount
  /\ accounts' = Credited(Debited(accounts, from, sym, amount, counted), to, sym, amount)
  /\ UNCHANGED <<tokenGlobal, tokenLists, stats, rules>>
  /\ IF counted
       THEN /\ after <= MaxSpent
            /\ \A i \in DOMAIN tally, u \in {from} \cap Spenders :
                 tally[i][u].spent + amount <= MaxSpent
            /\ Remember(from, sym, before, after)
            /\ Announce(CISUMTOKEN, badgestore_contract, from, AwardPacks(before, after))
       ELSE UNCHANGED <<tally, storeVars>>

-----------------------------------------------------------------------------
TokenConfig ==
  \/ \E a, b \in TokenAccts, s \in TokenAccts \cup {STORE, NoAcct} : TokenConfigure(a, b, s)
  \/ \E a \in TokenAccts : SetIssuer(a) \/ SetAdmin(a)
  \/ \E a \in TokenAccts \cup {STORE} : SetBadgeStore(a)
  \/ \E a \in TokenAccts, e \in BOOLEAN : SetWhite(a, e)
  \/ \E s \in Accounts, a \in TokenAccts :
       \/ AddWhitelist(s, a) \/ DelWhitelist(s, a)
       \/ AddConsumeWl(s, a) \/ DelConsumeWl(s, a)

RuleConfig ==
  \E s \in Accounts, id \in RuleIds :
    DelRule(s, id) \/ \E r \in Rule : AddRule(s, id, r)

Supply ==
  \E sym \in TokenSymbols :
    \/ \E a \in TokenAccts, m \in TokenCaps : TokenCreate(a, sym, m)
    \/ \E q \in TokenAmounts :
         TokenRetire(sym, q) \/ \E s, to \in Holders : TokenIssue(s, to, sym, q)
    \/ \E a \in Spenders : Open(a, sym) \/ Close(a, sym)

Payments == \E from, to \in Holders, sym \in TokenSymbols, q \in TokenAmounts :
              TokenTransfer(from, to, sym, q)

AwardsVars == <<storeVars, tokenVars>>

\* The token, the rules and the badge store on one chain.
AwardsInit == StoreInit /\ TokenInit
AwardsNext ==
  \/ TokenConfig /\ UNCHANGED storeVars
  \/ RuleConfig /\ UNCHANGED storeVars
  \/ Supply /\ UNCHANGED storeVars
  \/ StoreNext /\ UNCHANGED tokenVars
  \/ Payments
AwardsSpec == AwardsInit /\ [][AwardsNext]_AwardsVars

-----------------------------------------------------------------------------
(***************************************************************************)
(* Properties.                                                             *)
(***************************************************************************)

\* Supply is the sum of the balances and within the cap, through issues,
\* burns, payments, closed rows and changes of the issuer.
TokenConserved ==
  \A sym \in DOMAIN stats :
    /\ SumFunction([a \in Accounts |-> Balance(a, sym)]) = stats[sym].supply
    /\ stats[sym].supply <= stats[sym].max_supply
=============================================================================
