----------------------------- MODULE BadgeStore -----------------------------
(***************************************************************************)
(* cvbadgestore: the contract that mints the badges and hands them out,    *)
(* when a notifier on its whitelist announces an award or asks for one.    *)
(* The badges live at badge.cvnft, whose code is not in the repository:    *)
(* badges and stock are the part of that ledger the store relies on.  A    *)
(* pack is a function from badge to amount.                                *)
(***************************************************************************)
EXTENDS EosTable, FiniteSets, FiniteSetsExt

CONSTANTS
  Accounts,    \* every account the model knows
  STORE,       \* the account cvbadgestore is deployed to
  BADGE,       \* badge.cvnft, the ledger of the badges
  Badges,      \* badge ids
  BadgeCaps,   \* the max_supply values createbadge is called with
  ShowRole,    \* accounts flon.auth grants the permission "show"
  Amounts,     \* the amounts actions are called with
  StoreAccts,  \* the accounts configuration actions of the store name
  MaxPacks,    \* 100 in the code
  NoAcct       \* the empty account name

ASSUME StoreAssumption ==
  /\ {STORE, BADGE} \cup ShowRole \cup StoreAccts \subseteq Accounts
  /\ NoAcct \notin Accounts /\ IsFiniteSet(Accounts)
  /\ BadgeCaps \subseteq Nat \ {0} /\ Amounts \subseteq Nat \ {0}
  /\ MaxPacks \in Nat

VARIABLES
  badges,          \* nid -> [supply, max_supply] at badge.cvnft
  stock,           \* account -> nid -> amount at badge.cvnft
  store_admin,     \* admin of cvbadgestore
  badge_contract,  \* the ledger the store talks to
  badge_from,      \* documented as the account that holds the stock
  notifiers        \* whitelist: the contracts that may announce awards

badgeVars == <<badges, stock>>
storeConfig == <<store_admin, badge_contract, badge_from, notifiers>>
storeVars == <<badgeVars, storeConfig>>

StoreTypeOK ==
  /\ DOMAIN badges \subseteq Badges
  /\ badges \in [DOMAIN badges -> [supply : Nat, max_supply : Nat]]
  /\ stock \in [Accounts -> [Badges -> Nat]]
  /\ {store_admin, badge_contract, badge_from} \subseteq Accounts \cup {NoAcct}
  /\ notifiers \subseteq Accounts

StoreInit ==
  /\ badges = EmptyTable
  /\ stock = [a \in Accounts |-> [n \in Badges |-> 0]]
  /\ store_admin = NoAcct /\ badge_contract = NoAcct /\ badge_from = NoAcct
  /\ notifiers = {}

Packs == UNION {[S -> Amounts] : S \in (SUBSET Badges) \ {{}}}

-----------------------------------------------------------------------------
(***************************************************************************)
(* Configuration.                                                          *)
(***************************************************************************)

StoreAdminAuth(signer) == signer \in {STORE, store_admin}

StoreSetAdmin(acct) ==
  /\ store_admin' = acct
  /\ UNCHANGED <<badgeVars, badge_contract, badge_from, notifiers>>

SetBadge(contract, from) ==
  /\ badge_contract' = contract /\ badge_from' = from
  /\ UNCHANGED <<badgeVars, store_admin, notifiers>>

AddNotifier(signer, acct) ==
  /\ StoreAdminAuth(signer)
  /\ acct \notin notifiers
  /\ notifiers' = notifiers \cup {acct}
  /\ UNCHANGED <<badgeVars, store_admin, badge_contract, badge_from>>

DelNotifier(signer, acct) ==
  /\ StoreAdminAuth(signer)
  /\ acct \in notifiers
  /\ notifiers' = notifiers \ {acct}
  /\ UNCHANGED <<badgeVars, store_admin, badge_contract, badge_from>>

-----------------------------------------------------------------------------
(***************************************************************************)
(* Badges.                                                                 *)
(***************************************************************************)

\* Created and issued to the store in one transaction; a contract other than
\* badge.cvnft has no such tables and the calls change nothing.
CreateBadge(submitter, nid, max, amount) ==
  /\ submitter \in ShowRole
  /\ amount <= max
  /\ IF badge_contract \in {NoAcct, BADGE}
       THEN /\ nid \notin DOMAIN badges
            /\ badges' = Put(badges, nid, [supply |-> amount, max_supply |-> max])
            /\ stock' = [stock EXCEPT ![STORE][nid] = @ + amount]
       ELSE UNCHANGED badgeVars
  /\ UNCHANGED storeConfig

\* Where the badges of an award are taken from: the store itself.
Source == STORE

\* The stock covers the packs.
InStock(packs) == \A n \in DOMAIN packs : stock[Source][n] >= packs[n]

\* The transfer of packs to a user at the ledger the store is set to.
HandOut(user, packs) ==
  /\ badge_contract # NoAcct /\ badge_from # NoAcct
  /\ Cardinality(DOMAIN packs) <= MaxPacks
  /\ UNCHANGED <<badges, storeConfig>>
  /\ IF badge_contract = BADGE
       THEN /\ user # Source
            /\ InStock(packs)
            /\ stock' = [a \in Accounts |-> [n \in Badges |->
                 IF n \notin DOMAIN packs THEN stock[a][n]
                 ELSE CASE a = Source -> stock[a][n] - packs[n]
                        [] a = user -> stock[a][n] + packs[n]
                        [] OTHER -> stock[a][n]]]
       ELSE UNCHANGED stock

\* A contract of the whitelist announces an award.
OnNotifyAward(notifier, user, packs) ==
  /\ notifier \in notifiers
  /\ HandOut(user, packs)

Reward(submitter, user, packs) ==
  /\ submitter \in notifiers
  /\ HandOut(user, packs)

-----------------------------------------------------------------------------
StoreNext ==
  \/ \E a \in StoreAccts : StoreSetAdmin(a)
  \/ \E c, f \in StoreAccts \cup {BADGE} : SetBadge(c, f)
  \/ \E s \in Accounts, a \in StoreAccts : AddNotifier(s, a) \/ DelNotifier(s, a)
  \/ \E s \in Accounts, n \in Badges, m \in BadgeCaps, q \in Amounts :
       CreateBadge(s, n, m, q)
  \/ \E s, u \in Accounts, p \in Packs : Reward(s, u, p)
=============================================================================
