------------------------------ MODULE TicketNFT ------------------------------
(***************************************************************************)
(* ticket.cvnft: the NFT ledger that every ticket of the platform lives    *)
(* on.  A token type is a number (nid); nstats holds its supply and its    *)
(* issuer, bal the amount each account owns.  A batch transfer is given by *)
(* the amount it moves of each nid: it debits one account and credits      *)
(* another, so only these sums matter.                                     *)
(***************************************************************************)
EXTENDS EosTable, FiniteSets, FiniteSetsExt

CONSTANTS
  Accounts,     \* every account of the chain the model knows
  TICKET,       \* the account ticket.cvnft is deployed to
  OPS,          \* cisumshowman, the aggregating contract
  BADGESTORE,   \* badgecvstore, allowed to rewrite token uris
  DidHolders,   \* the accounts that hold a DID token
  Nids,         \* token types
  Uris,         \* metadata uris
  MaxSupplies,  \* the max_supply values create is called with
  Amounts,      \* the amounts actions are called with
  ConfigAccts,  \* the accounts configuration actions name or are signed by
  NoName        \* the empty account name

ASSUME NftAssumption ==
  /\ {TICKET, OPS, BADGESTORE} \cup DidHolders \cup ConfigAccts
       \subseteq Accounts
  /\ NoName \notin Accounts /\ IsFiniteSet(Accounts)
  /\ MaxSupplies \subseteq Nat \ {0}
  /\ Amounts \subseteq Nat \ {0}

VARIABLES
  nstats,     \* nid -> [supply, max_supply, token_uri, ipowner, notary, issuer]
  bal,        \* account -> nid -> amount
  creators,   \* accounts allowed to create, empty: everybody
  notaries,   \* accounts allowed to notarize
  whitelist,  \* accounts any ticket may be sent from or to
  nftWhite    \* nids anybody may send

nftVars == <<nstats, bal, creators, notaries, whitelist, nftWhite>>
nftConfig == <<creators, notaries, whitelist, nftWhite>>

\* supply is a signed 64-bit amount: retire subtracts before it checks.
NStat == [supply : Int, max_supply : Nat, token_uri : Uris,
          ipowner : Accounts \cup {NoName}, notary : Accounts \cup {NoName},
          issuer : Accounts]

NftTypeOK ==
  /\ DOMAIN nstats \subseteq Nids
  /\ \A n \in DOMAIN nstats : nstats[n] \in NStat
  /\ bal \in [Accounts -> [Nids -> Nat]]
  /\ creators \subseteq Accounts
  /\ notaries \subseteq Accounts
  /\ whitelist \subseteq Accounts
  /\ nftWhite \subseteq Nids

NftInit ==
  /\ nstats = EmptyTable
  /\ bal = [a \in Accounts |-> [n \in Nids |-> 0]]
  /\ creators = {} /\ notaries = {} /\ whitelist = {} /\ nftWhite = {}

-----------------------------------------------------------------------------
(***************************************************************************)
(* Token types.                                                            *)
(***************************************************************************)

CreatorAuthCheck(creator) ==
  creators # {} => creator \in creators \cap DidHolders

\* The type does not exist yet.
IsNewType(n) == n \notin DOMAIN nstats

NftCreate(issuer, max, n, uri, ipowner) ==
  /\ max > 0
  /\ CreatorAuthCheck(issuer)
  /\ \A m \in DOMAIN nstats : nstats[m].token_uri # uri
  /\ IsNewType(n)
  /\ nstats' = Put(nstats, n, [supply |-> 0, max_supply |-> max,
                               token_uri |-> uri, ipowner |-> ipowner,
                               notary |-> NoName, issuer |-> issuer])
  /\ UNCHANGED <<bal, nftConfig>>

\* Signed by ticket.cvnft itself.
SetIpOwner(n, owner) ==
  /\ n \in DOMAIN nstats
  /\ nstats' = [nstats EXCEPT ![n].ipowner = owner]
  /\ UNCHANGED <<bal, nftConfig>>

SetTokenUri(signer, n, uri) ==
  /\ signer \in {TICKET, BADGESTORE}
  /\ n \in DOMAIN nstats
  /\ nstats' = [nstats EXCEPT ![n].token_uri = uri]
  /\ UNCHANGED <<bal, nftConfig>>

Notarize(notary, n) ==
  /\ notary \in notaries
  /\ n \in DOMAIN nstats
  /\ nstats' = [nstats EXCEPT ![n].notary = notary]
  /\ UNCHANGED <<bal, nftConfig>>

\* What may still be minted; mutant: the cap alone.
CapOnly(n) == nstats[n].max_supply
Headroom(n) == nstats[n].max_supply - nstats[n].supply

\* issue: minted to the issuer, who signs.
NftIssue(to, n, amount) ==
  /\ n \in DOMAIN nstats
  /\ to = nstats[n].issuer
  /\ amount > 0
  /\ amount <= Headroom(n)
  /\ nstats' = [nstats EXCEPT ![n].supply = @ + amount]
  /\ bal' = [bal EXCEPT ![to][n] = @ + amount]
  /\ UNCHANGED nftConfig

\* retire: burnt from the issuer's own balance, the issuer signs.
NftRetire(n, amount) ==
  /\ n \in DOMAIN nstats
  /\ amount > 0
  /\ bal[nstats[n].issuer][n] >= amount
  /\ nstats' = [nstats EXCEPT ![n].supply = @ - amount]
  /\ bal' = [bal EXCEPT ![nstats[n].issuer][n] = @ - amount]
  /\ UNCHANGED nftConfig

-----------------------------------------------------------------------------
(***************************************************************************)
(* Transfers.  CanMove and Move are the checks and the effect of one       *)
(* transfer on a given ledger b: a transaction with several inline         *)
(* transfers threads the ledger through them.                              *)
(***************************************************************************)

\* The assets vector with a single entry.
Single(n, amount) == [m \in Nids |-> IF m = n THEN amount ELSE 0]

SendAllowed(from, to, n) ==
  n \in nftWhite \/ from \in whitelist \/ to \in whitelist

\* Mutant: sub_balance without its "overdrawn balance" check.
CanOverdraw(b, from, to, moved) ==
  /\ from # to
  /\ \A n \in Nids : moved[n] > 0 => /\ n \in DOMAIN nstats
                                     /\ SendAllowed(from, to, n)

CanMove(b, from, to, moved) ==
  /\ from # to
  /\ \A n \in Nids : moved[n] > 0 => /\ n \in DOMAIN nstats
                                     /\ SendAllowed(from, to, n)
                                     /\ b[from][n] >= moved[n]

Move(b, from, to, moved) ==
  [b EXCEPT ![from] = [n \in Nids |-> @[n] - moved[n]],
            ![to]   = [n \in Nids |-> @[n] + moved[n]]]

NftTransfer(from, to, moved) ==
  /\ CanMove(bal, from, to, moved)
  /\ bal' = Move(bal, from, to, moved)
  /\ UNCHANGED <<nstats, nftConfig>>

-----------------------------------------------------------------------------
(***************************************************************************)
(* Configuration, signed by ticket.cvnft itself unless a signer is named.  *)
(***************************************************************************)

SetCreator(creator, add) ==
  /\ ~add => creator \in creators
  /\ creators' = IF add THEN creators \cup {creator} ELSE creators \ {creator}
  /\ UNCHANGED <<nstats, bal, notaries, whitelist, nftWhite>>

SetNotary(notary, add) ==
  /\ notaries' = IF add THEN notaries \cup {notary} ELSE notaries \ {notary}
  /\ UNCHANGED <<nstats, bal, creators, whitelist, nftWhite>>

AddWhitelist(acct) ==
  /\ acct \notin whitelist
  /\ whitelist' = whitelist \cup {acct}
  /\ UNCHANGED <<nstats, bal, creators, notaries, nftWhite>>

DelWhitelist(acct) ==
  /\ acct \in whitelist
  /\ whitelist' = whitelist \ {acct}
  /\ UNCHANGED <<nstats, bal, creators, notaries, nftWhite>>

SetNftWhite(signer, n, add) ==
  /\ signer \in {TICKET, OPS}
  /\ IF add THEN n \in DOMAIN nstats \ nftWhite ELSE n \in nftWhite
  /\ nftWhite' = IF add THEN nftWhite \cup {n} ELSE nftWhite \ {n}
  /\ UNCHANGED <<nstats, bal, creators, notaries, whitelist>>

-----------------------------------------------------------------------------
(***************************************************************************)
(* The ledger on its own, called by arbitrary accounts.                    *)
(***************************************************************************)

NftNext ==
  \/ \E a \in Accounts, max \in MaxSupplies, n \in Nids, u \in Uris :
       NftCreate(a, max, n, u, a)
  \/ \E n \in Nids, a \in ConfigAccts \cup {NoName} : SetIpOwner(n, a)
  \/ \E a \in Accounts, n \in Nids, u \in Uris : SetTokenUri(a, n, u)
  \/ \E a \in ConfigAccts, n \in Nids : Notarize(a, n)
  \/ \E a \in Accounts, n \in Nids, k \in Amounts : NftIssue(a, n, k)
  \/ \E n \in Nids, k \in Amounts : NftRetire(n, k)
  \/ \E a, b \in Accounts : \E moved \in [Nids -> Amounts \cup {0}] :
       NftTransfer(a, b, moved)
  \/ \E a \in ConfigAccts, add \in BOOLEAN : SetCreator(a, add)
  \/ \E a \in ConfigAccts, add \in BOOLEAN : SetNotary(a, add)
  \/ \E a \in ConfigAccts : AddWhitelist(a)
  \/ \E a \in ConfigAccts : DelWhitelist(a)
  \/ \E a \in Accounts, n \in Nids, add \in BOOLEAN : SetNftWhite(a, n, add)

NftSpec == NftInit /\ [][NftNext]_nftVars

-----------------------------------------------------------------------------
Supply(n) == IF n \in DOMAIN nstats THEN nstats[n].supply ELSE 0

\* add_balance and sub_balance keep every unit somewhere: over all accounts
\* the balances of a type sum to its supply, which never exceeds the cap,
\* whatever mints, burns and batch transfers were made.
SupplyConserved ==
  \A n \in Nids :
    /\ SumFunction([a \in Accounts |-> bal[a][n]]) = Supply(n)
    /\ n \in DOMAIN nstats => nstats[n].supply <= nstats[n].max_supply

\* "globally unique uri for token metadata" (the comment on token_uri): two
\* token types never share a uri.
UriUnique ==
  \A m, n \in DOMAIN nstats :
    nstats[m].token_uri = nstats[n].token_uri => m = n

=============================================================================
