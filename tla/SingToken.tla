------------------------------ MODULE SingToken ------------------------------
(***************************************************************************)
(* sing.token: the ledger of the reward token SING.  Besides the issuer,   *)
(* the mining contracts poh, pos and pop may issue.  The contract account  *)
(* may also delete the row of a token or of a balance, which is how a      *)
(* ledger is reset on a test chain: SUPPLY and BALANCES then differ by     *)
(* what was deleted.                                                       *)
(***************************************************************************)
EXTENDS EosTable, FiniteSets, FiniteSetsExt

CONSTANTS
  Parties,      \* the accounts the ledger knows
  SING,         \* the account sing.token is deployed to
  Minters,      \* poh.cisum, pos.cisum and pop.cisum
  Coins,        \* token symbols
  CoinCaps,     \* the maximum_supply values create is called with
  Quantities    \* the amounts the ledger is called with

ASSUME SingAssumption ==
  /\ {SING} \cup Minters \subseteq Parties /\ IsFiniteSet(Parties)
  /\ CoinCaps \subseteq Nat \ {0} /\ Quantities \subseteq Nat \ {0}

VARIABLES
  coinstat,   \* symbol -> [supply, max_supply, issuer]
  purse,      \* <<owner, symbol>> -> balance
  drift       \* history: symbol -> balances minus supply, as deletions left it

singVars == <<coinstat, purse, drift>>

CoinStat == [supply : Int, max_supply : Nat, issuer : Parties]

\* retire subtracts before it looks at the issuer's balance, and delstats
\* forgets the supply: it may go below zero, balances may not.
SingTypeOK ==
  /\ DOMAIN coinstat \subseteq Coins
  /\ coinstat \in [DOMAIN coinstat -> CoinStat]
  /\ DOMAIN purse \subseteq Parties \X Coins
  /\ purse \in [DOMAIN purse -> Nat]
  /\ drift \in [Coins -> Int]

SingInit ==
  /\ coinstat = EmptyTable /\ purse = EmptyTable
  /\ drift = [c \in Coins |-> 0]

Held(owner, coin) ==
  IF <<owner, coin>> \in DOMAIN purse THEN purse[<<owner, coin>>] ELSE 0

-----------------------------------------------------------------------------
\* add_balance and sub_balance; mutant: a payment
\* overwrites what was there.
PaidInto(tbl, owner, coin, amount) == Put(tbl, <<owner, coin>>, amount)
AddBalance(tbl, owner, coin, amount) ==
  Put(tbl, <<owner, coin>>,
      amount + (IF <<owner, coin>> \in DOMAIN tbl THEN tbl[<<owner, coin>>] ELSE 0))

CanPay(owner, coin, amount) ==
  <<owner, coin>> \in DOMAIN purse /\ purse[<<owner, coin>>] >= amount
SubBalance(tbl, owner, coin, amount) == [tbl EXCEPT ![<<owner, coin>>] = @ - amount]

SingCreate(issuer, coin, max) ==
  /\ coin \notin DOMAIN coinstat
  /\ coinstat' = Put(coinstat, coin, [supply |-> 0, max_supply |-> max, issuer |-> issuer])
  /\ UNCHANGED <<purse, drift>>

\* What may still be minted.
Mintable(coin) == coinstat[coin].max_supply - coinstat[coin].supply

CanIssue(coin, amount) == coin \in DOMAIN coinstat /\ amount <= Mintable(coin)

\* Any minter may sign an issue to any other.
SingIssue(signer, to, coin, amount) ==
  /\ CanIssue(coin, amount)
  /\ {signer, to} \subseteq Minters \cup {coinstat[coin].issuer}
  /\ coinstat' = [coinstat EXCEPT ![coin].supply = @ + amount]
  /\ purse' = AddBalance(purse, to, coin, amount)
  /\ UNCHANGED drift

\* The two inline actions of a mining contract, issue to itself and transfer
\* to the account rewarded.
MintTo(minter, to, coin, amount) ==
  /\ CanIssue(coin, amount)
  /\ minter # to
  /\ coinstat' = [coinstat EXCEPT ![coin].supply = @ + amount]
  /\ purse' = AddBalance(AddBalance(purse, minter, coin, 0), to, coin, amount)
  /\ UNCHANGED drift

SingRetire(signer, coin, amount) ==
  /\ coin \in DOMAIN coinstat
  /\ signer = coinstat[coin].issuer
  /\ CanPay(signer, coin, amount)
  /\ coinstat' = [coinstat EXCEPT ![coin].supply = @ - amount]
  /\ purse' = SubBalance(purse, signer, coin, amount)
  /\ UNCHANGED drift

\* Signed by the sender.
SingTransfer(from, to, coin, amount) ==
  /\ from # to
  /\ coin \in DOMAIN coinstat
  /\ CanPay(from, coin, amount)
  /\ purse' = AddBalance(SubBalance(purse, from, coin, amount), to, coin, amount)
  /\ UNCHANGED <<coinstat, drift>>

SingOpen(owner, coin) ==
  /\ coin \in DOMAIN coinstat
  /\ purse' = AddBalance(purse, owner, coin, 0)
  /\ UNCHANGED <<coinstat, drift>>

SingClose(owner, coin) ==
  /\ <<owner, coin>> \in DOMAIN purse
  /\ purse[<<owner, coin>>] = 0
  /\ purse' = Drop(purse, <<owner, coin>>)
  /\ UNCHANGED <<coinstat, drift>>

\* delstats and delaccounts, signed by the contract account.
DelStats(coin) ==
  /\ coin \in DOMAIN coinstat
  /\ coinstat' = Drop(coinstat, coin)
  /\ drift' = [drift EXCEPT ![coin] = @ + coinstat[coin].supply]
  /\ UNCHANGED purse

DelAccounts(owner, coin) ==
  /\ <<owner, coin>> \in DOMAIN purse
  /\ purse' = Drop(purse, <<owner, coin>>)
  /\ drift' = [drift EXCEPT ![coin] = @ - Held(owner, coin)]
  /\ UNCHANGED coinstat

-----------------------------------------------------------------------------
Maintenance ==
  \E coin \in Coins : DelStats(coin) \/ \E a \in Parties : DelAccounts(a, coin)

SingNext ==
  \E coin \in Coins :
    \/ \E a \in Parties, m \in CoinCaps : SingCreate(a, coin, m)
    \/ \E a, b \in Parties, q \in Quantities :
         \/ SingIssue(a, b, coin, q)
         \/ SingTransfer(a, b, coin, q)
         \/ SingRetire(a, coin, q)
    \/ \E a \in Parties : SingOpen(a, coin) \/ SingClose(a, coin)

SingSpec == SingInit /\ [][SingNext \/ Maintenance]_singVars

-----------------------------------------------------------------------------
SupplyOf(coin) == IF coin \in DOMAIN coinstat THEN coinstat[coin].supply ELSE 0

\* The balances add up to the supply, plus or minus exactly what the
\* maintenance actions deleted: no other call creates or loses a unit; and no
\* call takes the supply above the cap it was created with, whatever the three
\* minters issued, burnt and created again before.
SingConserved ==
  /\ \A coin \in Coins :
       SumFunction([a \in Parties |-> Held(a, coin)]) = SupplyOf(coin) + drift[coin]
  /\ \A coin \in DOMAIN coinstat : SupplyOf(coin) <= coinstat[coin].max_supply
=============================================================================
