---------------------------- MODULE AwardsProofs ----------------------------
(***************************************************************************)
(* Proofs about the tokens and what spending them earns: sing.token,       *)
(* cvbadgestore with the badge rules, pop.cisum and cisum.token, for any   *)
(* accounts, coins, badges, thresholds and amounts.                        *)
(***************************************************************************)
EXTENDS MCAwards, SumTheorems

-----------------------------------------------------------------------------
(***************************************************************************)
(* sing.token.                                                             *)
(***************************************************************************)

\* A well-formed accounts table of sing.token.
IsPurse(tbl) ==
  /\ DOMAIN tbl \subseteq Parties \X Coins
  /\ tbl \in [DOMAIN tbl -> Nat]

\* What an owner holds of a coin in a table, and the sum over all owners.
HeldIn(tbl, a, c) == IF <<a, c>> \in DOMAIN tbl THEN tbl[<<a, c>>] ELSE 0

TotalIn(tbl, c) == SumFunction([a \in Parties |-> HeldIn(tbl, a, c)])

\* From one table to the next, one balance moves by delta and no other moves.
Moves(tbl, new, o, k, delta) ==
  /\ HeldIn(new, o, k) = HeldIn(tbl, o, k) + delta
  /\ \A a \in Parties, c \in Coins :
       a # o \/ c # k => HeldIn(new, a, c) = HeldIn(tbl, a, c)

\* Balances are natural numbers, rows that are missing included.
LEMMA HeldIsNat ==
  ASSUME NEW tbl, IsPurse(tbl)
  PROVE  \A a \in Parties, c \in Coins : HeldIn(tbl, a, c) \in Nat
BY DEF IsPurse, HeldIn

\* When one balance moves, the total of its coin moves by as much and the
\* totals of the other coins stay.
LEMMA TotalMoves ==
  ASSUME NEW tbl, NEW new, IsPurse(tbl), IsPurse(new),
         NEW o \in Parties, NEW k \in Coins, NEW delta \in Int,
         Moves(tbl, new, o, k, delta)
  PROVE  \A c \in Coins : TotalIn(new, c) = TotalIn(tbl, c) + (IF c = k THEN delta ELSE 0)
<1>1. SUFFICES ASSUME NEW c \in Coins
               PROVE  TotalIn(new, c) = TotalIn(tbl, c) + (IF c = k THEN delta ELSE 0)
  OBVIOUS
<1> DEFINE f == [a \in Parties |-> HeldIn(tbl, a, c)]
           g == [a \in Parties |-> HeldIn(new, a, c)]
<1>2. f \in [Parties -> Int] /\ g \in [Parties -> Int] /\ IsFiniteSet(Parties)
  BY HeldIsNat, SingAssumption
<1>3. \A a \in Parties \ {o} : g[a] = f[a]
  BY DEF Moves
<1>4. g[o] = f[o] + (IF c = k THEN delta ELSE 0)
  BY <1>2 DEF Moves
<1>5. SumFunction(f) \in Int /\ f[o] \in Int /\ g[o] \in Int
  <2> HIDE DEF f, g
  <2> QED
    BY <1>2, SumIsInt
<1>6. SumFunction(g) = SumFunction(f) - f[o] + g[o]
  <2> HIDE DEF f, g
  <2> QED
    BY <1>2, <1>3, SumChangeKey
<1>7. SumFunction(g) = SumFunction(f) + (IF c = k THEN delta ELSE 0)
  <2> HIDE DEF f, g
  <2> QED
    BY <1>4, <1>5, <1>6
<1> QED
  BY <1>7 DEF TotalIn

\* add_balance moves one balance up, whether or not the row exists.
LEMMA PaidIn ==
  ASSUME NEW tbl, IsPurse(tbl), NEW o \in Parties, NEW k \in Coins, NEW q \in Nat
  PROVE  /\ IsPurse(AddBalance(tbl, o, k, q))
         /\ Moves(tbl, AddBalance(tbl, o, k, q), o, k, q)
<1> DEFINE new == AddBalance(tbl, o, k, q)
<1>1. /\ DOMAIN new = DOMAIN tbl \cup {<<o, k>>}
      /\ new[<<o, k>>] = q + HeldIn(tbl, o, k)
      /\ \A e \in DOMAIN tbl : e # <<o, k>> => new[e] = tbl[e]
      /\ new = [e \in DOMAIN new |-> new[e]]
  BY DEF AddBalance, Put, HeldIn
<1>2. HeldIn(tbl, o, k) \in Nat
  BY HeldIsNat
<1> HIDE DEF new
<1>3. IsPurse(new)
  BY <1>1, <1>2 DEF IsPurse
<1>4. Moves(tbl, new, o, k, q)
  BY <1>1, <1>2 DEF Moves, HeldIn
<1> QED
  BY <1>3, <1>4 DEF new

\* sub_balance moves one balance down when it covers the amount.
LEMMA PaidFrom ==
  ASSUME NEW tbl, IsPurse(tbl), NEW o \in Parties, NEW k \in Coins, NEW q \in Nat,
         <<o, k>> \in DOMAIN tbl, tbl[<<o, k>>] >= q
  PROVE  /\ IsPurse(SubBalance(tbl, o, k, q))
         /\ Moves(tbl, SubBalance(tbl, o, k, q), o, k, - q)
<1> DEFINE new == SubBalance(tbl, o, k, q)
<1>1. /\ DOMAIN new = DOMAIN tbl
      /\ new[<<o, k>>] = tbl[<<o, k>>] - q
      /\ \A e \in DOMAIN tbl : e # <<o, k>> => new[e] = tbl[e]
      /\ new = [e \in DOMAIN new |-> new[e]]
  BY DEF SubBalance, IsPurse
<1>2. tbl[<<o, k>>] \in Nat /\ tbl[<<o, k>>] - q \in Nat
  BY DEF IsPurse
<1> HIDE DEF new
<1>3. IsPurse(new)
  BY <1>1, <1>2 DEF IsPurse
<1>4. Moves(tbl, new, o, k, - q)
  BY <1>1, <1>2 DEF Moves, HeldIn
<1> QED
  BY <1>3, <1>4 DEF new

\* Erasing a row moves the balance to zero.
LEMMA RowErased ==
  ASSUME NEW tbl, IsPurse(tbl), NEW o \in Parties, NEW k \in Coins
  PROVE  /\ IsPurse(Drop(tbl, <<o, k>>))
         /\ Moves(tbl, Drop(tbl, <<o, k>>), o, k, - HeldIn(tbl, o, k))
<1> DEFINE new == Drop(tbl, <<o, k>>)
<1>1. /\ DOMAIN new = DOMAIN tbl \ {<<o, k>>}
      /\ \A e \in DOMAIN new : new[e] = tbl[e]
      /\ new = [e \in DOMAIN new |-> new[e]]
  BY DEF Drop
<1>2. HeldIn(tbl, o, k) \in Nat
  BY HeldIsNat
<1> HIDE DEF new
<1>3. IsPurse(new)
  BY <1>1 DEF IsPurse
<1>4. Moves(tbl, new, o, k, - HeldIn(tbl, o, k))
  BY <1>1, <1>2 DEF Moves, HeldIn
<1> QED
  BY <1>3, <1>4 DEF new

\* The supply of a coin, zero for a coin without statistics, and the cap on
\* every coin that has them.
SupplyIn(cs, c) == IF c \in DOMAIN cs THEN cs[c].supply ELSE 0

Capped(cs) == \A c \in DOMAIN cs : cs[c].supply <= cs[c].max_supply

\* The inductive invariant of sing.token: the tables are well formed, per coin
\* the balances add up to the supply plus what maintenance deleted, and no
\* supply is beyond its cap.
SingInv ==
  /\ IsPurse(purse)
  /\ DOMAIN coinstat \subseteq Coins /\ coinstat \in [DOMAIN coinstat -> CoinStat]
  /\ drift \in [Coins -> Int]
  /\ \A c \in Coins : TotalIn(purse, c) = SupplyIn(coinstat, c) + drift[c]
  /\ Capped(coinstat)

\* Both sides of the equation of SingInv are integers.
LEMMA SupplyIsInt ==
  ASSUME SingInv
  PROVE  \A c \in Coins : SupplyIn(coinstat, c) \in Int /\ drift[c] \in Int
BY DEF SingInv, SupplyIn, CoinStat

\* Statistics and balances of one coin moving by the same amount, within the
\* cap, keep the invariant: the common part of issue, retire and the issue of a
\* miner.
LEMMA Minted ==
  ASSUME SingInv, NEW k \in DOMAIN coinstat, NEW d \in Int,
         coinstat[k].supply + d <= coinstat[k].max_supply,
         coinstat' = [coinstat EXCEPT ![k].supply = @ + d],
         IsPurse(purse'), UNCHANGED drift,
         \A c \in Coins : TotalIn(purse', c) = TotalIn(purse, c) + (IF c = k THEN d ELSE 0)
  PROVE  SingInv'
<1>1. /\ DOMAIN coinstat' = DOMAIN coinstat /\ k \in Coins
      /\ coinstat[k] \in CoinStat
      /\ coinstat' \in [DOMAIN coinstat' -> CoinStat]
      /\ coinstat'[k].supply = coinstat[k].supply + d
      /\ coinstat'[k].max_supply = coinstat[k].max_supply
      /\ \A c \in DOMAIN coinstat \ {k} : coinstat'[c] = coinstat[c]
  BY DEF SingInv, CoinStat
<1>2. Capped(coinstat)'
  BY <1>1 DEF SingInv, Capped
<1>3. \A c \in Coins : SupplyIn(coinstat', c) = SupplyIn(coinstat, c) + (IF c = k THEN d ELSE 0)
  BY <1>1, SupplyIsInt DEF SupplyIn
<1>4. ASSUME NEW c \in Coins
      PROVE  TotalIn(purse', c) = SupplyIn(coinstat', c) + drift'[c]
  <2>1. TotalIn(purse, c) = SupplyIn(coinstat, c) + drift[c]
    BY DEF SingInv
  <2>2. SupplyIn(coinstat, c) \in Int /\ drift[c] \in Int /\ drift'[c] = drift[c]
    BY SupplyIsInt
  <2>3. TotalIn(purse', c) = TotalIn(purse, c) + (IF c = k THEN d ELSE 0)
    OBVIOUS
  <2>4. SupplyIn(coinstat', c) = SupplyIn(coinstat, c) + (IF c = k THEN d ELSE 0)
    BY <1>3
  <2>5. (IF c = k THEN d ELSE 0) \in Int
    OBVIOUS
  <2> QED
    BY <2>1, <2>2, <2>3, <2>4, <2>5
<1> QED
  BY <1>1, <1>2, <1>4 DEF SingInv

\* Balances moving between owners keep the invariant.
LEMMA PurseStep ==
  ASSUME SingInv, UNCHANGED <<coinstat, drift>>, IsPurse(purse'),
         \A c \in Coins : TotalIn(purse', c) = TotalIn(purse, c)
  PROVE  SingInv'
BY DEF SingInv, Capped, CoinStat

\* issue: the amount fits what is left to mint.
LEMMA IssueStep ==
  ASSUME SingInv, NEW s, NEW to \in Parties, NEW k \in Coins, NEW q \in Nat,
         SingIssue(s, to, k, q)
  PROVE  SingInv'
<1>1. IsPurse(purse)
  BY DEF SingInv
<1>2. /\ IsPurse(purse')
      /\ \A c \in Coins : TotalIn(purse', c) = TotalIn(purse, c) + (IF c = k THEN q ELSE 0)
  BY <1>1, PaidIn, TotalMoves DEF SingIssue
<1>3. coinstat[k] \in CoinStat /\ q \in Int
  BY DEF SingInv, SingIssue, CanIssue
<1>4. k \in DOMAIN coinstat /\ coinstat[k].supply + q <= coinstat[k].max_supply
  BY <1>3 DEF SingIssue, CanIssue, Mintable, CoinStat
<1> QED
  BY <1>2, <1>3, <1>4, Minted DEF SingIssue

\* The issue and the transfer of a mining contract in one transaction.
LEMMA MintToStep ==
  ASSUME SingInv, NEW m \in Parties, NEW to \in Parties, NEW k \in Coins, NEW q \in Nat,
         MintTo(m, to, k, q)
  PROVE  SingInv'
<1> DEFINE mid == AddBalance(purse, m, k, 0)
<1>1. IsPurse(purse)
  BY DEF SingInv
<1>2. IsPurse(mid) /\ \A c \in Coins : TotalIn(mid, c) = TotalIn(purse, c) + (IF c = k THEN 0 ELSE 0)
  BY <1>1, PaidIn, TotalMoves
<1>3. purse' = AddBalance(mid, to, k, q)
  BY DEF MintTo
<1> HIDE DEF mid
<1>4. /\ IsPurse(purse')
      /\ \A c \in Coins : TotalIn(purse', c) = TotalIn(mid, c) + (IF c = k THEN q ELSE 0)
  <2>1. IsPurse(mid) /\ IsPurse(purse') /\ Moves(mid, purse', to, k, q)
    BY <1>2, <1>3, PaidIn
  <2> QED
    BY <2>1, TotalMoves
<1>5. k \in DOMAIN coinstat /\ q <= Mintable(k)
  BY DEF MintTo, CanIssue
<1>6. k \in DOMAIN coinstat /\ coinstat[k].supply + q <= coinstat[k].max_supply
  <2>1. coinstat[k] \in CoinStat
    BY <1>5 DEF SingInv
  <2> QED
    BY <1>5, <2>1 DEF Mintable, CoinStat
<1>7. \A c \in Coins : TotalIn(purse, c) \in Int
  BY SupplyIsInt DEF SingInv
<1>8. \A c \in Coins : TotalIn(purse', c) = TotalIn(purse, c) + (IF c = k THEN q ELSE 0)
  BY <1>2, <1>4, <1>7
<1>9. /\ q \in Int /\ UNCHANGED drift
      /\ coinstat' = [coinstat EXCEPT ![k].supply = @ + q]
  BY DEF MintTo
<1> QED
  BY <1>4, <1>6, <1>8, <1>9, Minted

\* retire: the supply falls with the balance burnt.
LEMMA RetireStep ==
  ASSUME SingInv, NEW a \in Parties, NEW k \in Coins, NEW q \in Nat, SingRetire(a, k, q)
  PROVE  SingInv'
<1>1. IsPurse(purse) /\ - q \in Int
  BY DEF SingInv
<1>2. /\ IsPurse(purse')
      /\ \A c \in Coins : TotalIn(purse', c) = TotalIn(purse, c) + (IF c = k THEN - q ELSE 0)
  BY <1>1, PaidFrom, TotalMoves DEF SingRetire, CanPay
<1>3. k \in DOMAIN coinstat /\ coinstat[k] \in CoinStat
  BY DEF SingInv, SingRetire
<1>4. coinstat[k].supply <= coinstat[k].max_supply
  BY <1>3 DEF SingInv, Capped
<1>5. coinstat[k].supply + (- q) <= coinstat[k].max_supply
  BY <1>3, <1>4 DEF CoinStat
<1>6. coinstat' = [coinstat EXCEPT ![k].supply = @ + (- q)]
  <2>1. coinstat[k].supply - q = coinstat[k].supply + (- q)
    BY <1>3 DEF CoinStat
  <2> QED
    BY <1>3, <2>1 DEF SingRetire
<1> QED
  BY <1>1, <1>2, <1>3, <1>5, <1>6, Minted DEF SingRetire

\* transfer: what leaves one balance enters another.
LEMMA TransferStep ==
  ASSUME SingInv, NEW a \in Parties, NEW b \in Parties, NEW k \in Coins, NEW q \in Nat,
         SingTransfer(a, b, k, q)
  PROVE  SingInv'
<1> DEFINE mid == SubBalance(purse, a, k, q)
<1>1. IsPurse(purse) /\ - q \in Int /\ q \in Int
  BY DEF SingInv
<1>2. IsPurse(mid) /\ \A c \in Coins : TotalIn(mid, c) = TotalIn(purse, c) + (IF c = k THEN - q ELSE 0)
  BY <1>1, PaidFrom, TotalMoves DEF SingTransfer, CanPay
<1>3. purse' = AddBalance(mid, b, k, q)
  BY DEF SingTransfer
<1> HIDE DEF mid
<1>4. /\ IsPurse(purse')
      /\ \A c \in Coins : TotalIn(purse', c) = TotalIn(mid, c) + (IF c = k THEN q ELSE 0)
  BY <1>1, <1>2, <1>3, PaidIn, TotalMoves
<1>5. \A c \in Coins : TotalIn(purse, c) \in Int
  BY SupplyIsInt DEF SingInv
<1>6. \A c \in Coins : TotalIn(purse', c) = TotalIn(purse, c)
  BY <1>2, <1>4, <1>5
<1> QED
  BY <1>4, <1>6, PurseStep DEF SingTransfer

\* open and close touch rows without value.
LEMMA RowStep ==
  ASSUME SingInv, NEW a \in Parties, NEW k \in Coins, SingOpen(a, k) \/ SingClose(a, k)
  PROVE  SingInv'
<1>1. IsPurse(purse) /\ 0 \in Nat /\ 0 \in Int
  BY DEF SingInv
<1>2. IsPurse(purse') /\ Moves(purse, purse', a, k, 0)
  <2>1. CASE SingOpen(a, k)
    BY <1>1, <2>1, PaidIn DEF SingOpen
  <2>2. CASE SingClose(a, k)
    <3>1. /\ DOMAIN purse' = DOMAIN purse \ {<<a, k>>}
          /\ \A e \in DOMAIN purse' : purse'[e] = purse[e]
      BY <2>2 DEF SingClose, Drop
    <3>2. HeldIn(purse, a, k) = 0 /\ HeldIn(purse', a, k) = 0
      BY <2>2, <3>1 DEF SingClose, HeldIn
    <3>3. \A b \in Parties, c \in Coins :
            b # a \/ c # k => HeldIn(purse', b, c) = HeldIn(purse, b, c)
      BY <3>1 DEF HeldIn
    <3>4. IsPurse(purse')
      BY <1>1, <2>2, RowErased DEF SingClose
    <3> QED
      BY <3>2, <3>3, <3>4 DEF Moves
  <2> QED
    BY <2>1, <2>2
<1>3. \A c \in Coins : TotalIn(purse', c) = TotalIn(purse, c) + (IF c = k THEN 0 ELSE 0)
  BY <1>1, <1>2, TotalMoves
<1>4. \A c \in Coins : TotalIn(purse, c) \in Int
  BY SupplyIsInt DEF SingInv
<1>5. \A c \in Coins : TotalIn(purse', c) = TotalIn(purse, c)
  BY <1>3, <1>4
<1> QED
  BY <1>2, <1>5, PurseStep DEF SingOpen, SingClose

\* create: a coin without balances to account for, or one whose statistics were
\* deleted and whose drift holds what its owners kept.
LEMMA CreateStep ==
  ASSUME SingInv, NEW a \in Parties, NEW k \in Coins, NEW m \in Nat, SingCreate(a, k, m)
  PROVE  SingInv'
<1>1. /\ DOMAIN coinstat' = DOMAIN coinstat \cup {k} /\ k \notin DOMAIN coinstat
      /\ coinstat'[k] = [supply |-> 0, max_supply |-> m, issuer |-> a]
      /\ \A c \in DOMAIN coinstat : coinstat'[c] = coinstat[c]
      /\ coinstat' \in [DOMAIN coinstat' -> CoinStat]
      /\ UNCHANGED <<purse, drift>>
  BY DEF SingInv, SingCreate, Put, CoinStat
<1>2. \A c \in Coins : SupplyIn(coinstat', c) = SupplyIn(coinstat, c)
  BY <1>1 DEF SupplyIn
<1>3. Capped(coinstat)'
  BY <1>1 DEF SingInv, Capped
<1> QED
  BY <1>1, <1>2, <1>3 DEF SingInv

\* delstats: what the supply loses the drift gains.
LEMMA DelStatsStep ==
  ASSUME SingInv, NEW k \in Coins, DelStats(k)
  PROVE  SingInv'
<1>1. /\ DOMAIN coinstat' = DOMAIN coinstat \ {k}
      /\ \A c \in DOMAIN coinstat' : coinstat'[c] = coinstat[c]
      /\ coinstat' \in [DOMAIN coinstat' -> CoinStat]
      /\ UNCHANGED purse
  BY DEF SingInv, DelStats, Drop
<1>2. coinstat[k].supply = SupplyIn(coinstat, k) /\ SupplyIn(coinstat', k) = 0
  BY <1>1 DEF SupplyIn, DelStats
<1>3. drift' \in [Coins -> Int] /\ drift'[k] = drift[k] + SupplyIn(coinstat, k)
  BY <1>2, SupplyIsInt DEF SingInv, DelStats
<1>4. \A c \in Coins \ {k} : SupplyIn(coinstat', c) = SupplyIn(coinstat, c) /\ drift'[c] = drift[c]
  BY <1>1 DEF SupplyIn, DelStats, SingInv
<1>5. ASSUME NEW c \in Coins
      PROVE  TotalIn(purse', c) = SupplyIn(coinstat', c) + drift'[c]
  <2>1. TotalIn(purse', c) = SupplyIn(coinstat, c) + drift[c]
    BY <1>1 DEF SingInv
  <2> QED
    BY <1>2, <1>3, <1>4, <2>1, SupplyIsInt
<1>6. Capped(coinstat)'
  BY <1>1 DEF SingInv, Capped
<1> QED
  BY <1>1, <1>3, <1>5, <1>6 DEF SingInv

\* delaccounts: what the balances lose the drift loses.
LEMMA DelAccountsStep ==
  ASSUME SingInv, NEW a \in Parties, NEW k \in Coins, DelAccounts(a, k)
  PROVE  SingInv'
<1> DEFINE had == HeldIn(purse, a, k)
<1>1. IsPurse(purse) /\ had \in Int /\ - had \in Int
  BY HeldIsNat DEF SingInv
<1>2. /\ IsPurse(purse')
      /\ Moves(purse, purse', a, k, - had)
  BY <1>1, RowErased DEF DelAccounts
<1>3. drift' \in [Coins -> Int] /\ \A c \in Coins : drift'[c] = drift[c] - (IF c = k THEN had ELSE 0)
  BY <1>1 DEF SingInv, DelAccounts, Held, HeldIn
<1> HIDE DEF had
<1>4. \A c \in Coins : TotalIn(purse', c) = TotalIn(purse, c) + (IF c = k THEN - had ELSE 0)
  BY <1>1, <1>2, TotalMoves
<1>5. ASSUME NEW c \in Coins
      PROVE  TotalIn(purse', c) = SupplyIn(coinstat', c) + drift'[c]
  <2>1. TotalIn(purse, c) = SupplyIn(coinstat, c) + drift[c] /\ UNCHANGED coinstat
    BY DEF SingInv, DelAccounts
  <2> QED
    BY <1>1, <1>3, <1>4, <2>1, SupplyIsInt
<1> QED
  BY <1>2, <1>3, <1>5 DEF SingInv, DelAccounts, Capped, CoinStat

\* Every step of the ledger keeps its invariant.
LEMMA SingStep ==
  ASSUME SingInv, SingNext \/ Maintenance
  PROVE  SingInv'
<1>1. CoinCaps \subseteq Nat /\ Quantities \subseteq Nat
  BY SingAssumption
<1>2. CASE SingNext
  <2>1. PICK k \in Coins :
          \/ \E a \in Parties, m \in CoinCaps : SingCreate(a, k, m)
          \/ \E a, b \in Parties, q \in Quantities :
               SingIssue(a, b, k, q) \/ SingTransfer(a, b, k, q) \/ SingRetire(a, k, q)
          \/ \E a \in Parties : SingOpen(a, k) \/ SingClose(a, k)
    BY <1>2 DEF SingNext
  <2>2. CASE \E a \in Parties, m \in CoinCaps : SingCreate(a, k, m)
    BY <1>1, <2>2, CreateStep
  <2>3. CASE \E a, b \in Parties, q \in Quantities :
               SingIssue(a, b, k, q) \/ SingTransfer(a, b, k, q) \/ SingRetire(a, k, q)
    BY <1>1, <2>3, IssueStep, TransferStep, RetireStep
  <2>4. CASE \E a \in Parties : SingOpen(a, k) \/ SingClose(a, k)
    BY <2>4, RowStep
  <2> QED
    BY <2>1, <2>2, <2>3, <2>4
<1>3. CASE Maintenance
  BY <1>3, DelStatsStep, DelAccountsStep DEF Maintenance
<1> QED
  BY <1>2, <1>3

\* An empty ledger satisfies it.
LEMMA SingStart == SingInit => SingInv
<1>1. SUFFICES ASSUME SingInit
               PROVE  SingInv
  OBVIOUS
<1>2. IsPurse(purse) /\ DOMAIN coinstat = {} /\ drift \in [Coins -> Int]
  BY <1>1 DEF SingInit, EmptyTable, IsPurse
<1>3. ASSUME NEW c \in Coins
      PROVE  TotalIn(purse, c) = SupplyIn(coinstat, c) + drift[c]
  <2> DEFINE f == [a \in Parties |-> HeldIn(purse, a, c)]
  <2>1. f \in [Parties -> Int] /\ \A a \in Parties : f[a] = 0
    BY <1>1 DEF SingInit, EmptyTable, HeldIn
  <2>2. SumFunction(f) = 0
    <3> HIDE DEF f
    <3> QED
      BY <2>1, SingAssumption, SumOfZeros
  <2> QED
    BY <1>1, <1>2, <2>2 DEF SingInit, TotalIn, SupplyIn
<1> QED
  BY <1>1, <1>2, <1>3 DEF SingInit, SingInv, Capped, EmptyTable

\* What the invariant says in the terms of the checked properties.
LEMMA SingInvMeans == SingInv => SingTypeOK /\ SingConserved
<1>1. SUFFICES ASSUME SingInv
               PROVE  SingTypeOK /\ SingConserved
  OBVIOUS
<1>2. SingTypeOK
  BY <1>1 DEF SingInv, IsPurse, SingTypeOK
<1>3. ASSUME NEW c \in Coins
      PROVE  SumFunction([a \in Parties |-> Held(a, c)]) = SupplyOf(c) + drift[c]
  <2>1. TotalIn(purse, c) = SupplyIn(coinstat, c) + drift[c]
    BY <1>1 DEF SingInv
  <2> QED
    BY <2>1 DEF TotalIn, HeldIn, Held, SupplyIn, SupplyOf
<1>4. \A c \in DOMAIN coinstat : SupplyOf(c) <= coinstat[c].max_supply
  BY <1>1 DEF SingInv, Capped, SupplyOf
<1> QED
  BY <1>2, <1>3, <1>4 DEF SingConserved

\* The balances of sing.token add up to the supply, but for what delstats and
\* delaccounts deleted, and the supply stays below the cap, for any accounts,
\* miners, coins and amounts.
THEOREM NoSingCreated == SingSpec => []SingConserved
<1>1. SingInv /\ [SingNext \/ Maintenance]_singVars => SingInv'
  <2>1. SingInv /\ UNCHANGED singVars => SingInv'
    BY DEF singVars, SingInv, Capped
  <2> QED
    BY <2>1, SingStep
<1> QED
  BY <1>1, SingStart, SingInvMeans, PTL DEF SingSpec

\* The tables of sing.token stay well formed, deletions of rows included: no
\* balance ever falls below zero.
THEOREM SingTypes == SingSpec => []SingTypeOK
<1>1. SingInv /\ [SingNext \/ Maintenance]_singVars => SingInv'
  <2>1. SingInv /\ UNCHANGED singVars => SingInv'
    BY DEF singVars, SingInv, Capped
  <2> QED
    BY <2>1, SingStep
<1> QED
  BY <1>1, SingStart, SingInvMeans, PTL DEF SingSpec

-----------------------------------------------------------------------------
(***************************************************************************)
(* cvbadgestore.                                                           *)
(***************************************************************************)

\* A well-formed list of badges and amounts.
IsPack(packs) == DOMAIN packs \subseteq Badges /\ packs \in [DOMAIN packs -> Nat]

\* The transfer of badges at the ledger is covered by the stock of the store,
\* so no stock becomes negative.
LEMMA HandOutStep ==
  ASSUME StoreTypeOK, NEW u \in Accounts, NEW p, IsPack(p), HandOut(u, p)
  PROVE  StoreTypeOK'
<1>1. UNCHANGED <<badges, storeConfig>>
  BY DEF HandOut
<1>2. stock' \in [Accounts -> [Badges -> Nat]]
  <2>1. CASE badge_contract = BADGE
    <3>1. /\ \A n \in DOMAIN p : stock[STORE][n] >= p[n]
          /\ stock' = [a \in Accounts |-> [n \in Badges |->
                 IF n \notin DOMAIN p THEN stock[a][n]
                 ELSE CASE a = STORE -> stock[a][n] - p[n]
                        [] a = u -> stock[a][n] + p[n]
                        [] OTHER -> stock[a][n]]]
      BY <2>1 DEF HandOut, InStock, Source
    <3>2. ASSUME NEW a \in Accounts, NEW n \in Badges
          PROVE  stock'[a][n] \in Nat
      <4>1. stock[a][n] \in Nat /\ stock[STORE][n] \in Nat
        BY StoreAssumption DEF StoreTypeOK
      <4>2. n \in DOMAIN p => p[n] \in Nat
        BY DEF IsPack
      <4> QED
        BY <3>1, <4>1, <4>2
    <3>3. stock' = [a \in Accounts |-> [n \in Badges |-> stock'[a][n]]]
      BY <3>1
    <3> QED
      BY <3>2, <3>3
  <2>2. CASE badge_contract # BADGE
    BY <2>2 DEF HandOut, StoreTypeOK
  <2> QED
    BY <2>1, <2>2
<1> QED
  BY <1>1, <1>2 DEF StoreTypeOK, storeConfig

\* createbadge adds a badge and its stock.
LEMMA CreateBadgeStep ==
  ASSUME StoreTypeOK, NEW s, NEW n \in Badges, NEW m \in Nat, NEW q \in Nat,
         CreateBadge(s, n, m, q)
  PROVE  StoreTypeOK'
<1>1. UNCHANGED storeConfig
  BY DEF CreateBadge
<1>2. CASE badge_contract \in {NoAcct, BADGE}
  <2>1. /\ DOMAIN badges' = DOMAIN badges \cup {n}
        /\ badges' \in [DOMAIN badges' -> [supply : Nat, max_supply : Nat]]
    BY <1>2 DEF CreateBadge, Put, StoreTypeOK
  <2>2. stock' \in [Accounts -> [Badges -> Nat]]
    BY <1>2, StoreAssumption DEF CreateBadge, StoreTypeOK
  <2> QED
    BY <1>1, <2>1, <2>2 DEF StoreTypeOK, storeConfig
<1>3. CASE badge_contract \notin {NoAcct, BADGE}
  BY <1>1, <1>3 DEF CreateBadge, StoreTypeOK, storeConfig, badgeVars
<1> QED
  BY <1>2, <1>3

\* Every action of cvbadgestore keeps its tables well formed.
LEMMA StoreStep ==
  ASSUME StoreTypeOK, StoreNext
  PROVE  StoreTypeOK'
<1>1. BADGE \in Accounts /\ StoreAccts \subseteq Accounts /\ BadgeCaps \subseteq Nat /\ Amounts \subseteq Nat
  BY StoreAssumption
<1>2. CASE \E a \in StoreAccts : StoreSetAdmin(a)
  BY <1>1, <1>2 DEF StoreSetAdmin, StoreTypeOK, badgeVars
<1>3. CASE \E c, f \in StoreAccts \cup {BADGE} : SetBadge(c, f)
  BY <1>1, <1>3 DEF SetBadge, StoreTypeOK, badgeVars
<1>4. CASE \E s \in Accounts, a \in StoreAccts : AddNotifier(s, a) \/ DelNotifier(s, a)
  BY <1>1, <1>4 DEF AddNotifier, DelNotifier, StoreTypeOK, badgeVars
<1>5. CASE \E s \in Accounts, n \in Badges, m \in BadgeCaps, q \in Amounts : CreateBadge(s, n, m, q)
  BY <1>1, <1>5, CreateBadgeStep
<1>6. CASE \E s, u \in Accounts, p \in Packs : Reward(s, u, p)
  <2>1. PICK u \in Accounts, p \in Packs : HandOut(u, p)
    BY <1>6 DEF Reward
  <2>2. IsPack(p)
    BY <1>1 DEF Packs, IsPack
  <2> QED
    BY <2>1, <2>2, HandOutStep
<1> QED
  BY <1>2, <1>3, <1>4, <1>5, <1>6 DEF StoreNext

-----------------------------------------------------------------------------
(***************************************************************************)
(* Badge rules.                                                            *)
(***************************************************************************)

\* What the sum is past the last threshold it crossed.
Short(sum, step) == sum - ((sum \div step) * step)

\* The strengthening of AwardsMatchSpending for one rule and one account. Each
\* payment adds to awarded * step + Short exactly what it adds to spent, so
\* their difference stays what it was when the rule got its terms: at least 0
\* and below one step. A closed row takes Short away, which is less than one
\* step, once for every close.
RuleFits(t, step, sum) ==
  /\ (t.awarded * step) + Short(sum, step) < t.spent + step
  /\ t.spent <= (t.awarded * step) + Short(sum, step) + (t.closes * step)

Tally == [spent : Nat, awarded : Nat, closes : Nat]

\* Division with remainder.
LEMMA DivisionRemainder ==
  ASSUME NEW n \in Nat, NEW step \in Nat \ {0}
  PROVE  n \div step \in Nat /\ Short(n, step) \in 0..(step - 1)
BY DEF Short

\* The badges of a payment, in units of the threshold, are the payment plus
\* what the sum was past a threshold before and less what it is past one after.
LEMMA PacksAreCounted ==
  ASSUME NEW before \in Nat, NEW p \in Nat, NEW step \in Nat \ {0}
  PROVE  /\ PacksOf(step, before, before + p) \in Nat
         /\ PacksOf(step, before, before + p) * step
              = p + Short(before, step) - Short(before + p, step)
<1> DEFINE x == before \div step
           y == (before + p) \div step
<1>1. x \in Nat /\ y \in Nat /\ x <= y
  BY DivisionRemainder
<1>2. (y - x) * step = (y * step) - (x * step)
  <2> HIDE DEF x, y
  <2> QED
    BY <1>1
<1>3. x * step \in Int /\ y * step \in Int
  <2> HIDE DEF x, y
  <2> QED
    BY <1>1
<1> QED
  BY <1>1, <1>2, <1>3 DEF PacksOf, Short

\* A rule that just got its terms.
LEMMA NewRuleFits ==
  ASSUME NEW step \in Nat \ {0}, NEW sum \in Nat
  PROVE  RuleFits([spent |-> 0, awarded |-> 0, closes |-> 0], step, sum)
BY DivisionRemainder DEF RuleFits

\* A payment that the rule counts.
LEMMA PaymentFits ==
  ASSUME NEW t \in Tally, NEW step \in Nat \ {0}, NEW sum \in Nat, NEW p \in Nat,
         NEW new \in Tally, RuleFits(t, step, sum),
         new.spent = t.spent + p, new.closes = t.closes,
         new.awarded = t.awarded + PacksOf(step, sum, sum + p)
  PROVE  RuleFits(new, step, sum + p)
<1> DEFINE k == PacksOf(step, sum, sum + p)
           a == t.awarded
           e == Short(sum, step)
           f == Short(sum + p, step)
<1>1. k \in Nat /\ k * step = p + e - f
  BY PacksAreCounted
<1>2. e \in Int /\ f \in Int /\ a \in Nat
  BY DivisionRemainder DEF Tally
<1>3. new.awarded = a + k
  OBVIOUS
<1> HIDE DEF k, a, e, f
<1>4. (a + k) * step = (a * step) + (k * step)
  BY <1>1, <1>2
<1>5. a * step \in Int /\ t.closes * step \in Int /\ t.spent \in Int
  BY <1>2 DEF Tally
<1>6. (new.awarded * step) + f = (a * step) + p + e
  BY <1>1, <1>2, <1>3, <1>4, <1>5
<1>7. (a * step) + e < t.spent + step /\ t.spent <= (a * step) + e + (t.closes * step)
  BY DEF RuleFits, a, e
<1>8. /\ (new.awarded * step) + f < new.spent + step
      /\ new.spent <= (new.awarded * step) + f + (new.closes * step)
  BY <1>2, <1>5, <1>6, <1>7
<1> QED
  BY <1>8 DEF RuleFits, f

\* A closed row, whose sum starts again at 0.
LEMMA CloseFits ==
  ASSUME NEW t \in Tally, NEW step \in Nat \ {0}, NEW sum \in Nat,
         NEW new \in Tally, RuleFits(t, step, sum),
         new.spent = t.spent, new.closes = t.closes + 1, new.awarded = t.awarded
  PROVE  RuleFits(new, step, 0)
<1>1. Short(sum, step) \in 0..(step - 1) /\ Short(0, step) = 0
  BY DivisionRemainder DEF Short
<1>2. (t.closes + 1) * step = (t.closes * step) + step
  BY DEF Tally
<1>3. t.awarded * step \in Int /\ t.closes * step \in Int /\ t.spent \in Int
  BY DEF Tally
<1> QED
  BY <1>1, <1>2, <1>3 DEF RuleFits

\* The bounds of AwardsMatchSpending follow.
LEMMA FittingRule ==
  ASSUME NEW t \in Tally, NEW step \in Nat \ {0}, NEW sum \in Nat, RuleFits(t, step, sum)
  PROVE  /\ t.awarded * step < t.spent + step
         /\ t.spent < step * (t.awarded + 1 + t.closes)
<1>1. Short(sum, step) \in 0..(step - 1)
  BY DivisionRemainder
<1>2. step * (t.awarded + 1 + t.closes) = (t.awarded * step) + step + (t.closes * step)
  BY DEF Tally
<1>3. t.awarded * step \in Int /\ t.closes * step \in Int /\ t.spent \in Int
  BY DEF Tally
<1> QED
  BY <1>1, <1>2, <1>3 DEF RuleFits

\* All rules in force fit the sums of all accounts.
SumsFit(rl, tl, sum) ==
  \A i \in DOMAIN rl, u \in Spenders :
    rl[i].enabled /\ rl[i].symbol = Currency => RuleFits(tl[i][u], rl[i].step, sum[u])

\* No badge has two rules.
RulesInv == RulesTypeOK /\ OneRulePerBadge

\* addrule and setrule: a new or changed rule starts a tally of its own and
\* names a badge no other rule names.
LEMMA PutRuleStep ==
  ASSUME RulesInv, NEW id, NEW r \in Rule, PutRule(id, r)
  PROVE  /\ RulesInv'
         /\ \A sum \in [Spenders -> Nat] :
              SumsFit(rules, tally, sum) => SumsFit(rules', tally', sum)
<1> DEFINE key == IF id = 0 THEN FreeId ELSE id
<1>1. /\ key \in RuleIds /\ (id # 0 => id \in DOMAIN rules)
      /\ IF id # 0 /\ rules[id].nid = r.nid THEN TRUE ELSE ~ BadgeRuled(r.nid)
      /\ rules' = Put(rules, key, r) /\ tally' = Put(tally, key, NoTally)
  BY DEF PutRule
<1>2. \A j \in DOMAIN rules \ {key} : rules[j].nid # r.nid
  <2>1. CASE id # 0 /\ rules[id].nid = r.nid
    BY <1>1, <2>1 DEF RulesInv, OneRulePerBadge
  <2>2. CASE ~ (id # 0 /\ rules[id].nid = r.nid)
    BY <1>1, <2>2 DEF BadgeRuled
  <2> QED
    BY <2>1, <2>2
<1> HIDE DEF key
<1>3. /\ DOMAIN rules' = DOMAIN rules \cup {key} /\ DOMAIN tally' = DOMAIN rules'
      /\ rules'[key] = r /\ tally'[key] = NoTally
      /\ \A j \in DOMAIN rules \ {key} : rules'[j] = rules[j] /\ tally'[j] = tally[j]
  BY <1>1 DEF Put, RulesInv, RulesTypeOK
<1>4. NoTally \in [Spenders -> Tally]
  BY DEF NoTally, Tally
<1>5. RulesTypeOK'
  <2>1. rules' \in [DOMAIN rules' -> Rule]
    BY <1>1, <1>3 DEF Put, RulesInv, RulesTypeOK
  <2>2. tally' \in [DOMAIN rules' -> [Spenders -> Tally]]
    BY <1>1, <1>3, <1>4 DEF Put, RulesInv, RulesTypeOK, Tally
  <2> QED
    BY <1>1, <1>3, <2>1, <2>2 DEF RulesInv, RulesTypeOK, Tally
<1>6. OneRulePerBadge'
  BY <1>2, <1>3 DEF RulesInv, OneRulePerBadge
<1>7. ASSUME NEW sum \in [Spenders -> Nat], SumsFit(rules, tally, sum),
             NEW i \in DOMAIN rules', NEW u \in Spenders,
             rules'[i].enabled, rules'[i].symbol = Currency
      PROVE  RuleFits(tally'[i][u], rules'[i].step, sum[u])
  <2>1. CASE i = key
    <3>1. r.step \in Nat \ {0} /\ sum[u] \in Nat
      BY RuleAssumption DEF Rule
    <3>2. tally'[i][u] = [spent |-> 0, awarded |-> 0, closes |-> 0]
      BY <1>3, <2>1 DEF NoTally
    <3> QED
      BY <1>3, <2>1, <3>1, <3>2, NewRuleFits
  <2>2. CASE i # key
    BY <1>3, <1>7, <2>2 DEF SumsFit
  <2> QED
    BY <2>1, <2>2
<1> QED
  BY <1>5, <1>6, <1>7 DEF RulesInv, SumsFit

\* delrule only takes away.
LEMMA EraseRuleStep ==
  ASSUME RulesInv, NEW id, EraseRule(id)
  PROVE  /\ RulesInv'
         /\ \A sum \in [Spenders -> Nat] :
              SumsFit(rules, tally, sum) => SumsFit(rules', tally', sum)
<1>1. /\ DOMAIN rules' = DOMAIN rules \ {id} /\ DOMAIN tally' = DOMAIN rules'
      /\ \A j \in DOMAIN rules' : rules'[j] = rules[j] /\ tally'[j] = tally[j]
      /\ rules' = [j \in DOMAIN rules' |-> rules'[j]]
      /\ tally' = [j \in DOMAIN rules' |-> tally'[j]]
  BY DEF EraseRule, Drop, RulesInv, RulesTypeOK
<1>2. RulesTypeOK'
  BY <1>1 DEF RulesInv, RulesTypeOK
<1>3. OneRulePerBadge'
  BY <1>1 DEF RulesInv, OneRulePerBadge
<1> QED
  BY <1>1, <1>2, <1>3 DEF RulesInv, SumsFit

\* new is sum after the user has paid p.
PaidBy(sum, new, user, before, p) ==
  /\ user \in Spenders => sum[user] = before
  /\ \A u \in Spenders : new[u] = IF u = user THEN before + p ELSE sum[u]

\* A payment applied to the rules (try_award_badges).
LEMMA RememberStep ==
  ASSUME RulesInv, UNCHANGED rules, NEW user, NEW sym, NEW before \in Nat, NEW p \in Nat,
         Remember(user, sym, before, before + p)
  PROVE  /\ RulesInv'
         /\ \A sum, new \in [Spenders -> Nat] :
              SumsFit(rules, tally, sum) /\ sym = Currency /\ PaidBy(sum, new, user, before, p)
              => SumsFit(rules', tally', new)
<1> DEFINE after == before + p
           more == IF sym = Currency THEN p ELSE 0
           packs(i) == PacksOf(rules[i].step, before, after)
           won(i) == IF i \in Crossed(before, after) THEN packs(i) ELSE 0
<1>1. DOMAIN tally' = DOMAIN rules /\ more \in Nat
  BY DEF Remember, RulesInv, RulesTypeOK
<1>2. ASSUME NEW i \in DOMAIN rules
      PROVE  packs(i) \in Nat /\ won(i) \in Nat
  BY PacksAreCounted, RuleAssumption DEF RulesInv, RulesTypeOK, Rule
<1>3. ASSUME NEW i \in DOMAIN rules, NEW u \in Spenders
      PROVE  /\ tally[i][u] \in Tally
             /\ u # user \/ ~ rules[i].enabled => tally'[i][u] = tally[i][u]
             /\ u = user /\ rules[i].enabled =>
                  /\ tally'[i][u] \in Tally
                  /\ tally'[i][u].spent = tally[i][u].spent + more
                  /\ tally'[i][u].awarded = tally[i][u].awarded + won(i)
                  /\ tally'[i][u].closes = tally[i][u].closes
  <2>1. tally[i][u] \in Tally
    BY DEF RulesInv, RulesTypeOK, Tally
  <2>2. tally'[i][u] =
          IF u = user /\ rules[i].enabled
            THEN [tally[i][u] EXCEPT !.spent = @ + (IF sym = Currency THEN after - before ELSE 0),
                                     !.awarded = @ + won(i)]
            ELSE tally[i][u]
    BY DEF Remember, RulesInv, RulesTypeOK
  <2>3. (IF sym = Currency THEN after - before ELSE 0) = more
    OBVIOUS
  <2>4. PICK w \in Nat, m \in Nat : w = won(i) /\ m = more
    BY <1>1, <1>2
  <2>5. tally'[i][u] =
          IF u = user /\ rules[i].enabled
            THEN [tally[i][u] EXCEPT !.spent = @ + m, !.awarded = @ + w]
            ELSE tally[i][u]
    BY <2>2, <2>3, <2>4
  <2> HIDE DEF won, more, after
  <2>6. CASE u = user /\ rules[i].enabled
    <3>1. tally'[i][u] = [tally[i][u] EXCEPT !.spent = @ + m, !.awarded = @ + w]
      BY <2>5, <2>6
    <3>2. tally'[i][u] = [spent |-> tally[i][u].spent + m,
                          awarded |-> tally[i][u].awarded + w,
                          closes |-> tally[i][u].closes]
      BY <2>1, <3>1 DEF Tally
    <3>3. /\ tally[i][u].spent + m \in Nat /\ tally[i][u].awarded + w \in Nat
          /\ tally[i][u].closes \in Nat
      BY <2>1 DEF Tally
    <3>4. tally'[i][u] \in Tally
      BY <3>2, <3>3 DEF Tally
    <3> QED
      BY <2>1, <2>4, <2>6, <3>2, <3>4
  <2> QED
    BY <2>1, <2>5, <2>6
<1>4. RulesTypeOK'
  <2>1. tally' = [i \in DOMAIN rules |-> [u \in Spenders |-> tally'[i][u]]]
    BY DEF Remember, RulesInv, RulesTypeOK
  <2>2. \A i \in DOMAIN rules, u \in Spenders : tally'[i][u] \in Tally
    BY <1>3
  <2> HIDE DEF after, more, packs, won
  <2>3. tally' \in [DOMAIN rules -> [Spenders -> Tally]]
    BY <2>1, <2>2
  <2> QED
    BY <2>3 DEF RulesInv, RulesTypeOK, Tally
<1>5. ASSUME NEW sum \in [Spenders -> Nat], SumsFit(rules, tally, sum), NEW new \in [Spenders -> Nat],
             sym = Currency, PaidBy(sum, new, user, before, p),
             NEW i \in DOMAIN rules', NEW u \in Spenders,
             rules'[i].enabled, rules'[i].symbol = Currency
      PROVE  RuleFits(tally'[i][u], rules'[i].step, new[u])
  <2>1. /\ i \in DOMAIN rules /\ rules[i].enabled /\ rules[i].symbol = Currency
        /\ rules'[i] = rules[i] /\ rules[i].step \in Nat \ {0}
    BY <1>5, RuleAssumption DEF RulesInv, RulesTypeOK, Rule
  <2>2. RuleFits(tally[i][u], rules[i].step, sum[u])
    BY <1>5, <2>1 DEF SumsFit
  <2>3. CASE u # user
    BY <1>3, <1>5, <2>1, <2>2, <2>3 DEF PaidBy
  <2>4. CASE u = user
    <3>1. won(i) = packs(i)
      BY <1>2, <2>1 DEF Crossed
    <3>2. more = p
      BY <1>5
    <3>3. /\ tally[i][u] \in Tally /\ tally'[i][u] \in Tally
          /\ tally'[i][u].spent = tally[i][u].spent + p
          /\ tally'[i][u].awarded = tally[i][u].awarded + PacksOf(rules[i].step, before, before + p)
          /\ tally'[i][u].closes = tally[i][u].closes
      BY <1>3, <2>1, <2>4, <3>1, <3>2
    <3>4. sum[u] = before /\ new[u] = before + p
      BY <1>5, <2>4 DEF PaidBy
    <3>5. RuleFits(tally[i][u], rules[i].step, before) /\ rules[i].step \in Nat \ {0}
      BY <2>1, <2>2, <3>4
    <3> DEFINE old == tally[i][u]
               now == tally'[i][u]
               step == rules[i].step
    <3>6. RuleFits(now, step, before + p)
      <4> HIDE DEF old, now, step
      <4>1. /\ old \in Tally /\ now \in Tally /\ step \in Nat \ {0}
            /\ RuleFits(old, step, before) /\ now.spent = old.spent + p
            /\ now.closes = old.closes /\ now.awarded = old.awarded + PacksOf(step, before, before + p)
        BY <3>3, <3>5 DEF old, now, step
      <4> QED
        BY <4>1, PaymentFits
    <3> QED
      BY <2>1, <3>4, <3>6
  <2> QED
    BY <2>3, <2>4
<1>6. OneRulePerBadge'
  BY DEF RulesInv, OneRulePerBadge
<1> QED
  BY <1>4, <1>5, <1>6 DEF RulesInv, SumsFit

\* What the strengthening says in the terms of the checked property.
LEMMA RulesMean ==
  ASSUME RulesInv, NEW sum \in [Spenders -> Nat], SumsFit(rules, tally, sum)
  PROVE  BadgesFollowSpending
<1>1. ASSUME NEW i \in DOMAIN rules, NEW u \in Spenders,
             rules[i].enabled, rules[i].symbol = Currency
      PROVE  LET t == tally[i][u]
             IN  /\ t.awarded * rules[i].step < t.spent + rules[i].step
                 /\ t.spent < rules[i].step * (t.awarded + 1 + t.closes)
  <2>1. tally[i][u] \in Tally /\ rules[i].step \in Nat \ {0}
    BY RuleAssumption DEF RulesInv, RulesTypeOK, Tally, Rule
  <2> QED
    BY <1>1, <2>1, FittingRule DEF SumsFit
<1> QED
  BY <1>1 DEF BadgesFollowSpending, AwardsMatchSpending, RulesInv

\* notifyaward hands over what AwardPacks counts: natural amounts of badges
\* that rules name.
LEMMA AnnounceStep ==
  ASSUME RulesInv, StoreTypeOK, NEW u \in Accounts, NEW contract, NEW to,
         NEW before \in Nat, NEW p \in Nat,
         Announce(contract, to, u, AwardPacks(before, before + p))
  PROVE  StoreTypeOK'
<1> DEFINE after == before + p
           awarding == Crossed(before, after)
           packs == AwardPacks(before, after)
<1>1. \A i \in awarding : /\ rules[i].nid \in Badges
                          /\ PacksOf(rules[i].step, before, after) \in Nat
  BY PacksAreCounted, RuleAssumption DEF Crossed, RulesInv, RulesTypeOK, Rule
<1>2. DOMAIN packs = {rules[i].nid : i \in awarding}
  BY DEF AwardPacks
<1>3. ASSUME NEW n \in DOMAIN packs
      PROVE  packs[n] \in Nat
  <2> DEFINE i == CHOOSE j \in awarding : rules[j].nid = n
  <2>1. i \in awarding
    BY <1>2
  <2>2. packs[n] = PacksOf(rules[i].step, before, after)
    BY <1>2 DEF AwardPacks
  <2> QED
    BY <1>1, <2>1, <2>2
<1>4. packs = [n \in DOMAIN packs |-> packs[n]]
  BY DEF AwardPacks
<1>5. DOMAIN packs \subseteq Badges
  BY <1>1, <1>2
<1>6. IsPack(packs)
  <2> HIDE DEF packs
  <2> QED
    BY <1>3, <1>4, <1>5 DEF IsPack
<1>7. CASE UNCHANGED storeVars
  BY <1>7 DEF storeVars, badgeVars, storeConfig, StoreTypeOK
<1>8. CASE OnNotifyAward(contract, u, packs)
  BY <1>6, <1>8, HandOutStep DEF OnNotifyAward
<1> QED
  BY <1>7, <1>8 DEF Announce

-----------------------------------------------------------------------------
(***************************************************************************)
(* pop.cisum.                                                              *)
(***************************************************************************)

\* The strengthening of TenthOwed: rounding loses at most 9 units of USDT for
\* each payment rewarded.
DebtWithin(sum, owed, count) == 10 * owed <= sum /\ sum <= 10 * owed + 9 * count

\* The inductive invariant of pop.cisum with the store and sing.token.
PopInv ==
  /\ StoreTypeOK /\ RulesInv /\ SingInv /\ PopTypeOK
  /\ PoolWithinCap
  /\ DebtWithin(SumFunction(receivable), reward_usdt_accum + settled, mined)
  /\ SumsFit(rules, tally, receivable)

\* No change at the store.
LEMMA StoreSame == StoreTypeOK /\ UNCHANGED storeVars => StoreTypeOK'
BY DEF storeVars, badgeVars, storeConfig, StoreTypeOK

\* No change at sing.token.
LEMMA SingSame == SingInv /\ UNCHANGED singVars => SingInv'
BY DEF singVars, SingInv, Capped

\* No change of the rules.
LEMMA RulesSame == RulesInv /\ UNCHANGED ruleTbl => RulesInv'
BY DEF ruleTbl, RulesInv, RulesTypeOK, OneRulePerBadge

\* The reward and the tenth of a payment.
LEMMA RewardIsNat ==
  ASSUME NEW pay \in Pays, NEW price \in Prices
  PROVE  /\ RewardOf(pay, price) \in Nat
         /\ pay \in Nat /\ Tenth(pay) \in Nat
         /\ 10 * Tenth(pay) <= pay /\ pay <= 10 * Tenth(pay) + 9
<1>1. pay \in Nat /\ price \in Nat \ {0} /\ SingUnit \in Nat
  BY PopAssumption
<1>2. /\ Tenth(pay) \in Nat
      /\ 10 * Tenth(pay) <= pay /\ pay <= 10 * Tenth(pay) + 9
  BY <1>1 DEF Tenth
<1>3. Tenth(pay) * SingUnit \in Nat
  BY <1>1, <1>2
<1> QED
  BY <1>1, <1>2, <1>3 DEF RewardOf

\* mine, rewarded: the pool, the debt, the sum of the payer, its badges and the
\* minted SING change together.
LEMMA MineStep ==
  ASSUME PopInv, NEW u \in Spenders, NEW pay \in Pays, NEW price \in Prices,
         CapsAllow(RewardOf(pay, price)), MineRewarded(u, pay, RewardOf(pay, price))
  PROVE  PopInv'
<1> DEFINE reward == RewardOf(pay, price)
           before == receivable[u]
<1>1. reward \in Nat /\ pay \in Nat /\ u \in Accounts /\ u \in Parties /\ POP \in Parties
      /\ SingCoin \in Coins
  BY RewardIsNat, PopAssumption
<1>2. receivable \in [Spenders -> Nat] /\ before \in Nat /\ IsFiniteSet(Spenders)
  BY StoreAssumption, PopAssumption, FS_Subset DEF PopInv, PopTypeOK
<1>3. receivable' \in [Spenders -> Nat] /\ receivable' = [receivable EXCEPT ![u] = before + pay]
  BY <1>1, <1>2 DEF MineRewarded
<1>4. SingInv'
  BY <1>1, MintToStep DEF MineRewarded, PopInv
<1>5. UNCHANGED rules /\ Remember(u, Currency, before, before + pay)
  BY DEF MineRewarded
<1>6. \A v \in Spenders : receivable'[v] = IF v = u THEN before + pay ELSE receivable[v]
  BY <1>2, <1>3
<1>7. RulesInv' /\ SumsFit(rules', tally', receivable')
  <2>1. RulesInv
    BY DEF PopInv
  <2>2. RulesInv' /\ \A sum, new \in [Spenders -> Nat] :
              SumsFit(rules, tally, sum) /\ PaidBy(sum, new, u, before, pay)
              => SumsFit(rules', tally', new)
    <3> HIDE DEF before
    <3> QED
      BY <1>1, <1>2, <1>5, <2>1, RememberStep
  <2>3. SumsFit(rules, tally, receivable)
    BY DEF PopInv
  <2> QED
    BY <1>2, <1>3, <1>6, <2>2, <2>3 DEF PaidBy
<1>8. StoreTypeOK'
  BY <1>1, <1>2, AnnounceStep DEF MineRewarded, PopAwards, PopInv
<1>9. PopTypeOK' /\ PoolWithinCap'
  BY <1>1, <1>3, RewardIsNat DEF MineRewarded, CapsAllow, PopInv, PopTypeOK, PoolWithinCap
<1>10. DebtWithin(SumFunction(receivable), reward_usdt_accum + settled, mined)'
  <2>1. SumFunction(receivable') = SumFunction(receivable) + pay
    <3>1. receivable \in [Spenders -> Int] /\ receivable' \in [Spenders -> Int]
      BY <1>2, <1>3
    <3>2. receivable'[u] = receivable[u] + pay /\ \A v \in Spenders \ {u} : receivable'[v] = receivable[v]
      BY <1>6
    <3> QED
      BY <1>1, <1>2, <3>1, <3>2, SumMoves
  <2>2. SumFunction(receivable) \in Nat
    BY <1>2, SumIsNat
  <2>3. reward_usdt_accum' = reward_usdt_accum + Tenth(pay) /\ settled' = settled /\ mined' = mined + 1
    BY DEF MineRewarded
  <2>4. reward_usdt_accum \in Nat /\ settled \in Nat /\ mined \in Nat
    BY DEF PopInv, PopTypeOK
  <2>5. DebtWithin(SumFunction(receivable), reward_usdt_accum + settled, mined)
    BY DEF PopInv
  <2> QED
    BY <2>1, <2>2, <2>3, <2>4, <2>5, RewardIsNat DEF DebtWithin
<1> QED
  BY <1>4, <1>7, <1>8, <1>9, <1>10 DEF PopInv

\* init, setmaxreward, the executors and settle.
LEMMA PopConfigStep ==
  ASSUME PopInv, PopConfig, UNCHANGED <<ruleTbl, storeVars, singVars>>
  PROVE  PopInv'
<1>1. RewardCaps \subseteq Nat /\ PopAccts \subseteq Accounts
  BY PopAssumption
<1>2. StoreTypeOK' /\ SingInv' /\ RulesInv'
  BY StoreSame, SingSame, RulesSame DEF PopInv
<1>3. PICK x : \/ x \in RewardCaps /\ (PopConfigure(x) \/ SetMaxReward(x))
               \/ x \in PopAccts /\ (AddExecutor(x) \/ DelExecutor(x))
               \/ x \in 1..MaxSpent /\ Settle(x)
  BY DEF PopConfig
<1>4. PopTypeOK' /\ PoolWithinCap' /\ UNCHANGED <<receivable, mined>>
  <2>1. CASE x \in RewardCaps /\ (PopConfigure(x) \/ SetMaxReward(x))
    BY <1>1, <2>1
       DEF PopInv, PopTypeOK, PoolWithinCap, PopConfigure, SetMaxReward, Truncated
  <2>2. CASE x \in PopAccts /\ (AddExecutor(x) \/ DelExecutor(x))
    BY <1>1, <2>2
       DEF PopInv, PopTypeOK, PoolWithinCap, AddExecutor, DelExecutor, SetExecutors, pool
  <2>3. CASE x \in 1..MaxSpent /\ Settle(x)
    BY <2>3 DEF PopInv, PopTypeOK, PoolWithinCap, Settle, pool
  <2> QED
    BY <1>3, <2>1, <2>2, <2>3
<1>5. reward_usdt_accum' + settled' = reward_usdt_accum + settled
  BY <1>3 DEF PopInv, PopTypeOK, PopConfigure, SetMaxReward, AddExecutor, DelExecutor,
              SetExecutors, Settle
<1>6. DebtWithin(SumFunction(receivable), reward_usdt_accum + settled, mined)'
  BY <1>4, <1>5 DEF PopInv, DebtWithin
<1>7. SumsFit(rules, tally, receivable)'
  BY <1>4 DEF PopInv, ruleTbl, SumsFit
<1> QED
  BY <1>2, <1>4, <1>6, <1>7 DEF PopInv

\* setrule and delrule.
LEMMA PopRulesStep ==
  ASSUME PopInv, PopRules, UNCHANGED <<storeVars, singVars>>
  PROVE  PopInv'
<1>1. StoreTypeOK' /\ SingInv' /\ UNCHANGED popVars
  BY StoreSame, SingSame DEF PopInv, PopRules, PopDelRule, SetRule
<1>2. receivable \in [Spenders -> Nat] /\ SumsFit(rules, tally, receivable) /\ RulesInv
  BY DEF PopInv, PopTypeOK
<1>3. RulesInv' /\ SumsFit(rules', tally', receivable)
  BY <1>2, PutRuleStep, EraseRuleStep DEF PopRules, PopDelRule, SetRule
<1>4. /\ PopTypeOK' /\ PoolWithinCap'
      /\ DebtWithin(SumFunction(receivable), reward_usdt_accum + settled, mined)'
  BY <1>1 DEF PopInv, popVars, pool, PopTypeOK, PoolWithinCap, DebtWithin
<1> QED
  BY <1>1, <1>3, <1>4 DEF PopInv, popVars

\* Steps of the other two contracts.
LEMMA PopQuietStep ==
  ASSUME PopInv, UNCHANGED <<popVars, ruleTbl>>, StoreTypeOK', SingInv'
  PROVE  PopInv'
<1>1. RulesInv'
  BY RulesSame DEF PopInv
<1>2. /\ PopTypeOK' /\ PoolWithinCap'
      /\ DebtWithin(SumFunction(receivable), reward_usdt_accum + settled, mined)'
  BY DEF PopInv, popVars, pool, PopTypeOK, PoolWithinCap, DebtWithin
<1>3. SumsFit(rules, tally, receivable)'
  BY DEF PopInv, popVars, ruleTbl, SumsFit
<1> QED
  BY <1>1, <1>2, <1>3 DEF PopInv

\* Every step keeps the invariant.
LEMMA PopStep ==
  ASSUME PopInv,
         \/ PopNext
         \/ StoreNext /\ UNCHANGED <<popVars, ruleTbl, singVars>>
         \/ (SingNext \/ Maintenance) /\ UNCHANGED <<popVars, ruleTbl, storeVars>>
         \/ UNCHANGED popWorld
  PROVE  PopInv'
<1>1. StoreTypeOK /\ SingInv
  BY DEF PopInv
<1>2. CASE PopConfig /\ UNCHANGED <<ruleTbl, storeVars, singVars>>
  BY <1>2, PopConfigStep
<1>3. CASE PopRules /\ UNCHANGED <<storeVars, singVars>>
  BY <1>3, PopRulesStep
<1>4. CASE UNCHANGED popWorld
  BY <1>1, <1>4, StoreSame, SingSame, PopQuietStep DEF popWorld
<1>5. CASE Mining
  BY <1>4, <1>5, MineStep DEF Mining, Mine, MineSkipped
<1>6. CASE (\E a, b \in Parties : SingTransfer(a, b, SingCoin, 1)) /\ UNCHANGED <<popVars, ruleTbl, storeVars>>
  <2>1. SingInv'
    BY <1>1, <1>6, PopAssumption, TransferStep
  <2> QED
    BY <1>1, <1>6, <2>1, StoreSame, PopQuietStep
<1>7. CASE StoreNext /\ UNCHANGED <<popVars, ruleTbl, singVars>>
  BY <1>1, <1>7, StoreStep, SingSame, PopQuietStep
<1>8. CASE (SingNext \/ Maintenance) /\ UNCHANGED <<popVars, ruleTbl, storeVars>>
  BY <1>1, <1>8, SingStep, StoreSame, PopQuietStep
<1> QED
  BY <1>2, <1>3, <1>4, <1>5, <1>6, <1>7, <1>8 DEF PopNext

\* The tables as deployed.
LEMMA StoreStart == StoreInit => StoreTypeOK
BY DEF StoreInit, StoreTypeOK, EmptyTable

\* Without a rule there is nothing to fit.
LEMMA RulesStart == RulesInit => RulesInv /\ \A sum : SumsFit(rules, tally, sum)
BY DEF RulesInit, RulesInv, RulesTypeOK, OneRulePerBadge, SumsFit, EmptyTable

\* The initial states.
LEMMA PopStart == PopInit /\ RulesInit /\ StoreInit /\ SingInit => PopInv
<1>1. SUFFICES ASSUME PopInit, RulesInit, StoreInit, SingInit
               PROVE  PopInv
  OBVIOUS
<1>2. PopTypeOK /\ PoolWithinCap
  BY <1>1, PopAssumption DEF PopInit, PopTypeOK, PoolWithinCap
<1>3. SumFunction(receivable) = 0
  <2>1. receivable \in [Spenders -> Int] /\ \A u \in Spenders : receivable[u] = 0
    BY <1>1 DEF PopInit
  <2>2. IsFiniteSet(Spenders)
    BY StoreAssumption, PopAssumption, FS_Subset
  <2> QED
    BY <2>1, <2>2, SumOfZeros
<1>4. DebtWithin(SumFunction(receivable), reward_usdt_accum + settled, mined)
  BY <1>1, <1>3 DEF PopInit, DebtWithin
<1> QED
  BY <1>1, <1>2, <1>4, StoreStart, RulesStart, SingStart DEF PopInv

\* What the bounds on the debt say of the budget.
LEMMA BudgetMeans ==
  ASSUME PopTypeOK, PoolWithinCap,
         DebtWithin(SumFunction(receivable), reward_usdt_accum + settled, mined)
  PROVE  RewardBudget
<1>1. SumFunction(receivable) \in Nat
  BY StoreAssumption, PopAssumption, FS_Subset, SumIsNat DEF PopTypeOK
<1>2. TenthOwed
  BY <1>1 DEF PopTypeOK, DebtWithin, TenthOwed
<1> QED
  BY <1>2 DEF RewardBudget

\* What the invariant says in the terms of the checked properties.
LEMMA PopInvMeans ==
  PopInv => /\ StoreTypeOK /\ RulesTypeOK /\ PopTypeOK /\ SingTypeOK
            /\ RewardBudget /\ BadgesFollowSpending /\ SingConserved
<1>1. SUFFICES ASSUME PopInv
               PROVE  /\ StoreTypeOK /\ RulesTypeOK /\ PopTypeOK /\ SingTypeOK
                      /\ RewardBudget /\ BadgesFollowSpending /\ SingConserved
  OBVIOUS
<1>2. SingTypeOK /\ SingConserved
  BY <1>1, SingInvMeans DEF PopInv
<1>3. BadgesFollowSpending
  BY <1>1, RulesMean DEF PopInv, PopTypeOK
<1>4. RewardBudget
  BY <1>1, BudgetMeans DEF PopInv
<1> QED
  BY <1>1, <1>2, <1>3, <1>4 DEF PopInv, RulesInv

\* It holds in every reachable state.
LEMMA PopInvariant == PopSpec => []PopInv
<1>1. PopInv /\ [\/ PopNext
                 \/ StoreNext /\ UNCHANGED <<popVars, ruleTbl, singVars>>
                 \/ (SingNext \/ Maintenance) /\ UNCHANGED <<popVars, ruleTbl, storeVars>>]_popWorld
      => PopInv'
  BY PopStep
<1> QED
  BY <1>1, PopStart, PTL DEF PopSpec

\* The pool of pop.cisum stays within its cap and the platform owes a tenth of
\* the rewarded payments, for any payments, prices and caps.
THEOREM PaymentsStayInBudget == PopSpec => []RewardBudget
BY PopInvariant, PopInvMeans, PTL

\* A payer of pop.cisum gets one badge for every threshold its payments cross
\* while a rule keeps its terms, for any thresholds and payments.
THEOREM PaymentsEarnBadges == PopSpec => []BadgesFollowSpending
BY PopInvariant, PopInvMeans, PTL

\* The balances of sing.token add up to the supply also when pop.cisum mints.
THEOREM MiningConserves == PopSpec => []SingConserved
BY PopInvariant, PopInvMeans, PTL

\* The tables of pop.cisum, the store and sing.token stay well formed: no pool,
\* stock or balance becomes negative.
THEOREM PopTypes == PopSpec => [](StoreTypeOK /\ RulesTypeOK /\ PopTypeOK /\ SingTypeOK)
BY PopInvariant, PopInvMeans, PTL

-----------------------------------------------------------------------------
(***************************************************************************)
(* cisum.token.                                                            *)
(***************************************************************************)

\* A row of accounts of cisum.token, and a well-formed table of them.
RowType == [balance : Nat, consumed : Nat]

IsLedger(tbl) ==
  /\ DOMAIN tbl \subseteq Accounts \X TokenSymbols
  /\ tbl \in [DOMAIN tbl -> RowType]

\* The row of an account, one with zeros when it is missing, and the sum of the
\* balances of a token.
RowIn(tbl, a, s) == IF <<a, s>> \in DOMAIN tbl THEN tbl[<<a, s>>] ELSE NewRow

LedgerTotal(tbl, s) == SumFunction([a \in Accounts |-> RowIn(tbl, a, s).balance])

\* From one table to the next, one row changes its balance by d and what it has
\* spent by spent, and no other row changes.
Books(tbl, new, o, k, d, spent) ==
  /\ RowIn(new, o, k).balance = RowIn(tbl, o, k).balance + d
  /\ RowIn(new, o, k).consumed = RowIn(tbl, o, k).consumed + spent
  /\ \A a \in Accounts, s \in TokenSymbols :
       a # o \/ s # k => RowIn(new, a, s) = RowIn(tbl, a, s)

\* Rows hold natural numbers.
LEMMA RowIsTyped ==
  ASSUME NEW tbl, IsLedger(tbl), NEW a \in Accounts, NEW s \in TokenSymbols
  PROVE  RowIn(tbl, a, s) \in RowType
BY DEF IsLedger, RowIn, RowType, NewRow

\* When one row moves, the total of its token moves by as much.
LEMMA LedgerMoves ==
  ASSUME NEW tbl, NEW new, IsLedger(tbl), IsLedger(new),
         NEW o \in Accounts, NEW k \in TokenSymbols, NEW d \in Int, NEW spent,
         Books(tbl, new, o, k, d, spent), NEW s \in TokenSymbols
  PROVE  LedgerTotal(new, s) = LedgerTotal(tbl, s) + (IF s = k THEN d ELSE 0)
<1> DEFINE f == [a \in Accounts |-> RowIn(tbl, a, s).balance]
           g == [a \in Accounts |-> RowIn(new, a, s).balance]
           e == IF s = k THEN d ELSE 0
<1>1. f \in [Accounts -> Int] /\ g \in [Accounts -> Int] /\ IsFiniteSet(Accounts) /\ e \in Int
  BY RowIsTyped, StoreAssumption DEF RowType
<1>2. \A a \in Accounts \ {o} : g[a] = f[a]
  BY DEF Books
<1>3. g[o] = f[o] + e
  BY <1>1 DEF Books
<1>4. SumFunction(g) = SumFunction(f) + e
  <2> HIDE DEF f, g, e
  <2> QED
    BY <1>1, <1>2, <1>3, SumMoves
<1> QED
  BY <1>4 DEF LedgerTotal

\* Totals are natural numbers.
LEMMA LedgerTotalIsInt ==
  ASSUME NEW tbl, IsLedger(tbl), NEW s \in TokenSymbols
  PROVE  LedgerTotal(tbl, s) \in Nat
<1> DEFINE f == [a \in Accounts |-> RowIn(tbl, a, s).balance]
<1>1. f \in [Accounts -> Nat] /\ IsFiniteSet(Accounts)
  BY RowIsTyped, StoreAssumption DEF RowType
<1>2. SumFunction(f) \in Nat
  <2> HIDE DEF f
  <2> QED
    BY <1>1, SumIsNat
<1> QED
  BY <1>2 DEF LedgerTotal

\* No balance exceeds the total.
LEMMA OneRowOfMany ==
  ASSUME NEW tbl, IsLedger(tbl), NEW o \in Accounts, NEW s \in TokenSymbols
  PROVE  RowIn(tbl, o, s).balance <= LedgerTotal(tbl, s)
<1> DEFINE f == [a \in Accounts |-> RowIn(tbl, a, s).balance]
<1>1. f \in [Accounts -> Nat] /\ IsFiniteSet(Accounts)
  BY RowIsTyped, StoreAssumption DEF RowType
<1>2. f[o] <= SumFunction(f)
  <2> HIDE DEF f
  <2> QED
    BY <1>1, SumMember
<1> QED
  BY <1>2 DEF LedgerTotal

\* add_balance.
LEMMA RowCredited ==
  ASSUME NEW tbl, IsLedger(tbl), NEW o \in Accounts, NEW k \in TokenSymbols, NEW q \in Nat
  PROVE  /\ IsLedger(Credited(tbl, o, k, q))
         /\ Books(tbl, Credited(tbl, o, k, q), o, k, q, 0)
<1> DEFINE new == Credited(tbl, o, k, q)
           row == RowIn(tbl, o, k)
<1>1. row \in RowType
  BY RowIsTyped
<1>2. /\ DOMAIN new = DOMAIN tbl \cup {<<o, k>>}
      /\ new[<<o, k>>] = [row EXCEPT !.balance = @ + q]
      /\ \A e \in DOMAIN tbl : e # <<o, k>> => new[e] = tbl[e]
      /\ new = [e \in DOMAIN new |-> new[e]]
  BY DEF Credited, Put, RowIn
<1> HIDE DEF new, row
<1>3. new[<<o, k>>] = [balance |-> row.balance + q, consumed |-> row.consumed]
  BY <1>1, <1>2 DEF RowType
<1>4. row.balance + q \in Nat /\ row.consumed \in Nat /\ row.consumed = row.consumed + 0
  BY <1>1 DEF RowType
<1>5. new[<<o, k>>] \in RowType
  BY <1>3, <1>4 DEF RowType
<1>6. IsLedger(new)
  BY <1>2, <1>5 DEF IsLedger
<1>7. RowIn(new, o, k) = new[<<o, k>>]
  BY <1>2 DEF RowIn
<1>8. \A a \in Accounts, s \in TokenSymbols :
        a # o \/ s # k => RowIn(new, a, s) = RowIn(tbl, a, s)
  BY <1>2 DEF RowIn
<1>9. Books(tbl, new, o, k, q, 0)
  BY <1>3, <1>4, <1>7, <1>8 DEF Books, row
<1> QED
  BY <1>6, <1>9 DEF new

\* sub_balance of a covered amount, counted as spent or not.
LEMMA RowDebited ==
  ASSUME NEW tbl, IsLedger(tbl), NEW o \in Accounts, NEW k \in TokenSymbols, NEW q \in Nat,
         NEW counted \in BOOLEAN,
         <<o, k>> \in DOMAIN tbl, tbl[<<o, k>>].balance >= q
  PROVE  /\ IsLedger(Debited(tbl, o, k, q, counted))
         /\ Books(tbl, Debited(tbl, o, k, q, counted), o, k, - q, IF counted THEN q ELSE 0)
<1> DEFINE new == Debited(tbl, o, k, q, counted)
           row == tbl[<<o, k>>]
           c == IF counted THEN q ELSE 0
<1>1. row \in RowType /\ c \in Nat
  BY DEF IsLedger
<1>2. /\ DOMAIN new = DOMAIN tbl
      /\ new[<<o, k>>] = [row EXCEPT !.balance = @ - q, !.consumed = @ + c]
      /\ \A e \in DOMAIN tbl : e # <<o, k>> => new[e] = tbl[e]
      /\ new = [e \in DOMAIN new |-> new[e]]
  BY DEF Debited, IsLedger
<1>3. row.balance >= q
  OBVIOUS
<1>4. RowIn(tbl, o, k) = row
  BY DEF RowIn
<1> HIDE DEF new, row, c
<1>5. new[<<o, k>>] = [balance |-> row.balance - q, consumed |-> row.consumed + c]
  BY <1>1, <1>2 DEF RowType
<1>6. row.balance - q \in Nat /\ row.consumed + c \in Nat /\ row.balance - q = row.balance + (- q)
  BY <1>1, <1>3 DEF RowType
<1>7. new[<<o, k>>] \in RowType
  BY <1>5, <1>6 DEF RowType
<1>8. IsLedger(new)
  BY <1>2, <1>7 DEF IsLedger
<1>9. RowIn(new, o, k) = new[<<o, k>>]
  BY <1>2 DEF RowIn
<1>10. \A a \in Accounts, s \in TokenSymbols :
        a # o \/ s # k => RowIn(new, a, s) = RowIn(tbl, a, s)
  BY <1>2 DEF RowIn
<1>11. Books(tbl, new, o, k, - q, c)
  BY <1>4, <1>5, <1>6, <1>9, <1>10 DEF Books
<1> QED
  BY <1>8, <1>11 DEF new, c

\* The parts of the inductive invariant of cisum.token: configuration, ledger,
\* and what the rules remember of what was spent. The contract compares the sum
\* of the token paid with the rules of Currency (try_award_badges), so sums and
\* rules speak of the same token only where Currency is the one token there is.
ConfigOK ==
  /\ {issuer, admin, badgestore_contract} \subseteq Accounts \cup {NoAcct}
  /\ transfer_wl \in [DOMAIN transfer_wl -> BOOLEAN]
  /\ DOMAIN transfer_wl \cup redeem_wl \subseteq Accounts

LedgerOK ==
  /\ DOMAIN stats \subseteq TokenSymbols
  /\ stats \in [DOMAIN stats -> [supply : Nat, max_supply : Nat]]
  /\ IsLedger(accounts) /\ DOMAIN accounts \subseteq Accounts \X DOMAIN stats
  /\ \A s \in DOMAIN stats : /\ LedgerTotal(accounts, s) = stats[s].supply
                             /\ stats[s].supply <= stats[s].max_supply

SpentSums == [u \in Spenders |-> RowIn(accounts, u, Currency).consumed]

SpendingFits == TokenSymbols = {Currency} => SumsFit(rules, tally, SpentSums)

TokenInv == StoreTypeOK /\ RulesInv /\ ConfigOK /\ LedgerOK /\ SpendingFits

\* Steps that leave the ledger alone.
LEMMA LedgerSame ==
  ASSUME UNCHANGED ledger
  PROVE  (LedgerOK => LedgerOK') /\ SpentSums' = SpentSums
BY DEF LedgerOK, ledger, SpentSums

\* The configuration actions.
LEMMA TokenConfigStep ==
  ASSUME TokenInv, TokenConfig, UNCHANGED storeVars
  PROVE  TokenInv'
<1>1. TokenAccts \subseteq Accounts /\ STORE \in Accounts
  BY TokenAssumption, StoreAssumption
<1>2. UNCHANGED <<ledger, ruleTbl>> /\ ConfigOK'
  <2>1. CASE \E a, b \in TokenAccts, s \in TokenAccts \cup {STORE, NoAcct} : TokenConfigure(a, b, s)
    BY <1>1, <2>1 DEF TokenInv, ConfigOK, TokenConfigure, tokenLists
  <2>2. CASE \E a \in TokenAccts : SetIssuer(a) \/ SetAdmin(a)
    BY <1>1, <2>2 DEF TokenInv, ConfigOK, SetIssuer, SetAdmin, TokenConfigure, tokenLists
  <2>3. CASE \E a \in TokenAccts \cup {STORE} : SetBadgeStore(a)
    BY <1>1, <2>3 DEF TokenInv, ConfigOK, SetBadgeStore, TokenConfigure, tokenLists
  <2>4. ASSUME NEW a \in TokenAccts, NEW e \in BOOLEAN, SetWhite(a, e)
        PROVE  UNCHANGED <<ledger, ruleTbl>> /\ ConfigOK'
    BY <1>1, <2>4 DEF TokenInv, ConfigOK, SetWhite, Put, tokenGlobal
  <2>5. ASSUME NEW s \in Accounts, NEW a \in TokenAccts,
               \/ AddWhitelist(s, a) \/ DelWhitelist(s, a)
               \/ AddConsumeWl(s, a) \/ DelConsumeWl(s, a)
        PROVE  UNCHANGED <<ledger, ruleTbl>> /\ ConfigOK'
    <3>1. CASE AddWhitelist(s, a)
      BY <2>4, <3>1 DEF AddWhitelist
    <3>2. CASE DelWhitelist(s, a)
      BY <3>2 DEF TokenInv, ConfigOK, DelWhitelist, Drop, tokenGlobal
    <3>3. CASE AddConsumeWl(s, a) \/ DelConsumeWl(s, a)
      BY <1>1, <3>3 DEF TokenInv, ConfigOK, AddConsumeWl, DelConsumeWl, tokenGlobal
    <3> QED
      BY <2>5, <3>1, <3>2, <3>3
  <2> QED
    BY <2>1, <2>2, <2>3, <2>4, <2>5 DEF TokenConfig
<1>3. StoreTypeOK' /\ RulesInv' /\ LedgerOK'
  BY <1>2, StoreSame, RulesSame, LedgerSame DEF TokenInv
<1>4. SpendingFits'
  BY <1>2, LedgerSame DEF TokenInv, SpendingFits, SumsFit, ruleTbl
<1> QED
  BY <1>2, <1>3, <1>4 DEF TokenInv

\* The sums the rules are compared with.
LEMMA SpentSumsType ==
  ASSUME LedgerOK, TokenSymbols = {Currency}
  PROVE  SpentSums \in [Spenders -> Nat]
BY RowIsTyped, RuleAssumption DEF LedgerOK, SpentSums, RowType

\* addrule and delrule.
LEMMA RuleConfigStep ==
  ASSUME TokenInv, RuleConfig, UNCHANGED storeVars
  PROVE  TokenInv'
<1>1. UNCHANGED <<tokenGlobal, tokenLists, ledger>>
  BY DEF RuleConfig, AddRule, DelRule
<1>2. /\ RulesInv'
      /\ \A sum \in [Spenders -> Nat] : SumsFit(rules, tally, sum) => SumsFit(rules', tally', sum)
  BY PutRuleStep, EraseRuleStep DEF TokenInv, RuleConfig, AddRule, DelRule
<1>3. SpendingFits'
  <2>1. SUFFICES ASSUME TokenSymbols = {Currency}
                 PROVE  SumsFit(rules', tally', SpentSums')
    BY DEF SpendingFits
  <2>2. SpentSums' = SpentSums /\ SpentSums \in [Spenders -> Nat]
    BY <1>1, <2>1, LedgerSame, SpentSumsType DEF TokenInv
  <2>3. SumsFit(rules, tally, SpentSums)
    BY <2>1 DEF TokenInv, SpendingFits
  <2> QED
    BY <1>2, <2>2, <2>3
<1>4. StoreTypeOK' /\ LedgerOK' /\ ConfigOK'
  BY <1>1, StoreSame, LedgerSame DEF TokenInv, ConfigOK, tokenGlobal, tokenLists
<1> QED
  BY <1>2, <1>3, <1>4 DEF TokenInv

\* Supply and balances moving together within the cap.
LEMMA Remint ==
  ASSUME LedgerOK, NEW k \in DOMAIN stats, NEW d \in Int,
         stats[k].supply + d \in Nat, stats[k].supply + d <= stats[k].max_supply,
         stats' = [stats EXCEPT ![k].supply = @ + d],
         IsLedger(accounts'), DOMAIN accounts' \subseteq Accounts \X DOMAIN stats,
         \A s \in TokenSymbols : LedgerTotal(accounts', s)
                                   = LedgerTotal(accounts, s) + (IF s = k THEN d ELSE 0)
  PROVE  LedgerOK'
<1>1. stats[k] \in [supply : Nat, max_supply : Nat] /\ k \in TokenSymbols
  BY DEF LedgerOK
<1>2. /\ DOMAIN stats' = DOMAIN stats
      /\ stats'[k].supply = stats[k].supply + d
      /\ stats'[k].max_supply = stats[k].max_supply
      /\ stats' \in [DOMAIN stats' -> [supply : Nat, max_supply : Nat]]
      /\ \A s \in DOMAIN stats \ {k} : stats'[s] = stats[s]
  BY <1>1 DEF LedgerOK
<1>3. ASSUME NEW s \in DOMAIN stats
      PROVE  LedgerTotal(accounts', s) = stats'[s].supply /\ stats'[s].supply <= stats'[s].max_supply
  <2>1. /\ LedgerTotal(accounts, s) = stats[s].supply /\ stats[s].supply <= stats[s].max_supply
        /\ s \in TokenSymbols /\ stats[s].supply \in Nat
    BY DEF LedgerOK
  <2>2. LedgerTotal(accounts', s) = LedgerTotal(accounts, s) + (IF s = k THEN d ELSE 0)
    BY <2>1
  <2>3. CASE s = k
    BY <1>2, <2>1, <2>2, <2>3
  <2>4. CASE s # k
    BY <1>2, <2>1, <2>2, <2>4
  <2> QED
    BY <2>3, <2>4
<1> QED
  BY <1>2, <1>3 DEF LedgerOK

\* Balances moving between accounts.
LEMMA Redistributed ==
  ASSUME LedgerOK, UNCHANGED stats, IsLedger(accounts'),
         DOMAIN accounts' \subseteq Accounts \X DOMAIN stats,
         \A s \in TokenSymbols : LedgerTotal(accounts', s) = LedgerTotal(accounts, s)
  PROVE  LedgerOK'
BY DEF LedgerOK

\* A step that counts nothing as spent.
LEMMA SumsKept ==
  ASSUME TokenInv, UNCHANGED ruleTbl,
         TokenSymbols = {Currency} => \A u \in Spenders :
           RowIn(accounts', u, Currency).consumed = RowIn(accounts, u, Currency).consumed
  PROVE  RulesInv' /\ SpendingFits'
<1>1. TokenSymbols = {Currency} => SpentSums' = SpentSums
  BY DEF SpentSums
<1> QED
  BY <1>1, RulesSame DEF TokenInv, SpendingFits, ruleTbl, SumsFit

\* A change of one row that spends nothing leaves all sums alone.
LEMMA BooksKeepSums ==
  ASSUME IsLedger(accounts), NEW o \in Accounts, NEW k \in TokenSymbols, NEW d,
         Books(accounts, accounts', o, k, d, 0), TokenSymbols = {Currency}
  PROVE  \A u \in Spenders :
           RowIn(accounts', u, Currency).consumed = RowIn(accounts, u, Currency).consumed
<1>1. SUFFICES ASSUME NEW u \in Spenders
               PROVE  RowIn(accounts', u, Currency).consumed = RowIn(accounts, u, Currency).consumed
  OBVIOUS
<1>2. u \in Accounts /\ RowIn(accounts, u, Currency).consumed \in Nat
  BY RuleAssumption, RowIsTyped DEF RowType
<1> QED
  BY <1>2 DEF Books

\* create: nobody holds a token without statistics.
LEMMA TokenCreateStep ==
  ASSUME TokenInv, NEW to, NEW k \in TokenSymbols, NEW m \in Nat, TokenCreate(to, k, m),
         UNCHANGED storeVars
  PROVE  TokenInv'
<1>1. UNCHANGED <<tokenGlobal, tokenLists, accounts, ruleTbl>> /\ k \notin DOMAIN stats
  BY DEF TokenCreate
<1>2. /\ DOMAIN stats' = DOMAIN stats \cup {k}
      /\ stats'[k] = [supply |-> 0, max_supply |-> m]
      /\ \A s \in DOMAIN stats : stats'[s] = stats[s]
      /\ stats' \in [DOMAIN stats' -> [supply : Nat, max_supply : Nat]]
  BY DEF TokenCreate, Put, TokenInv, LedgerOK
<1>3. LedgerTotal(accounts, k) = 0
  <2> DEFINE f == [a \in Accounts |-> RowIn(accounts, a, k).balance]
  <2>1. \A a \in Accounts : <<a, k>> \notin DOMAIN accounts
    BY <1>1 DEF TokenInv, LedgerOK
  <2>2. f \in [Accounts -> Int] /\ \A a \in Accounts : f[a] = 0
    BY <2>1 DEF RowIn, NewRow
  <2>3. SumFunction(f) = 0
    <3> HIDE DEF f
    <3> QED
      BY <2>2, StoreAssumption, SumOfZeros
  <2> QED
    BY <2>3 DEF LedgerTotal
<1>4. LedgerOK'
  BY <1>1, <1>2, <1>3 DEF TokenInv, LedgerOK
<1>5. RulesInv' /\ SpendingFits'
  BY <1>1, SumsKept
<1> QED
  BY <1>1, <1>4, <1>5, StoreSame DEF TokenInv, ConfigOK, tokenGlobal, tokenLists

\* issue stays under the cap.
LEMMA TokenIssueStep ==
  ASSUME TokenInv, NEW s, NEW to \in Accounts, NEW k \in TokenSymbols, NEW q \in Nat,
         TokenIssue(s, to, k, q), UNCHANGED storeVars
  PROVE  TokenInv'
<1>1. /\ UNCHANGED <<tokenGlobal, tokenLists, ruleTbl>> /\ k \in DOMAIN stats
      /\ stats[k] \in [supply : Nat, max_supply : Nat] /\ IsLedger(accounts)
  BY DEF TokenIssue, TokenInv, LedgerOK
<1>2. IsLedger(accounts') /\ Books(accounts, accounts', to, k, q, 0)
  BY <1>1, RowCredited DEF TokenIssue
<1>3. \A t \in TokenSymbols : LedgerTotal(accounts', t)
                                = LedgerTotal(accounts, t) + (IF t = k THEN q ELSE 0)
  BY <1>1, <1>2, LedgerMoves
<1>4. DOMAIN accounts' \subseteq Accounts \X DOMAIN stats
  BY <1>1 DEF TokenIssue, Credited, Put, TokenInv, LedgerOK
<1>5. /\ stats[k].supply + q \in Nat /\ stats[k].supply + q <= stats[k].max_supply
      /\ stats' = [stats EXCEPT ![k].supply = @ + q]
  BY <1>1 DEF TokenIssue
<1>6. LedgerOK'
  <2>1. LedgerOK /\ IsLedger(accounts') /\ q \in Int /\ k \in DOMAIN stats
    BY <1>1, <1>2 DEF TokenInv
  <2> QED
    BY <1>3, <1>4, <1>5, <2>1, Remint
<1>7. RulesInv' /\ SpendingFits'
  BY <1>1, <1>2, BooksKeepSums, SumsKept
<1> QED
  BY <1>1, <1>6, <1>7, StoreSame DEF TokenInv, ConfigOK, tokenGlobal, tokenLists

\* retire: the balance burnt is part of the supply, so the supply does not
\* become negative.
LEMMA TokenRetireStep ==
  ASSUME TokenInv, NEW k \in TokenSymbols, NEW q \in Nat, TokenRetire(k, q),
         UNCHANGED storeVars
  PROVE  TokenInv'
<1>1. /\ UNCHANGED <<tokenGlobal, tokenLists, ruleTbl>> /\ k \in DOMAIN stats
      /\ stats[k] \in [supply : Nat, max_supply : Nat] /\ IsLedger(accounts)
      /\ <<issuer, k>> \in DOMAIN accounts /\ accounts[<<issuer, k>>].balance >= q
      /\ accounts' = Debited(accounts, issuer, k, q, FALSE)
  BY DEF TokenRetire, CanRetire, Balance, TokenInv, LedgerOK
<1>2. issuer \in Accounts
  BY <1>1 DEF IsLedger
<1>d. PICK d \in Int : d = - q
  OBVIOUS
<1>3. /\ IsLedger(accounts')
      /\ Books(accounts, accounts', issuer, k, - q, IF FALSE THEN q ELSE 0)
  BY <1>1, <1>2, RowDebited
<1>4. Books(accounts, accounts', issuer, k, d, 0)
  BY <1>3, <1>d
<1>5. \A t \in TokenSymbols : LedgerTotal(accounts', t)
                                = LedgerTotal(accounts, t) + (IF t = k THEN d ELSE 0)
  <2>1. IsLedger(accounts) /\ IsLedger(accounts')
    BY <1>1, <1>3
  <2> QED
    BY <1>2, <1>4, <2>1, LedgerMoves
<1>6. DOMAIN accounts' = DOMAIN accounts
  BY <1>1 DEF Debited
<1>7. q <= stats[k].supply
  <2>1. RowIn(accounts, issuer, k).balance <= stats[k].supply
    BY <1>1, <1>2, OneRowOfMany DEF TokenInv, LedgerOK
  <2>2. RowIn(accounts, issuer, k) = accounts[<<issuer, k>>] /\ accounts[<<issuer, k>>] \in RowType
    BY <1>1 DEF RowIn, IsLedger
  <2> QED
    BY <1>1, <2>1, <2>2 DEF RowType
<1>8. /\ stats[k].supply + d \in Nat /\ stats[k].supply + d <= stats[k].max_supply
      /\ stats[k].supply - q = stats[k].supply + d
  <2>1. stats[k].supply <= stats[k].max_supply
    BY <1>1 DEF TokenInv, LedgerOK
  <2> QED
    BY <1>1, <1>7, <1>d, <2>1
<1>9. stats' = [stats EXCEPT ![k].supply = @ + d]
  BY <1>1, <1>8 DEF TokenRetire, TokenInv, LedgerOK
<1>10. LedgerOK'
  BY <1>1, <1>2, <1>3, <1>5, <1>6, <1>8, <1>9, Remint DEF TokenInv, LedgerOK
<1>11. RulesInv' /\ SpendingFits'
  BY <1>1, <1>2, <1>4, BooksKeepSums, SumsKept
<1> QED
  BY <1>1, <1>10, <1>11, StoreSame DEF TokenInv, ConfigOK, tokenGlobal, tokenLists

\* open adds a row without value.
LEMMA TokenOpenStep ==
  ASSUME TokenInv, NEW o \in Accounts, NEW k \in TokenSymbols, Open(o, k), UNCHANGED storeVars
  PROVE  TokenInv'
<1>1. /\ UNCHANGED <<tokenGlobal, tokenLists, stats, ruleTbl>> /\ k \in DOMAIN stats
      /\ accounts' = Put(accounts, <<o, k>>, RowIn(accounts, o, k)) /\ IsLedger(accounts)
  BY DEF Open, Row, RowIn, TokenInv, LedgerOK
<1>2. RowIn(accounts, o, k) \in RowType
  BY <1>1, RowIsTyped
<1>3. IsLedger(accounts')
  BY <1>1, <1>2 DEF IsLedger, Put
<1>4. \A a \in Accounts, s \in TokenSymbols : RowIn(accounts', a, s) = RowIn(accounts, a, s)
  BY <1>1 DEF RowIn, Put
<1>5. \A s \in TokenSymbols : LedgerTotal(accounts', s) = LedgerTotal(accounts, s)
  BY <1>4 DEF LedgerTotal
<1>6. DOMAIN accounts' \subseteq Accounts \X DOMAIN stats
  BY <1>1 DEF Put, TokenInv, LedgerOK
<1>7. LedgerOK'
  BY <1>1, <1>3, <1>5, <1>6, Redistributed DEF TokenInv
<1>8. RulesInv' /\ SpendingFits'
  BY <1>1, <1>4, RuleAssumption, SumsKept
<1> QED
  BY <1>1, <1>7, <1>8, StoreSame DEF TokenInv, ConfigOK, tokenGlobal, tokenLists

\* close erases a row without a balance, and the sum of the account with it.
LEMMA TokenCloseStep ==
  ASSUME TokenInv, NEW o \in Accounts, NEW k \in TokenSymbols, Close(o, k), UNCHANGED storeVars
  PROVE  TokenInv'
<1>1. /\ UNCHANGED <<tokenGlobal, tokenLists, stats, rules>> /\ IsLedger(accounts)
      /\ <<o, k>> \in DOMAIN accounts /\ RowIn(accounts, o, k).balance = 0
      /\ accounts' = Drop(accounts, <<o, k>>)
  BY DEF Close, Balance, RowIn, TokenInv, LedgerOK
<1>2. /\ DOMAIN accounts' = DOMAIN accounts \ {<<o, k>>}
      /\ \A e \in DOMAIN accounts' : accounts'[e] = accounts[e]
      /\ accounts' = [e \in DOMAIN accounts' |-> accounts'[e]]
  BY <1>1 DEF Drop
<1>3. IsLedger(accounts')
  BY <1>1, <1>2 DEF IsLedger
<1>4. \A a \in Accounts, s \in TokenSymbols :
        /\ a # o \/ s # k => RowIn(accounts', a, s) = RowIn(accounts, a, s)
        /\ a = o /\ s = k => RowIn(accounts', a, s) = NewRow
  BY <1>2 DEF RowIn
<1>5. \A a \in Accounts, s \in TokenSymbols :
        RowIn(accounts', a, s).balance = RowIn(accounts, a, s).balance
  BY <1>1, <1>4 DEF NewRow
<1>6. \A s \in TokenSymbols : LedgerTotal(accounts', s) = LedgerTotal(accounts, s)
  BY <1>5 DEF LedgerTotal
<1>7. LedgerOK'
  BY <1>1, <1>2, <1>3, <1>6, Redistributed DEF TokenInv, LedgerOK
<1>8. ASSUME NEW i \in DOMAIN rules, NEW u \in Spenders
      PROVE  /\ tally[i][u] \in Tally /\ tally'[i][u] \in Tally
             /\ u # o => tally'[i][u] = tally[i][u]
             /\ u = o => /\ tally'[i][u].spent = tally[i][u].spent
                         /\ tally'[i][u].awarded = tally[i][u].awarded
                         /\ tally'[i][u].closes = tally[i][u].closes + 1
  <2>1. tally[i][u] \in Tally
    BY DEF TokenInv, RulesInv, RulesTypeOK, Tally
  <2>2. tally'[i][u] = IF u = o THEN [tally[i][u] EXCEPT !.closes = @ + 1] ELSE tally[i][u]
    BY DEF Close, TokenInv, RulesInv, RulesTypeOK
  <2>3. CASE u = o
    <3>1. tally'[i][u] = [spent |-> tally[i][u].spent, awarded |-> tally[i][u].awarded,
                          closes |-> tally[i][u].closes + 1]
      BY <2>1, <2>2, <2>3 DEF Tally
    <3>2. /\ tally[i][u].spent \in Nat /\ tally[i][u].awarded \in Nat
          /\ tally[i][u].closes + 1 \in Nat
      BY <2>1 DEF Tally
    <3>3. tally'[i][u] \in Tally
      BY <3>1, <3>2 DEF Tally
    <3> QED
      BY <2>1, <2>3, <3>1, <3>3
  <2> QED
    BY <2>1, <2>2, <2>3
<1>9. RulesInv'
  <2>1. tally' = [i \in DOMAIN rules |-> [u \in Spenders |-> tally'[i][u]]]
    BY DEF Close, TokenInv, RulesInv, RulesTypeOK
  <2>2. tally' \in [DOMAIN rules -> [Spenders -> Tally]]
    BY <1>8, <2>1
  <2> QED
    BY <1>1, <2>2 DEF TokenInv, RulesInv, RulesTypeOK, Tally, OneRulePerBadge
<1>10. SpendingFits'
  <2>1. SUFFICES ASSUME TokenSymbols = {Currency}, NEW i \in DOMAIN rules', NEW u \in Spenders,
                        rules'[i].enabled, rules'[i].symbol = Currency
                 PROVE  RuleFits(tally'[i][u], rules'[i].step, SpentSums'[u])
    BY DEF SpendingFits, SumsFit
  <2>2. /\ i \in DOMAIN rules /\ rules'[i] = rules[i] /\ rules[i].step \in Nat \ {0}
        /\ u \in Accounts /\ k = Currency
    BY <1>1, <2>1, RuleAssumption DEF TokenInv, RulesInv, RulesTypeOK, Rule
  <2>3. RuleFits(tally[i][u], rules[i].step, SpentSums[u]) /\ SpentSums[u] \in Nat
    BY <1>1, <2>1, <2>2, SpentSumsType DEF TokenInv, SpendingFits, SumsFit
  <2>4. CASE u = o
    <3>1. SpentSums'[u] = 0
      BY <1>4, <2>1, <2>2, <2>4 DEF SpentSums, NewRow
    <3> QED
      BY <1>8, <2>2, <2>3, <2>4, <3>1, CloseFits
  <2>5. CASE u # o
    <3>1. SpentSums'[u] = SpentSums[u]
      BY <1>4, <2>1, <2>2, <2>5 DEF SpentSums
    <3> QED
      BY <1>8, <2>2, <2>3, <2>5, <3>1
  <2> QED
    BY <2>4, <2>5
<1> QED
  BY <1>1, <1>7, <1>9, <1>10, StoreSame DEF TokenInv, ConfigOK, tokenGlobal, tokenLists

\* transfer, spending at a contract of the consume list or not.
LEMMA TokenTransferStep ==
  ASSUME TokenInv, NEW a \in Accounts, NEW b \in Accounts, NEW k \in TokenSymbols,
         NEW q \in Nat, TokenTransfer(a, b, k, q)
  PROVE  TokenInv'
<1> DEFINE counted == b \in redeem_wl
           c == IF counted THEN q ELSE 0
           before == RowIn(accounts, a, k).consumed
           mid == Debited(accounts, a, k, q, counted)
<1>1. /\ UNCHANGED <<tokenGlobal, tokenLists, stats, rules>> /\ a # b /\ k \in DOMAIN stats
      /\ <<a, k>> \in DOMAIN accounts /\ accounts[<<a, k>>].balance >= q
      /\ accounts' = Credited(mid, b, k, q)
  BY DEF TokenTransfer, Balance
<1>d. PICK d \in Int : d = - q
  OBVIOUS
<1>2. /\ IsLedger(accounts) /\ counted \in BOOLEAN /\ c \in Nat
      /\ RowIn(accounts, a, k) \in RowType /\ before \in Nat
  BY RowIsTyped DEF TokenInv, LedgerOK, RowType
<1>3. IsLedger(mid) /\ Books(accounts, mid, a, k, d, c)
  BY <1>1, <1>2, <1>d, RowDebited
<1>4. DOMAIN mid = DOMAIN accounts
  BY DEF Debited
<1>5. /\ counted => Remember(a, k, before, before + q)
      /\ counted => Announce(CISUMTOKEN, badgestore_contract, a, AwardPacks(before, before + q))
      /\ ~ counted => UNCHANGED <<tally, storeVars>>
  BY DEF TokenTransfer, Row, RowIn
<1> HIDE DEF mid, c, counted, before
<1>6. IsLedger(accounts') /\ Books(mid, accounts', b, k, q, 0)
  BY <1>1, <1>3, RowCredited
<1>7. LedgerOK'
  <2>1. \A s \in TokenSymbols : LedgerTotal(mid, s) = LedgerTotal(accounts, s) + (IF s = k THEN d ELSE 0)
    BY <1>2, <1>3, LedgerMoves
  <2>2. \A s \in TokenSymbols : LedgerTotal(accounts', s) = LedgerTotal(mid, s) + (IF s = k THEN q ELSE 0)
    BY <1>3, <1>6, LedgerMoves
  <2>3. \A s \in TokenSymbols : LedgerTotal(accounts, s) \in Nat
    BY <1>2, LedgerTotalIsInt
  <2>4. \A s \in TokenSymbols : LedgerTotal(accounts', s) = LedgerTotal(accounts, s)
    BY <1>d, <2>1, <2>2, <2>3
  <2>5. DOMAIN accounts' \subseteq Accounts \X DOMAIN stats
    BY <1>1, <1>4 DEF Credited, Put, TokenInv, LedgerOK
  <2> QED
    BY <1>1, <1>6, <2>4, <2>5, Redistributed DEF TokenInv
<1>8. \A u \in Accounts : RowIn(accounts', u, k).consumed
                            = IF u = a THEN before + c ELSE RowIn(accounts, u, k).consumed
  <2>1. RowIn(accounts', a, k).consumed = before + c
    BY <1>1, <1>3, <1>6 DEF Books, before
  <2>2. RowIn(accounts', b, k).consumed = RowIn(accounts, b, k).consumed
    <3>1. RowIn(mid, b, k) = RowIn(accounts, b, k)
      BY <1>1, <1>3 DEF Books
    <3>2. RowIn(mid, b, k).consumed \in Nat
      BY <1>3, RowIsTyped DEF RowType
    <3>3. RowIn(accounts', b, k).consumed = RowIn(mid, b, k).consumed + 0
      BY <1>6 DEF Books
    <3> QED
      BY <3>1, <3>2, <3>3
  <2>3. \A u \in Accounts \ {a, b} : RowIn(accounts', u, k) = RowIn(accounts, u, k)
    BY <1>3, <1>6 DEF Books
  <2> QED
    BY <2>1, <2>2, <2>3
<1>9. CASE counted
  <2>1. RulesInv /\ StoreTypeOK
    BY DEF TokenInv
  <2>2. /\ RulesInv'
        /\ \A sum, new \in [Spenders -> Nat] :
              SumsFit(rules, tally, sum) /\ k = Currency /\ PaidBy(sum, new, a, before, q)
              => SumsFit(rules', tally', new)
    <3>1. UNCHANGED rules /\ Remember(a, k, before, before + q)
      BY <1>1, <1>5, <1>9
    <3>2. before \in Nat
      BY <1>2
    <3> QED
      BY <2>1, <3>1, <3>2, RememberStep
  <2>3. StoreTypeOK'
    BY <1>2, <1>5, <1>9, <2>1, AnnounceStep
  <2>4. SpendingFits'
    <3>1. SUFFICES ASSUME TokenSymbols = {Currency}
                   PROVE  SumsFit(rules', tally', SpentSums')
      BY DEF SpendingFits
    <3>2. k = Currency /\ SumsFit(rules, tally, SpentSums)
      BY <3>1 DEF TokenInv, SpendingFits
    <3>3. SpentSums \in [Spenders -> Nat] /\ SpentSums' \in [Spenders -> Nat]
      <4>1. \A u \in Spenders : RowIn(accounts', u, Currency).consumed \in Nat
        BY <1>6, <3>1, RowIsTyped, RuleAssumption DEF RowType
      <4> QED
        BY <3>1, <4>1, SpentSumsType DEF TokenInv, SpentSums
    <3>4. a \in Spenders => SpentSums[a] = before
      BY <3>2 DEF SpentSums, before
    <3>5. c = q
      BY <1>9 DEF c
    <3>6. \A u \in Spenders : SpentSums'[u] = IF u = a THEN before + q ELSE SpentSums[u]
      BY <1>8, <3>2, <3>5, RuleAssumption DEF SpentSums
    <3> QED
      BY <2>2, <3>2, <3>3, <3>4, <3>6 DEF PaidBy
  <2> QED
    BY <1>1, <1>7, <2>2, <2>3, <2>4 DEF TokenInv, ConfigOK, tokenGlobal, tokenLists
<1>10. CASE ~ counted
  <2>1. c = 0 /\ UNCHANGED <<ruleTbl, storeVars>>
    BY <1>1, <1>5, <1>10 DEF c, ruleTbl
  <2>2. TokenSymbols = {Currency} => \A u \in Spenders :
           RowIn(accounts', u, Currency).consumed = RowIn(accounts, u, Currency).consumed
    BY <1>2, <1>8, <2>1, RuleAssumption DEF before
  <2>3. RulesInv' /\ SpendingFits'
    BY <2>1, <2>2, SumsKept
  <2> QED
    BY <1>1, <1>7, <2>1, <2>3, StoreSame DEF TokenInv, ConfigOK, tokenGlobal, tokenLists
<1> QED
  BY <1>9, <1>10

\* Every step of the token, the rules and the store.
LEMMA AwardsStep ==
  ASSUME TokenInv, AwardsNext \/ UNCHANGED AwardsVars
  PROVE  TokenInv'
<1>1. /\ TokenAccts \subseteq Accounts /\ Holders \subseteq Accounts /\ Spenders \subseteq Accounts
      /\ TokenCaps \subseteq Nat /\ TokenAmounts \subseteq Nat
  BY TokenAssumption, RuleAssumption
<1>2. CASE Supply /\ UNCHANGED storeVars
  <2>1. PICK k \in TokenSymbols :
          \/ \E a \in TokenAccts, m \in TokenCaps : TokenCreate(a, k, m)
          \/ \E q \in TokenAmounts :
               TokenRetire(k, q) \/ \E s, to \in Holders : TokenIssue(s, to, k, q)
          \/ \E a \in Spenders : Open(a, k) \/ Close(a, k)
    BY <1>2 DEF Supply
  <2>2. CASE \E a \in TokenAccts, m \in TokenCaps : TokenCreate(a, k, m)
    BY <1>1, <1>2, <2>2, TokenCreateStep
  <2>3. CASE \E q \in TokenAmounts :
               TokenRetire(k, q) \/ \E s, to \in Holders : TokenIssue(s, to, k, q)
    BY <1>1, <1>2, <2>3, TokenRetireStep, TokenIssueStep
  <2>4. CASE \E a \in Spenders : Open(a, k) \/ Close(a, k)
    BY <1>1, <1>2, <2>4, TokenOpenStep, TokenCloseStep
  <2> QED
    BY <2>1, <2>2, <2>3, <2>4
<1>3. CASE Payments
  BY <1>1, <1>3, TokenTransferStep DEF Payments
<1>4. CASE (StoreNext \/ UNCHANGED storeVars) /\ UNCHANGED tokenVars
  <2>1. StoreTypeOK'
    BY <1>4, StoreStep, StoreSame DEF TokenInv
  <2>2. UNCHANGED <<tokenGlobal, tokenLists, ledger, ruleTbl>>
    BY <1>4 DEF tokenVars
  <2>3. LedgerOK' /\ RulesInv' /\ SpentSums' = SpentSums
    BY <2>2, LedgerSame, RulesSame DEF TokenInv
  <2>4. SpendingFits'
    BY <2>2, <2>3 DEF TokenInv, SpendingFits, SumsFit, ruleTbl
  <2> QED
    BY <2>1, <2>2, <2>3, <2>4 DEF TokenInv, ConfigOK, tokenGlobal, tokenLists
<1> QED
  BY <1>2, <1>3, <1>4, TokenConfigStep, RuleConfigStep DEF AwardsNext, AwardsVars

\* The tables as deployed.
LEMMA AwardsStart == AwardsInit => TokenInv
<1>1. SUFFICES ASSUME AwardsInit
               PROVE  TokenInv
  OBVIOUS
<1>2. ConfigOK /\ LedgerOK
  BY <1>1 DEF AwardsInit, TokenInit, ConfigOK, LedgerOK, IsLedger, EmptyTable
<1> QED
  BY <1>1, <1>2, StoreStart, RulesStart DEF AwardsInit, TokenInit, TokenInv, SpendingFits

\* A ledger that adds up conserves its tokens.
LEMMA LedgerMeans == LedgerOK => TokenConserved
<1> SUFFICES ASSUME LedgerOK PROVE TokenConserved
  OBVIOUS
<1>1. ASSUME NEW s \in DOMAIN stats
      PROVE  SumFunction([a \in Accounts |-> Balance(a, s)]) = stats[s].supply
  <2>1. LedgerTotal(accounts, s) = stats[s].supply
    BY DEF LedgerOK
  <2>2. \A a \in Accounts : RowIn(accounts, a, s).balance = Balance(a, s)
    BY DEF RowIn, Balance, NewRow
  <2> QED
    BY <2>1, <2>2 DEF LedgerTotal
<1> QED
  BY <1>1 DEF LedgerOK, TokenConserved

\* What the invariant says in the terms of the checked properties.
LEMMA TokenInvMeans ==
  TokenInv => /\ StoreTypeOK /\ TokenTypeOK /\ TokenConserved
              /\ TokenSymbols = {Currency} => BadgesFollowSpending
<1>1. SUFFICES ASSUME TokenInv
               PROVE  /\ StoreTypeOK /\ TokenTypeOK /\ TokenConserved
                      /\ TokenSymbols = {Currency} => BadgesFollowSpending
  OBVIOUS
<1>2. TokenTypeOK
  BY <1>1 DEF TokenInv, RulesInv, ConfigOK, LedgerOK, IsLedger, RowType, TokenTypeOK
<1>4. TokenConserved
  BY <1>1, LedgerMeans DEF TokenInv
<1>5. TokenSymbols = {Currency} => BadgesFollowSpending
  BY <1>1, SpentSumsType, RulesMean DEF TokenInv, SpendingFits
<1> QED
  BY <1>1, <1>2, <1>4, <1>5 DEF TokenInv

\* It holds in every reachable state.
LEMMA AwardsInvariant == AwardsSpec => []TokenInv
<1>1. TokenInv /\ [AwardsNext]_AwardsVars => TokenInv'
  BY AwardsStep
<1> QED
  BY <1>1, AwardsStart, PTL DEF AwardsSpec

\* The balances of cisum.token add up to the supply and the supply stays within
\* the cap, for any accounts, tokens, amounts and changes of the issuer.
THEOREM TokensAddUp == AwardsSpec => []TokenConserved
BY AwardsInvariant, TokenInvMeans, PTL

\* An account gets one badge for every threshold it spends while a rule keeps
\* its terms, and loses at most one threshold each time it closes its row, for
\* any thresholds and amounts, where the token the rules are for is the only
\* token created.
THEOREM SpendingEarnsBadges ==
  ASSUME TokenSymbols = {Currency}
  PROVE  AwardsSpec => []BadgesFollowSpending
<1>1. TokenInv => BadgesFollowSpending
  BY TokenInvMeans
<1> QED
  BY <1>1, AwardsInvariant, PTL

\* The tables of cisum.token and of the store stay well formed: no balance,
\* supply or stock becomes negative.
THEOREM AwardsTypes == AwardsSpec => [](StoreTypeOK /\ TokenTypeOK)
BY AwardsInvariant, TokenInvMeans, PTL

-----------------------------------------------------------------------------
(***************************************************************************)
(* The four contracts in the scenes of MCAwards, two of which start with   *)
(* tokens, badges or a budget at hand.                                     *)
(***************************************************************************)

\* Which sums the rules fit tells the scene where pop.cisum applies them from
\* those where cisum.token does.
ScenesInv ==
  /\ StoreTypeOK /\ RulesInv /\ SingInv /\ ConfigOK /\ LedgerOK /\ PopTypeOK /\ PoolWithinCap
  /\ DebtWithin(SumFunction(receivable), reward_usdt_accum + settled, mined)
  /\ IF scene = "mining" THEN SumsFit(rules, tally, receivable) ELSE SpendingFits

\* A store that starts with badges is well formed.
LEMMA StoreDeployedTypes ==
  ASSUME NEW kinds \in SUBSET Badges, NEW count \in Nat, NEW notifier \in Accounts,
         StoreDeployed(kinds, count, notifier)
  PROVE  StoreTypeOK
<1>1. /\ DOMAIN badges = kinds
      /\ badges \in [DOMAIN badges -> [supply : Nat, max_supply : Nat]]
  BY DEF StoreDeployed
<1>2. stock \in [Accounts -> [Badges -> Nat]]
  BY DEF StoreDeployed
<1>3. {store_admin, badge_contract, badge_from} \subseteq Accounts \cup {NoAcct}
  BY StoreAssumption DEF StoreDeployed
<1>4. notifiers \subseteq Accounts
  BY DEF StoreDeployed
<1> QED
  BY <1>1, <1>2, <1>3, <1>4 DEF StoreTypeOK

\* What the payers of pop.cisum paid before the first payment.
LEMMA NothingPaid ==
  ASSUME receivable = [u \in Spenders |-> 0]
  PROVE  SumFunction(receivable) = 0
<1>1. receivable \in [Spenders -> Int] /\ \A u \in Spenders : receivable[u] = 0
  OBVIOUS
<1>2. IsFiniteSet(Spenders)
  BY StoreAssumption, PopAssumption, FS_Subset
<1> QED
  BY <1>1, <1>2, SumOfZeros

\* pop.cisum and sing.token untouched.
LEMMA QuietStart ==
  ASSUME PopInit, SingInit
  PROVE  /\ SingInv /\ PopTypeOK /\ PoolWithinCap
         /\ DebtWithin(SumFunction(receivable), reward_usdt_accum + settled, mined)
<1>1. PopTypeOK /\ PoolWithinCap
  BY PopAssumption DEF PopInit, PopTypeOK, PoolWithinCap
<1>2. SumFunction(receivable) = 0
  BY NothingPaid DEF PopInit
<1> QED
  BY <1>1, <1>2, SingStart DEF PopInit, DebtWithin

\* trade: the fan holds the whole supply of every token.
LEMMA TradeStart == TradeInit => TokenInv
<1> SUFFICES ASSUME TradeInit PROVE TokenInv
  OBVIOUS
<1>1. StoreTypeOK
  <2>1. StoreDeployed(Badges, 3, CISUMTOKEN) /\ CISUMTOKEN \in Accounts
    BY TokenAssumption DEF TradeInit
  <2> QED
    BY <2>1, StoreDeployedTypes
<1>2. ConfigOK
  BY StoreAssumption, SceneAssumption DEF TradeInit, ConfigOK, EmptyTable
<1>3. /\ DOMAIN stats = TokenSymbols
      /\ stats \in [DOMAIN stats -> [supply : Nat, max_supply : Nat]]
      /\ \A s \in DOMAIN stats : stats[s].supply = 30 /\ stats[s].max_supply = 30
  BY DEF TradeInit
<1>4. IsLedger(accounts) /\ DOMAIN accounts \subseteq Accounts \X DOMAIN stats
  BY <1>3, SceneAssumption DEF TradeInit, IsLedger, RowType
<1>5. ASSUME NEW s \in TokenSymbols
      PROVE  LedgerTotal(accounts, s) = 30
  <2> DEFINE f == [a \in Accounts |-> RowIn(accounts, a, s).balance]
  <2>1. \A a \in Accounts : f[a] = IF a = Fan THEN 30 ELSE 0
    BY DEF TradeInit, RowIn, NewRow
  <2>2. f \in [Accounts -> Int] /\ Fan \in Accounts /\ IsFiniteSet(Accounts)
    BY <2>1, SceneAssumption, StoreAssumption
  <2>3. SumFunction(f) = 30
    <3> DEFINE z == [a \in Accounts |-> 0]
    <3>1. z \in [Accounts -> Int] /\ \A a \in Accounts : z[a] = 0
      OBVIOUS
    <3>2. \A a \in Accounts \ {Fan} : f[a] = z[a]
      BY <2>1
    <3>3. f[Fan] = 30
      BY <2>1, <2>2
    <3> HIDE DEF f, z
    <3>4. SumFunction(z) = 0
      BY <2>2, <3>1, SumOfZeros
    <3>5. SumFunction(f) = SumFunction(z) + f[Fan] - z[Fan]
      BY <2>2, <3>1, <3>2, SumMoves
    <3> QED
      BY <2>2, <3>1, <3>3, <3>4, <3>5
  <2> QED
    BY <2>3 DEF LedgerTotal
<1>6. LedgerOK
  BY <1>3, <1>4, <1>5 DEF LedgerOK
<1>7. RulesInv /\ SpendingFits
  BY RulesStart DEF TradeInit, SpendingFits
<1> QED
  BY <1>1, <1>2, <1>6, <1>7 DEF TokenInv

\* mining: a budget of 6, and a coin without supply.
LEMMA MiningStart == MiningInit => PopInv /\ ConfigOK /\ LedgerOK
<1> SUFFICES ASSUME MiningInit PROVE PopInv /\ ConfigOK /\ LedgerOK
  OBVIOUS
<1>1. StoreTypeOK
  <2>1. StoreDeployed({101}, 2, POP) /\ POP \in Accounts /\ {101} \in SUBSET Badges
    BY PopAssumption, SceneAssumption DEF MiningInit
  <2> QED
    BY <2>1, StoreDeployedTypes
<1>2. ConfigOK /\ LedgerOK
  BY DEF MiningInit, TokenInit, ConfigOK, LedgerOK, IsLedger, EmptyTable
<1>3. RulesInv /\ SumsFit(rules, tally, receivable)
  BY RulesStart DEF MiningInit, TokenInit
<1>4. PopTypeOK /\ PoolWithinCap
  BY PopAssumption DEF MiningInit, PopInit, PopTypeOK, PoolWithinCap
<1>5. DebtWithin(SumFunction(receivable), reward_usdt_accum + settled, mined)
  BY NothingPaid DEF MiningInit, PopInit, DebtWithin
<1>6. SingInv
  <2>1. IsPurse(purse) /\ DOMAIN purse = {} /\ drift = [c \in Coins |-> 0]
    BY DEF MiningInit, EmptyTable, IsPurse
  <2>2. /\ DOMAIN coinstat = {SingCoin}
        /\ coinstat[SingCoin] = [supply |-> 0, max_supply |-> SingCap, issuer |-> SING]
        /\ coinstat = [c \in {SingCoin} |-> coinstat[c]]
    BY DEF MiningInit, Put, EmptyTable
  <2>3. DOMAIN coinstat \subseteq Coins /\ coinstat \in [DOMAIN coinstat -> CoinStat]
    BY <2>2, PopAssumption, SingAssumption, SceneAssumption DEF CoinStat
  <2>4. Capped(coinstat)
    BY <2>2, SceneAssumption DEF Capped
  <2>5. ASSUME NEW c \in Coins
        PROVE  TotalIn(purse, c) = SupplyIn(coinstat, c) + drift[c]
    <3> DEFINE f == [a \in Parties |-> HeldIn(purse, a, c)]
    <3>1. f \in [Parties -> Int] /\ \A a \in Parties : f[a] = 0
      BY <2>1 DEF HeldIn
    <3>2. SumFunction(f) = 0
      <4> HIDE DEF f
      <4> QED
        BY <3>1, SingAssumption, SumOfZeros
    <3>3. SupplyIn(coinstat, c) = 0 /\ drift[c] = 0
      BY <2>1, <2>2 DEF SupplyIn
    <3> QED
      BY <3>2, <3>3 DEF TotalIn
  <2> QED
    BY <2>1, <2>3, <2>4, <2>5 DEF SingInv
<1> QED
  BY <1>1, <1>2, <1>3, <1>4, <1>5, <1>6 DEF PopInv

\* Every scene starts in the invariant.
LEMMA ScenesStart == MCInit => ScenesInv
<1> SUFFICES ASSUME MCInit PROVE ScenesInv
  OBVIOUS
<1>1. CASE scene = "trade" /\ TradeInit
  <2>1. PopInit /\ SingInit
    BY <1>1 DEF TradeInit
  <2> QED
    BY <1>1, <2>1, TradeStart, QuietStart DEF TokenInv, ScenesInv
<1>2. CASE scene = "genesis" /\ GenesisInit
  <2>1. AwardsInit /\ PopInit /\ SingInit
    BY <1>2 DEF GenesisInit
  <2> QED
    BY <1>2, <2>1, AwardsStart, QuietStart DEF TokenInv, ScenesInv
<1>3. CASE scene = "mining" /\ MiningInit
  BY <1>3, MiningStart DEF PopInv, ScenesInv
<1>4. CASE scene = "ledger" /\ LedgerInit
  <2>1. AwardsInit /\ PopInit /\ SingInit
    BY <1>4 DEF LedgerInit
  <2> QED
    BY <1>4, <2>1, AwardsStart, QuietStart DEF TokenInv, ScenesInv
<1> QED
  BY <1>1, <1>2, <1>3, <1>4 DEF MCInit

\* A scene of cisum.token leaves pop.cisum and sing.token alone.
LEMMA TokenScenesStep ==
  ASSUME ScenesInv, scene # "mining", scene' = scene, AwardsNext,
         UNCHANGED <<popVars, singVars>>
  PROVE  ScenesInv'
<1>1. TokenInv'
  BY AwardsStep DEF ScenesInv, TokenInv
<1>2. SingInv'
  BY SingSame DEF ScenesInv
<1>3. /\ PopTypeOK' /\ PoolWithinCap'
      /\ DebtWithin(SumFunction(receivable), reward_usdt_accum + settled, mined)'
  BY DEF popVars, pool, ScenesInv, PopTypeOK, PoolWithinCap, DebtWithin
<1> QED
  BY <1>1, <1>2, <1>3 DEF TokenInv, ScenesInv

\* The scene of pop.cisum leaves the ledger of cisum.token alone.
LEMMA MiningSceneStep ==
  ASSUME ScenesInv, scene = "mining", scene' = scene, MiningNext
  PROVE  ScenesInv'
<1>1. PopNext /\ UNCHANGED <<tokenGlobal, tokenLists, ledger>>
  BY DEF MiningNext
<1>2. PopInv'
  BY <1>1, PopStep DEF ScenesInv, PopInv
<1>3. LedgerOK'
  BY <1>1, LedgerSame DEF ScenesInv
<1>4. ConfigOK'
  BY <1>1 DEF ScenesInv, ConfigOK, tokenGlobal, tokenLists
<1> QED
  BY <1>2, <1>3, <1>4 DEF PopInv, ScenesInv

\* The scene of sing.token leaves everything else alone.
LEMMA SingSceneStep ==
  ASSUME ScenesInv, scene = "ledger", scene' = scene,
         SingNext \/ Maintenance, UNCHANGED <<storeVars, tokenVars, popVars>>
  PROVE  ScenesInv'
<1>1. SingInv'
  BY SingStep DEF ScenesInv
<1>2. TokenInv'
  BY AwardsStep DEF ScenesInv, TokenInv, AwardsVars
<1>3. /\ PopTypeOK' /\ PoolWithinCap'
      /\ DebtWithin(SumFunction(receivable), reward_usdt_accum + settled, mined)'
  BY DEF popVars, pool, ScenesInv, PopTypeOK, PoolWithinCap, DebtWithin
<1> QED
  BY <1>1, <1>2, <1>3 DEF TokenInv, ScenesInv

\* No step at all.
LEMMA StillStep ==
  ASSUME ScenesInv, UNCHANGED mcVars
  PROVE  ScenesInv'
<1>1. /\ scene' = scene /\ UNCHANGED storeVars /\ UNCHANGED tokenVars
      /\ UNCHANGED popVars /\ UNCHANGED singVars
  BY DEF mcVars
<1>2. StoreTypeOK' /\ SingInv'
  BY <1>1, StoreSame, SingSame DEF ScenesInv
<1>3. UNCHANGED <<tokenGlobal, tokenLists, ledger, ruleTbl>>
  BY <1>1 DEF tokenVars
<1>4. LedgerOK' /\ RulesInv' /\ SpentSums' = SpentSums /\ rules' = rules /\ tally' = tally
  BY <1>3, LedgerSame, RulesSame DEF ScenesInv, ruleTbl
<1>5. ConfigOK'
  BY <1>3 DEF ScenesInv, ConfigOK, tokenGlobal, tokenLists
<1>6. /\ PopTypeOK' /\ PoolWithinCap' /\ receivable' = receivable
      /\ DebtWithin(SumFunction(receivable), reward_usdt_accum + settled, mined)'
  BY <1>1 DEF popVars, pool, ScenesInv, PopTypeOK, PoolWithinCap, DebtWithin
<1>7. (IF scene = "mining" THEN SumsFit(rules, tally, receivable) ELSE SpendingFits)'
  BY <1>1, <1>4, <1>6 DEF ScenesInv, SpendingFits
<1> QED
  BY <1>2, <1>4, <1>5, <1>6, <1>7 DEF ScenesInv

\* Every step of every scene.
LEMMA ScenesStep == ScenesInv /\ [MCNext]_mcVars => ScenesInv'
<1> SUFFICES ASSUME ScenesInv, [MCNext]_mcVars PROVE ScenesInv'
  OBVIOUS
<1>1. CASE UNCHANGED mcVars
  BY <1>1, StillStep
<1>2. CASE scene' = scene /\ scene = "trade" /\ TradeNext
  <2>1. AwardsNext /\ UNCHANGED <<popVars, singVars>>
    BY <1>2 DEF TradeNext, AwardsNext, Supply
  <2> QED
    BY <1>2, <2>1, TokenScenesStep
<1>3. CASE scene' = scene /\ scene = "genesis" /\ GenesisNext
  <2>1. AwardsNext /\ UNCHANGED <<popVars, singVars>>
    BY <1>3 DEF GenesisNext
  <2> QED
    BY <1>3, <2>1, TokenScenesStep
<1>4. CASE scene' = scene /\ scene = "mining" /\ MiningNext
  BY <1>4, MiningSceneStep
<1>5. CASE scene' = scene /\ scene = "ledger" /\ LedgerNext
  BY <1>5, SingSceneStep DEF LedgerNext
<1> QED
  BY <1>1, <1>2, <1>3, <1>4, <1>5 DEF MCNext

\* What the invariant says in the terms of the checked properties.
LEMMA ScenesMean ==
  ScenesInv => /\ TokenConserved /\ RewardBudget /\ SingConserved
               /\ TokenSymbols = {Currency} => BadgesFollowSpending
<1> SUFFICES ASSUME ScenesInv
             PROVE  /\ TokenConserved /\ RewardBudget /\ SingConserved
                    /\ TokenSymbols = {Currency} => BadgesFollowSpending
  OBVIOUS
<1>1. CASE scene = "mining"
  <2>1. PopInv
    BY <1>1 DEF ScenesInv, PopInv
  <2>2. TokenConserved
    BY LedgerMeans DEF ScenesInv
  <2> QED
    BY <2>1, <2>2, PopInvMeans
<1>2. CASE scene # "mining"
  <2>1. TokenInv
    BY <1>2 DEF ScenesInv, TokenInv
  <2>2. RewardBudget
    BY BudgetMeans DEF ScenesInv
  <2>3. SingConserved
    BY SingInvMeans DEF ScenesInv
  <2> QED
    BY <2>1, <2>2, <2>3, TokenInvMeans
<1> QED
  BY <1>1, <1>2

\* The tables of the four contracts stay well formed in every scene, also from
\* tokens, badges and budgets that were there before: no balance, stock, supply
\* or pool goes below zero.
THEOREM AwardsScenesTypes == MCSpec => []AwardsTypeOK
<1>1. ScenesInv => AwardsTypeOK
  <2> SUFFICES ASSUME ScenesInv PROVE AwardsTypeOK
    OBVIOUS
  <2>1. SingTypeOK
    BY SingInvMeans DEF ScenesInv
  <2>2. TokenTypeOK
    BY DEF ScenesInv, RulesInv, ConfigOK, LedgerOK, IsLedger, RowType, TokenTypeOK
  <2> QED
    BY <2>1, <2>2 DEF ScenesInv, AwardsTypeOK
<1> QED
  BY <1>1, ScenesStart, ScenesStep, PTL DEF MCSpec

\* So do the books: tokens and SING add up, the budget of pop.cisum is kept and
\* badges follow spending, where the rules are for the only token there is.
THEOREM AwardsScenesBooks ==
  ASSUME TokenSymbols = {Currency}
  PROVE  MCSpec => [](TokenConserved /\ RewardBudget /\ SingConserved /\ BadgesFollowSpending)
<1>1. ScenesInv => TokenConserved /\ RewardBudget /\ SingConserved /\ BadgesFollowSpending
  BY ScenesMean
<1> QED
  BY <1>1, ScenesStart, ScenesStep, PTL DEF MCSpec
=============================================================================
