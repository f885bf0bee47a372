------------------------ MODULE TicketCustodyProofs -------------------------
(***************************************************************************)
(* Proofs about what grab.cisum holds for others: the prizes of its        *)
(* campaigns and the stakes of its upgrades are covered by its balance at  *)
(* the ledger, its counters agree with the rows that record the draws, and *)
(* it implements TicketCustody.  For any number of fans, campaigns, types  *)
(* and rows, and any page size of the cleanups.                            *)
(***************************************************************************)
EXTENDS TicketCirculationProofs

-----------------------------------------------------------------------------
(***************************************************************************)
(* The pots: what a table of campaigns may still give away.                *)
(***************************************************************************)

\* Units of type n that the campaigns of a table may still give away.
PotOf(table, n) ==
  SumFunction([id \in DOMAIN table |->
    IF table[id].ticket_id = n THEN table[id].available ELSE 0])

\* A finite table of campaigns with counts for what is available.
PotTable(table) ==
  IsFiniteSet(DOMAIN table) /\ \A id \in DOMAIN table : table[id].available \in Nat

\* The pot is that of the sales and that of the upgrades.
LEMMA PotParts ==
  ASSUME NEW n
  PROVE  /\ Pot(n) = PotOf(sales, n) + PotOf(upgrades, n)
         /\ Pot(n)' = PotOf(sales', n) + PotOf(upgrades', n)
BY DEF Pot, PotOf

\* A pot is a count.
LEMMA PotOfIsNat ==
  ASSUME NEW T, PotTable(T), NEW n
  PROVE  PotOf(T, n) \in Nat
<1> DEFINE f == [id \in DOMAIN T |-> IF T[id].ticket_id = n THEN T[id].available ELSE 0]
<1>1. f \in [DOMAIN T -> Nat] /\ IsFiniteSet(DOMAIN T)
  BY DEF PotTable
<1> HIDE DEF f
<1>2. SumFunction(f) \in Nat
  BY <1>1, SumIsNat
<1> QED
  BY <1>2 DEF PotOf, f

\* U is T but for one campaign, which has d more to give away.
RowMoved(T, U, id, d) ==
  /\ id \in DOMAIN T /\ DOMAIN U = DOMAIN T /\ d \in Int
  /\ U[id].ticket_id = T[id].ticket_id /\ U[id].available = T[id].available + d
  /\ \A x \in DOMAIN T \ {id} : U[x] = T[x]

\* A pot moves as the one row that moved.
LEMMA PotRow ==
  ASSUME NEW T, PotTable(T), NEW U, NEW id, NEW d, RowMoved(T, U, id, d), NEW n
  PROVE  PotOf(U, n) = PotOf(T, n) + (IF T[id].ticket_id = n THEN d ELSE 0)
<1> DEFINE D == DOMAIN T
           f == [x \in D |-> IF T[x].ticket_id = n THEN T[x].available ELSE 0]
           g == [x \in D |-> IF U[x].ticket_id = n THEN U[x].available ELSE 0]
           e == IF T[id].ticket_id = n THEN d ELSE 0
<1>1. IsFiniteSet(D) /\ id \in D /\ \A x \in D : T[x].available \in Int
  BY DEF PotTable, RowMoved
<1>2. /\ DOMAIN U = D /\ d \in Int /\ U[id].ticket_id = T[id].ticket_id
      /\ U[id].available = T[id].available + d /\ \A x \in D \ {id} : U[x] = T[x]
  BY DEF RowMoved
<1>3. f \in [D -> Int]
  BY <1>1
<1>4. \A x \in D : U[x].available \in Int
  BY <1>1, <1>2
<1>5. g \in [D -> Int]
  BY <1>4
<1>6. e \in Int /\ g[id] = f[id] + e
  BY <1>1, <1>2
<1>7. \A x \in D \ {id} : g[x] = f[x]
  BY <1>2
<1>8. PotOf(T, n) = SumFunction(f) /\ PotOf(U, n) = SumFunction(g)
  BY <1>2 DEF PotOf
<1>9. PotOf(U, n) = PotOf(T, n) + e
  <2> HIDE DEF f, g, e, D
  <2>1. SumFunction(g) = SumFunction(f) + e
    BY <1>1, <1>3, <1>5, <1>6, <1>7, SumMoves
  <2> QED
    BY <1>8, <2>1
<1> QED
  BY <1>9

\* A campaign is closed.
LEMMA PotDropped ==
  ASSUME NEW T, PotTable(T), NEW id \in DOMAIN T, NEW U, U = Drop(T, id), NEW n
  PROVE  PotOf(U, n) = PotOf(T, n) - (IF T[id].ticket_id = n THEN T[id].available ELSE 0)
<1> DEFINE D == DOMAIN T
           E == D \ {id}
           f == [x \in D |-> IF T[x].ticket_id = n THEN T[x].available ELSE 0]
           g == [x \in E |-> IF U[x].ticket_id = n THEN U[x].available ELSE 0]
<1>1. IsFiniteSet(D) /\ id \in D /\ E = D \ {id} /\ \A x \in D : T[x].available \in Int
  BY DEF PotTable
<1>2. DOMAIN U = E /\ \A x \in E : U[x] = T[x]
  BY DEF Drop
<1>3. f \in [D -> Int] /\ g \in [E -> Int]
  BY <1>1, <1>2
<1>4. \A x \in E : g[x] = f[x]
  BY <1>2
<1>5. PotOf(T, n) = SumFunction(f) /\ PotOf(U, n) = SumFunction(g)
  BY <1>2 DEF PotOf
<1>6. f[id] = IF T[id].ticket_id = n THEN T[id].available ELSE 0
  OBVIOUS
<1> HIDE DEF f, g, D, E
<1>7. SumFunction(g) = SumFunction(f) - f[id]
  BY <1>1, <1>3, <1>4, SumShrinks
<1> QED
  BY <1>5, <1>6, <1>7

\* Campaigns are added to a table.
LEMMA PotMany ==
  ASSUME NEW T, PotTable(T), NEW R, PotTable(R), DOMAIN T \cap DOMAIN R = {},
         NEW U, U = PutAll(T, R), NEW n
  PROVE  PotOf(U, n) = PotOf(T, n) + PotOf(R, n)
<1> DEFINE D == DOMAIN T
           N == DOMAIN R
           E == D \cup N
           f == [x \in D |-> IF T[x].ticket_id = n THEN T[x].available ELSE 0]
           k == [x \in N |-> IF R[x].ticket_id = n THEN R[x].available ELSE 0]
           h == [x \in E |-> IF U[x].ticket_id = n THEN U[x].available ELSE 0]
<1>1. /\ IsFiniteSet(D) /\ \A x \in D : T[x].available \in Int
      /\ IsFiniteSet(N) /\ \A x \in N : R[x].available \in Int
  BY DEF PotTable
<1>2. DOMAIN U = E /\ (\A x \in D : U[x] = T[x]) /\ \A x \in N : U[x] = R[x]
  BY DEF PutAll
<1>3. IsFiniteSet(E)
  <2> HIDE DEF D, N
  <2> QED
    BY <1>1, FS_Union
<1>4. h \in [E -> Int] /\ DOMAIN f = D /\ DOMAIN k = N
  BY <1>1, <1>2
<1>5. \A x \in D : h[x] = f[x]
  BY <1>2
<1>6. \A x \in N : h[x] = k[x]
  BY <1>2
<1>7. /\ PotOf(T, n) = SumFunction(f) /\ PotOf(R, n) = SumFunction(k)
      /\ PotOf(U, n) = SumFunction(h)
  BY <1>2 DEF PotOf
<1>8. D \in SUBSET E /\ E \ D = N
  OBVIOUS
<1> HIDE DEF f, h, k, D, N, E
<1>9. SumFunction(h) = SumFunctionOnSet(h, D) + SumFunctionOnSet(h, N)
  BY <1>3, <1>4, <1>8, SumOnParts
<1>10. SumFunctionOnSet(h, D) = SumFunction(f) /\ SumFunctionOnSet(h, N) = SumFunction(k)
  BY <1>1, <1>4, <1>5, <1>6, SumOfTable
<1> QED
  BY <1>7, <1>9, <1>10

\* A campaign is opened with nothing to give away yet.
LEMMA PotNew ==
  ASSUME NEW T, PotTable(T), NEW id, id \notin DOMAIN T, NEW row, row.available = 0,
         NEW U, U = Put(T, id, row), NEW n
  PROVE  PotOf(U, n) = PotOf(T, n)
<1> DEFINE D == DOMAIN T
           E == D \cup {id}
           f == [x \in D |-> IF T[x].ticket_id = n THEN T[x].available ELSE 0]
           g == [x \in E |-> IF U[x].ticket_id = n THEN U[x].available ELSE 0]
<1>1. IsFiniteSet(D) /\ id \notin D /\ E = D \cup {id} /\ \A x \in D : T[x].available \in Int
  BY DEF PotTable
<1>2. DOMAIN U = E /\ U[id] = row /\ \A x \in D : U[x] = T[x]
  BY DEF Put
<1>3. f \in [D -> Int] /\ g \in [E -> Int] /\ g[id] = 0
  BY <1>1, <1>2
<1>4. \A x \in D : g[x] = f[x]
  BY <1>2
<1>5. PotOf(T, n) = SumFunction(f) /\ PotOf(U, n) = SumFunction(g)
  BY <1>2 DEF PotOf
<1> HIDE DEF f, g, D, E
<1>6. SumFunction(g) = SumFunction(f) + g[id]
  BY <1>1, <1>3, <1>4, SumGrows
<1>7. SumFunction(f) \in Int
  BY <1>1, <1>3, SumIsInt
<1> QED
  BY <1>3, <1>5, <1>6, <1>7

-----------------------------------------------------------------------------
(***************************************************************************)
(* What one step may do to the tickets grab.cisum owns.                    *)
(***************************************************************************)

\* What grab.cisum owns of type n and owes to nobody.
Stray(n) == bal[GRAB][n] - Pot(n) - Staked(logs, n)

\* No step pays out of it, so no step makes grab.cisum insolvent.
StrayKept == \A n \in Nids : Stray(n)' >= Stray(n)

Numbers ==
  \A n \in Nids : bal[GRAB][n] \in Nat /\ Pot(n) \in Nat /\ Staked(logs, n) \in Nat

\* Both tables of grab.cisum have pots.
LEMMA PotTables ==
  ASSUME GrabInv
  PROVE  PotTable(sales) /\ PotTable(upgrades)
BY TablesFinite
   DEF GrabInv, Balanced, SaleOK, UpgradeOK, RushSale, RushUpgrade, PotTable

\* Prizes, stakes and balances are counts.
LEMMA NumbersHold == GrabInv /\ Holdings => Numbers
<1> SUFFICES ASSUME GrabInv, Holdings, NEW n \in Nids
             PROVE  bal[GRAB][n] \in Nat /\ Pot(n) \in Nat /\ Staked(logs, n) \in Nat
  BY DEF Numbers
<1>1. bal[GRAB][n] \in Nat
  BY Parties DEF Holdings, IsHoldings
<1>2. PotOf(sales, n) \in Nat /\ PotOf(upgrades, n) \in Nat
  BY PotTables, PotOfIsNat DEF RowMoved
<1>3. Pot(n) = PotOf(sales, n) + PotOf(upgrades, n)
  BY DEF Pot, PotOf
<1>4. logs \subseteq UpgradeLog /\ IsFiniteSet(logs)
  BY RowsFinite DEF GrabInv, RowsOK
<1>5. Staked(logs, n) \in Nat
  BY <1>4, StakedIsNat
<1> QED
  BY <1>1, <1>2, <1>3, <1>5

\* Prizes come in.
Funded ==
  /\ \A n \in Nids : Pot(n)' >= Pot(n) /\ Staked(logs, n)' = Staked(logs, n)
  /\ StrayKept

\* One prize of type m goes out.
Won(m) ==
  \A n \in Nids :
    /\ Pot(n)' = Pot(n) - (IF n = m THEN 1 ELSE 0)
    /\ Staked(logs, n)' = Staked(logs, n) /\ Stray(n)' = Stray(n)

\* A stake of q of type s comes in; with out = 1 a prize of type m goes out.
TakenIn(s, q, m, out) ==
  /\ StrayKept
  /\ \A n \in Nids :
       /\ Pot(n)' = Pot(n) - (IF n = m THEN out ELSE 0)
       /\ Staked(logs, n)' = Staked(logs, n) + (IF n = s THEN q ELSE 0)

\* k prizes of type m go back to the show.
Reclaimed(m, k) ==
  \A n \in Nids :
    /\ Pot(n)' = Pot(n) - (IF n = m THEN k ELSE 0)
    /\ Staked(logs, n)' = Staked(logs, n) /\ Stray(n)' = Stray(n)

\* Stakes are settled, and k prizes of type m nobody won are given up.
Settled(m, k) ==
  /\ StrayKept
  /\ \A n \in Nids :
       /\ Pot(n)' = Pot(n) - (IF n = m THEN k ELSE 0)
       /\ Staked(logs, n)' <= Staked(logs, n)
       /\ Pot(n)' + Stray(n)' = Pot(n) + Stray(n)

\* The steps of the four contracts, as TicketCustody sees them.
CustodyStep ==
  \/ Funded
  \/ \E m \in Nids : Won(m)
  \/ \E s, m \in Nids, q \in Nat \ {0}, out \in {0, 1} :
       s # m /\ TakenIn(s, q, m, out)
  \/ \E m \in Nids, k \in Nat \ {0} : Reclaimed(m, k)
  \/ \E m \in Nids, k \in Nat : Settled(m, k)

\* Tickets that leave grab.cisum do so at ticket.cvnft.
InCustody == StrayKept /\ (PaysTickets => CustodyStep)

\* Funding, from the changes of the books.
LEMMA FundedBy ==
  ASSUME Numbers, Numbers', UNCHANGED logs, NEW more \in [Nids -> Nat],
         \A n \in Nids : Pot(n)' = Pot(n) + more[n],
         \A n \in Nids : bal'[GRAB][n] >= bal[GRAB][n] + more[n]
  PROVE  InCustody
<1>1. \A n \in Nids : Staked(logs, n)' = Staked(logs, n)
  BY DEF Staked
<1>2. ASSUME NEW n \in Nids
      PROVE  Stray(n)' >= Stray(n) /\ Pot(n)' >= Pot(n)
  <2>1. /\ bal[GRAB][n] \in Nat /\ Pot(n) \in Nat /\ Staked(logs, n) \in Nat
        /\ bal'[GRAB][n] \in Nat /\ Pot(n)' \in Nat
    BY DEF Numbers
  <2>2. /\ Pot(n)' = Pot(n) + more[n] /\ bal'[GRAB][n] >= bal[GRAB][n] + more[n]
        /\ more[n] \in Nat /\ Staked(logs, n)' = Staked(logs, n)
    BY <1>1
  <2>3. bal'[GRAB][n] - Pot(n)' - Staked(logs, n)' >= bal[GRAB][n] - Pot(n) - Staked(logs, n)
    BY <2>1, <2>2
  <2> QED
    BY <2>1, <2>2, <2>3 DEF Stray
<1>3. StrayKept
  BY <1>2 DEF StrayKept
<1> QED
  BY <1>1, <1>2, <1>3 DEF InCustody, CustodyStep, Funded

\* The pots rest and grab.cisum loses nothing.
LEMMA PotsRest ==
  ASSUME Numbers, Numbers', UNCHANGED logs, \A n \in Nids : Pot(n)' = Pot(n),
         \A n \in Nids : bal'[GRAB][n] >= bal[GRAB][n]
  PROVE  InCustody
<1> DEFINE none == [n \in Nids |-> 0]
<1>1. \A n \in Nids : bal[GRAB][n] \in Nat /\ Pot(n) \in Nat
  BY DEF Numbers
<1>2. /\ none \in [Nids -> Nat]
      /\ \A n \in Nids : none[n] = 0
  OBVIOUS
<1> HIDE DEF none
<1>3. \A n \in Nids : Pot(n)' = Pot(n) + none[n]
  BY <1>1, <1>2
<1>4. \A n \in Nids : bal'[GRAB][n] >= bal[GRAB][n] + none[n]
  BY <1>1, <1>2
<1> QED
  BY <1>2, <1>3, <1>4, FundedBy

\* The books of grab.cisum rest and it loses nothing.
LEMMA CustodyRests ==
  ASSUME Numbers, Numbers', UNCHANGED <<sales, upgrades, logs>>,
         \A n \in Nids : bal'[GRAB][n] >= bal[GRAB][n]
  PROVE  InCustody
<1>1. \A n \in Nids : Pot(n)' = Pot(n)
  BY DEF Pot
<1> QED
  BY <1>1, PotsRest

\* One sale, or one upgrade, has d more to give away.
LEMMA SalePot ==
  ASSUME GrabInv, NEW id, NEW d, RowMoved(sales, sales', id, d), UNCHANGED upgrades
  PROVE  \A n : Pot(n)' = Pot(n) + (IF n = sales[id].ticket_id THEN d ELSE 0)
<1> TAKE n
<1> DEFINE T == sales
           U == sales'
           e == IF n = T[id].ticket_id THEN d ELSE 0
<1>1. PotOf(U, n) = PotOf(T, n) + e
  <2>1. PotTable(T) /\ RowMoved(T, U, id, d)
    BY PotTables
  <2> HIDE DEF T, U
  <2>2. PotOf(U, n) = PotOf(T, n) + (IF T[id].ticket_id = n THEN d ELSE 0)
    BY <2>1, PotRow
  <2> QED
    BY <2>2
<1>2. PotOf(sales, n) \in Nat /\ PotOf(upgrades, n) \in Nat /\ e \in Int
  BY PotTables, PotOfIsNat DEF RowMoved
<1>3. /\ Pot(n) = PotOf(sales, n) + PotOf(upgrades, n)
      /\ Pot(n)' = PotOf(sales', n) + PotOf(upgrades', n)
      /\ PotOf(upgrades', n) = PotOf(upgrades, n)
  BY PotParts
<1>4. Pot(n)' = Pot(n) + e
  <2> HIDE DEF e
  <2> QED
    BY <1>1, <1>2, <1>3
<1> QED
  BY <1>4

\* The same for an upgrade.
LEMMA UpgradePot ==
  ASSUME GrabInv, NEW id, NEW d, RowMoved(upgrades, upgrades', id, d), UNCHANGED sales
  PROVE  \A n : Pot(n)' = Pot(n) + (IF n = upgrades[id].ticket_id THEN d ELSE 0)
<1> TAKE n
<1> DEFINE T == upgrades
           U == upgrades'
           e == IF n = T[id].ticket_id THEN d ELSE 0
<1>1. PotOf(U, n) = PotOf(T, n) + e
  <2>1. PotTable(T) /\ RowMoved(T, U, id, d)
    BY PotTables
  <2> HIDE DEF T, U
  <2>2. PotOf(U, n) = PotOf(T, n) + (IF T[id].ticket_id = n THEN d ELSE 0)
    BY <2>1, PotRow
  <2> QED
    BY <2>2
<1>2. PotOf(sales, n) \in Nat /\ PotOf(upgrades, n) \in Nat /\ e \in Int
  BY PotTables, PotOfIsNat DEF RowMoved
<1>3. /\ Pot(n) = PotOf(sales, n) + PotOf(upgrades, n)
      /\ Pot(n)' = PotOf(sales', n) + PotOf(upgrades', n)
      /\ PotOf(sales', n) = PotOf(sales, n)
  BY PotParts
<1>4. Pot(n)' = Pot(n) + e
  <2> HIDE DEF e
  <2> QED
    BY <1>1, <1>2, <1>3
<1> QED
  BY <1>4

\* What the handlers do to a campaign that balances.
LEMMA CampaignRow ==
  ASSUME NEW c, SaleOK(c) \/ UpgradeOK(c), NEW k \in Nat
  PROVE  /\ c.available \in Nat /\ c.ticket_id \in Nids
         /\ Restocked(c, k).ticket_id = c.ticket_id
         /\ Restocked(c, k).available = c.available + k
         /\ TakenBack(c, k).ticket_id = c.ticket_id
         /\ TakenBack(c, k).available = c.available - k
         /\ \A win \in BOOLEAN :
              /\ Drawn(c, win).ticket_id = c.ticket_id
              /\ Drawn(c, win).available = c.available - (IF win THEN 1 ELSE 0)
<1>1. CASE SaleOK(c)
  <2>1. /\ c \in RushSale /\ c.total = c.available + c.grabbed
        /\ c.total \in Nat /\ c.available \in Nat /\ c.grabbed \in Nat /\ c.ticket_id \in Nids
    BY <1>1 DEF SaleOK, RushSale
  <2> QED
    BY <2>1 DEF RushSale, Restocked, TakenBack, Drawn
<1>2. CASE UpgradeOK(c)
  <2>1. /\ c \in RushUpgrade /\ c.total = c.available + c.grabbed
        /\ c.total \in Nat /\ c.available \in Nat /\ c.grabbed \in Nat /\ c.ticket_id \in Nids
    BY <1>2 DEF UpgradeOK, RushUpgrade
  <2> QED
    BY <2>1 DEF RushUpgrade, Restocked, TakenBack, Drawn
<1> QED
  BY <1>1, <1>2

-----------------------------------------------------------------------------
(***************************************************************************)
(* The steps.                                                              *)
(***************************************************************************)

GrabGains == \A n \in Nids : bal'[GRAB][n] >= bal[GRAB][n]

\* Two accounts other than grab.cisum.
LEMMA OthersMove ==
  ASSUME IsHoldings(bal), NEW a \in Accounts, NEW b \in Accounts, GRAB \notin {a, b},
         NEW n \in Nids, NEW k \in Nat, NftTransfer(a, b, Single(n, k))
  PROVE  GrabGains
<1>1. \A m \in Nids : bal'[GRAB][m] = bal[GRAB][m]
  BY Parties, SingleMoves
<1>2. \A m \in Nids : bal[GRAB][m] \in Int
  BY Parties DEF IsHoldings
<1> QED
  BY <1>1, <1>2 DEF GrabGains

\* A reward may name any account.
LEMMA RewardGains ==
  ASSUME IsHoldings(bal), NEW sig, NEW s, NEW n \in Nids, NEW k \in Nat,
         NEW batch \in Seq(Accounts), BatchReward(sig, s, n, k, batch)
  PROVE  GrabGains
<1> DEFINE cnt == Len(batch)
           Listed(a) == Cardinality({i \in 1..cnt : batch[i] = a})
           gift(a) == [m \in Nids |-> IF m = n THEN k * Listed(a) ELSE 0]
<1>1. GRAB \in Accounts /\ GRAB # SHOW
  BY ShowAssumption DEF ShowAssumption
<1>2. bal'[GRAB] = [m \in Nids |-> bal[GRAB][m] + gift(GRAB)[m]]
  BY <1>1 DEF BatchReward
<1>3. Listed(GRAB) \in Nat
  <2>1. cnt \in Nat
    OBVIOUS
  <2>2. IsFiniteSet(1..cnt)
    BY <2>1, FS_Interval
  <2>3. IsFiniteSet({i \in 1..cnt : batch[i] = GRAB})
    BY <2>2, FS_Subset
  <2> QED
    BY <2>3, FS_CardinalityType
<1>4. \A m \in Nids : gift(GRAB)[m] \in Nat
  <2> HIDE DEF Listed
  <2> QED
    BY <1>3
<1>5. \A m \in Nids : bal[GRAB][m] \in Int
  BY <1>1 DEF IsHoldings
<1> HIDE DEF gift
<1> QED
  BY <1>2, <1>4, <1>5 DEF GrabGains

\* show.cisum and the holders cannot take tickets from grab.cisum.
LEMMA ShowGains ==
  ASSUME IsHoldings(bal), ShowSide \/ Ledger
  PROVE  GrabGains
<1>1. \A k \in Amounts : k \in Nat
  BY NftAssumption DEF NftAssumption
<1>2. /\ SHOW \in Accounts /\ GRAB \in Accounts /\ GRAB # SHOW
      /\ \A a \in Fans : a \in Accounts /\ a # GRAB
  BY ShowAssumption DEF ShowAssumption
<1>3. CASE UNCHANGED bal
  <2>1. \A m \in Nids : bal[GRAB][m] \in Int
    BY <1>2 DEF IsHoldings
  <2> QED
    BY <1>3, <2>1 DEF GrabGains
<1>4. CASE \E a \in Fans, b \in Fans \cup {SHOW}, n \in Nids, k \in Amounts :
             NftTransfer(a, b, Single(n, k))
  BY <1>1, <1>2, <1>4, OthersMove
<1>5. CASE \E sig \in Accounts, s \in ShowIds, n \in Nids, k \in Amounts, a \in Fans :
             \/ ShowIssue(sig, a, s, n, k)
             \/ IssueToGrab(sig, a, s, n, k)
             \/ \E pay \in UsdtPrices : BuyTicket(sig, a, pay, s, n, k)
  <2>1. PICK n \in Nids, k \in Amounts, a \in Fans : NftTransfer(SHOW, a, Single(n, k))
    BY <1>5 DEF ShowIssue, IssueToGrab, BuyTicket
  <2> QED
    BY <1>1, <1>2, <2>1, OthersMove
<1>6. CASE \E sig \in Accounts, s \in ShowIds, n \in Nids, k \in Amounts, batch \in Batches :
             BatchReward(sig, s, n, k, batch)
  BY <1>1, <1>6, RewardGains, ShowAssumption DEF ShowAssumption
<1>7. CASE \E sig, s, n, k : IssueNft(sig, s, n, k)
  <2>1. PICK n, k : bal' = [bal EXCEPT ![SHOW][n] = @ + k]
    BY <1>7 DEF IssueNft, NftIssue
  <2>2. bal'[GRAB] = bal[GRAB]
    BY <1>2, <2>1 DEF IsHoldings
  <2>3. \A m \in Nids : bal[GRAB][m] \in Int
    BY <1>2 DEF IsHoldings
  <2> QED
    BY <2>2, <2>3 DEF GrabGains
<1>8. CASE Catalogue
  <2>1. ASSUME NEW a, Configure(a, TICKET) PROVE UNCHANGED bal
    BY <2>1 DEF Configure, nftVars
  <2>2. ASSUME NEW sig, NEW s, NEW dates, NewShow(sig, s, dates) \/ SetShow(sig, s, dates)
        PROVE  UNCHANGED bal
    BY <2>2 DEF NewShow, SetShow, nftVars
  <2>3. ASSUME NEW sig, NEW s, DelShow(sig, s) PROVE UNCHANGED bal
    BY <2>3 DEF DelShow, nftVars
  <2>4. ASSUME NEW sig, NEW s, NEW n, NEW usdt, NEW w,
               NewTicket(sig, s, n, usdt, w) \/ SetTicket(sig, s, n, usdt, w)
        PROVE  UNCHANGED bal
    BY <2>4 DEF NewTicket, SetTicket, nftVars
  <2> QED
    BY <1>3, <1>8, <2>1, <2>2, <2>3, <2>4 DEF Catalogue
<1>9. CASE Stock
  <2>1. ASSUME NEW sig \in Accounts, NEW n \in Nids, NEW max \in MaxSupplies, NEW u \in Uris,
               CreateNft(sig, max, n, u)
        PROVE  UNCHANGED bal
    BY <2>1 DEF CreateNft, NftCreate
  <2>2. ASSUME NEW s \in ShowIds, NEW n \in Nids, NEW k \in Amounts, ShowRetire(s, n, k)
        PROVE  UNCHANGED bal
    BY <2>2 DEF ShowRetire, nftVars
  <2> QED
    BY <1>3, <1>5, <1>6, <1>7, <1>9, <2>1, <2>2 DEF Stock
<1>10. CASE Holders
  BY <1>3, <1>4, <1>10 DEF Holders, AddWhitelist, DelWhitelist, SetNftWhite
<1>11. CASE Tick
  BY <1>3, <1>11 DEF Tick, nftVars
<1> QED
  BY <1>8, <1>9, <1>10, <1>11 DEF ShowSide, Ledger

\* Steps that leave the books of grab.cisum alone.
LEMMA QuietCustody ==
  ASSUME Numbers, Numbers', IsHoldings(bal),
         \/ ShowSide \/ Ledger \/ GrabConfig \/ UNCHANGED vars
         \/ \E s \in ShowIds, dates \in ShowDates, free \in BOOLEAN, grades \in Posters :
              PublishShow(s, dates, free, grades)
  PROVE  InCustody
<1>1. /\ SHOW \in Accounts /\ GRAB \in Accounts /\ GRAB # SHOW
      /\ \A m \in Nids : bal[GRAB][m] \in Int
  BY ShowAssumption DEF ShowAssumption, IsHoldings
<1>2. UNCHANGED <<sales, upgrades, logs>>
  <2>1. CASE ShowSide \/ Ledger
    BY <2>1 DEF ShowSide, Ledger, grabVars
  <2>2. CASE GrabConfig
    BY <2>2 DEF GrabConfig
  <2>3. CASE UNCHANGED vars
    BY <2>3 DEF vars, grabVars
  <2>4. ASSUME NEW s, NEW dates, NEW free, NEW grades, PublishShow(s, dates, free, grades)
        PROVE  UNCHANGED <<sales, upgrades, logs>>
    BY <2>4 DEF PublishShow, grabVars
  <2> QED
    BY <2>1, <2>2, <2>3, <2>4
<1>3. CASE ShowSide \/ Ledger
  BY <1>2, <1>3, ShowGains, CustodyRests DEF GrabGains
<1>4. CASE GrabConfig \/ UNCHANGED vars
  <2>1. UNCHANGED bal
    BY <1>4 DEF GrabConfig, vars, nftVars
  <2>2. \A n \in Nids : bal'[GRAB][n] >= bal[GRAB][n]
    BY <1>1, <2>1
  <2> QED
    BY <1>2, <2>2, CustodyRests
<1>5. CASE \E s \in ShowIds, dates \in ShowDates, free \in BOOLEAN, grades \in Posters :
             PublishShow(s, dates, free, grades)
  <2>1. bal'[GRAB] = bal[GRAB]
    <3>1. ASSUME NEW s, NEW dates, NEW free, NEW grades, PublishShow(s, dates, free, grades)
          PROVE  bal'[GRAB] = bal[GRAB]
      BY <1>1, <3>1 DEF PublishShow, IsHoldings
    <3> QED
      BY <1>5, <3>1
  <2>2. \A n \in Nids : bal'[GRAB][n] >= bal[GRAB][n]
    BY <1>1, <2>1
  <2> QED
    BY <1>2, <2>2, CustodyRests
<1> QED
  BY <1>3, <1>4, <1>5

\* Prizes for a campaign come in, with what else the transfer carries.
LEMMA RestockCustody ==
  ASSUME GrabInv, Numbers, Numbers', IsHoldings(bal), Restock
  PROVE  InCustody
<1>1. PICK id \in DOMAIN sales \cup DOMAIN upgrades, n \in Nids, k \in Amounts :
        /\ OnAddRushSale(id, n, k) \/ OnAddRushUpgrade(id, n, k)
        /\ \/ NftTransfer(SHOW, GRAB, Single(n, k))
           \/ \E a \in Fans, extra \in Extras :
                NftTransfer(a, GRAB, [m \in Nids |-> extra[m] + Single(n, k)[m]])
  <2>1. ASSUME NEW sig, NEW s, NEW n, NEW k,
               IssueToGrab(sig, GRAB, s, n, k) \/ ShowIssue(sig, GRAB, s, n, k)
        PROVE  NftTransfer(SHOW, GRAB, Single(n, k))
    BY <2>1 DEF IssueToGrab, ShowIssue
  <2> QED
    BY <2>1 DEF Restock
<1> DEFINE more == [m \in Nids |-> IF m = n THEN k ELSE 0]
<1>2. k \in Nat
  BY NftAssumption DEF NftAssumption
<1>3. /\ more \in [Nids -> Nat]
      /\ \A m \in Nids : more[m] = IF m = n THEN k ELSE 0
  BY <1>2
<1>4. /\ SHOW \in Accounts /\ GRAB \in Accounts
      /\ \A a \in Fans : a \in Accounts /\ a # GRAB
      /\ \A m \in Nids : bal[GRAB][m] \in Nat
  BY ShowAssumption DEF ShowAssumption, IsHoldings
<1> HIDE DEF more
<1>5. UNCHANGED logs
  BY <1>1 DEF OnAddRushSale, OnAddRushUpgrade
<1>6. \A m \in Nids : bal'[GRAB][m] >= bal[GRAB][m] + more[m]
  <2>1. CASE NftTransfer(SHOW, GRAB, Single(n, k))
    <3>1. /\ bal'[GRAB][n] = bal[GRAB][n] + k
          /\ \A m \in Nids \ {n} : bal'[GRAB][m] = bal[GRAB][m]
      BY <1>2, <1>4, <2>1, SingleMoves
    <3> QED
      BY <1>2, <1>3, <1>4, <3>1
  <2>2. CASE \E a \in Fans, extra \in Extras :
               NftTransfer(a, GRAB, [m \in Nids |-> extra[m] + Single(n, k)[m]])
    <3>1. PICK a \in Fans, extra \in Extras :
            NftTransfer(a, GRAB, [m \in Nids |-> extra[m] + Single(n, k)[m]])
      BY <2>2
    <3> DEFINE moved == [m \in Nids |-> extra[m] + Single(n, k)[m]]
    <3>2. extra \in [Nids -> Nat]
      BY GrabAssumption DEF GrabAssumption
    <3>3. moved \in [Nids -> Nat]
      BY <1>2, <3>2, BatchType
    <3>4. \A m \in Nids : moved[m] >= more[m]
      BY <1>2, <1>3, <3>2 DEF Single
    <3>5. CanMove(bal, a, GRAB, moved) /\ bal' = Move(bal, a, GRAB, moved)
      BY <3>1 DEF NftTransfer
    <3> HIDE DEF moved
    <3>6. \A m \in Nids : bal'[GRAB][m] = bal[GRAB][m] + moved[m]
      BY <1>4, <3>3, <3>5, MoveKeeps
    <3>7. \A m \in Nids : more[m] \in Nat /\ moved[m] \in Nat
      BY <1>3, <3>3
    <3> QED
      BY <1>4, <3>4, <3>6, <3>7
  <2> QED
    BY <1>1, <2>1, <2>2
<1>7. \A m \in Nids : Pot(m)' = Pot(m) + more[m]
  <2>1. CASE OnAddRushSale(id, n, k)
    <3>1. /\ id \in DOMAIN sales /\ n = sales[id].ticket_id /\ UNCHANGED upgrades
          /\ sales' = [sales EXCEPT ![id] = Restocked(sales[id], k)]
      BY <2>1 DEF OnAddRushSale, Fits
    <3>2. SaleOK(sales[id])
      BY <3>1 DEF GrabInv, Balanced
    <3>3. /\ Restocked(sales[id], k).ticket_id = sales[id].ticket_id
          /\ Restocked(sales[id], k).available = sales[id].available + k
      BY <1>2, <3>2, CampaignRow
    <3>4. RowMoved(sales, sales', id, k)
      BY <1>2, <3>1, <3>3 DEF RowMoved
    <3>5. \A m : Pot(m)' = Pot(m) + (IF m = sales[id].ticket_id THEN k ELSE 0)
      BY <3>1, <3>4, SalePot
    <3> QED
      BY <1>3, <3>1, <3>5
  <2>2. CASE OnAddRushUpgrade(id, n, k)
    <3>1. /\ id \in DOMAIN upgrades /\ n = upgrades[id].ticket_id /\ UNCHANGED sales
          /\ upgrades' = [upgrades EXCEPT ![id] = Restocked(upgrades[id], k)]
      BY <2>2 DEF OnAddRushUpgrade, Fits
    <3>2. UpgradeOK(upgrades[id])
      BY <3>1 DEF GrabInv, Balanced
    <3>3. /\ Restocked(upgrades[id], k).ticket_id = upgrades[id].ticket_id
          /\ Restocked(upgrades[id], k).available = upgrades[id].available + k
      BY <1>2, <3>2, CampaignRow
    <3>4. RowMoved(upgrades, upgrades', id, k)
      BY <1>2, <3>1, <3>3 DEF RowMoved
    <3>5. \A m : Pot(m)' = Pot(m) + (IF m = upgrades[id].ticket_id THEN k ELSE 0)
      BY <3>1, <3>4, UpgradePot
    <3> QED
      BY <1>3, <3>1, <3>5
  <2> QED
    BY <1>1, <2>1, <2>2
<1> QED
  BY <1>3, <1>5, <1>6, <1>7, FundedBy

\* Campaigns are opened empty and changed without touching what they hold.
LEMMA CampaignsCustody ==
  ASSUME GrabInv, Numbers, Numbers', Campaigns
  PROVE  InCustody
<1>1. UNCHANGED <<logs, bal>>
  <2>1. UNCHANGED bal
    BY DEF Campaigns, nftVars
  <2>2. ASSUME NEW sig, NEW s, NEW n, NEW w, NEW price, NEW limit, NEW ratio,
               AddRushSale(sig, s, n, w, price, limit, ratio)
        PROVE  UNCHANGED logs
    BY <2>2 DEF AddRushSale
  <2>3. ASSUME NEW sig, NEW s, NEW n, NEW w, NEW pay, NEW ratio,
               AddUpgrade(sig, s, n, pay, w, ratio)
        PROVE  UNCHANGED logs
    BY <2>3 DEF AddUpgrade
  <2>4. ASSUME NEW sig, NEW id, NEW price, NEW limit, NEW ratio, NEW start, NEW end,
               SetRushSale(sig, id, price, limit, ratio, start, end)
        PROVE  UNCHANGED logs
    BY <2>4 DEF SetRushSale
  <2>5. ASSUME NEW sig, NEW id, NEW pay, NEW ratio, NEW start, NEW end,
               SetUpgrade(sig, id, pay, ratio, start, end)
        PROVE  UNCHANGED logs
    BY <2>5 DEF SetUpgrade
  <2> QED
    BY <2>1, <2>2, <2>3, <2>4, <2>5 DEF Campaigns
<1>2. \A n \in Nids : bal'[GRAB][n] >= bal[GRAB][n]
  BY <1>1 DEF Numbers
<1>3. PotTable(sales) /\ PotTable(upgrades)
  BY PotTables
<1>4. lastRushId + 1 \notin DOMAIN sales /\ lastRushId + 1 \notin DOMAIN upgrades
  BY DEF GrabInv, Numbering
<1>5. ASSUME NEW sig, NEW s, NEW n, NEW w, NEW price, NEW limit, NEW ratio,
             AddRushSale(sig, s, n, w, price, limit, ratio)
      PROVE  \A m \in Nids : Pot(m)' = Pot(m)
  <2> DEFINE row == FreshSale(s, n, w, price, limit, ratio)
             T == sales
             U == sales'
             id == lastRushId + 1
  <2>1. row.available = 0 /\ U = Put(T, id, row) /\ UNCHANGED upgrades
    BY <1>5 DEF AddRushSale, FreshSale
  <2>2. PotTable(T) /\ id \notin DOMAIN T
    BY <1>3, <1>4
  <2> HIDE DEF row, T, U, id
  <2>3. \A m : PotOf(U, m) = PotOf(T, m)
    BY <2>1, <2>2, PotNew
  <2> QED
    BY <2>1, <2>3, PotParts DEF T, U
<1>6. ASSUME NEW sig, NEW s, NEW n, NEW w, NEW pay, NEW ratio,
             AddUpgrade(sig, s, n, pay, w, ratio)
      PROVE  \A m \in Nids : Pot(m)' = Pot(m)
  <2> DEFINE row == FreshUpgrade(s, n, w, pay, ratio)
             T == upgrades
             U == upgrades'
             id == lastRushId + 1
  <2>1. row.available = 0 /\ U = Put(T, id, row) /\ UNCHANGED sales
    BY <1>6 DEF AddUpgrade, FreshUpgrade
  <2>2. PotTable(T) /\ id \notin DOMAIN T
    BY <1>3, <1>4
  <2> HIDE DEF row, T, U, id
  <2>3. \A m : PotOf(U, m) = PotOf(T, m)
    BY <2>1, <2>2, PotNew
  <2> QED
    BY <2>1, <2>3, PotParts DEF T, U
<1>7. \A m \in Nids : Pot(m) \in Nat
  BY DEF Numbers
<1>8. ASSUME NEW sig, NEW id, NEW price, NEW limit, NEW ratio, NEW start, NEW end,
             SetRushSale(sig, id, price, limit, ratio, start, end)
      PROVE  \A m \in Nids : Pot(m)' = Pot(m)
  <2> DEFINE row == [sales[id] EXCEPT !.price = price, !.max_grabs_per_user = limit,
                       !.win_ratio = ratio, !.started_at = start, !.ended_at = end]
  <2>1. id \in DOMAIN sales /\ UNCHANGED upgrades /\ sales' = [sales EXCEPT ![id] = row]
    BY <1>8 DEF SetRushSale
  <2>2. sales[id] \in RushSale
    BY <2>1 DEF GrabInv, Balanced, SaleOK
  <2>3. row.ticket_id = sales[id].ticket_id /\ row.available = sales[id].available + 0
    BY <2>2 DEF RushSale
  <2> HIDE DEF row
  <2>4. RowMoved(sales, sales', id, 0)
    BY <2>1, <2>3 DEF RowMoved
  <2>5. \A m : Pot(m)' = Pot(m) + (IF m = sales[id].ticket_id THEN 0 ELSE 0)
    BY <2>1, <2>4, SalePot
  <2> QED
    BY <1>7, <2>5
<1>9. ASSUME NEW sig, NEW id, NEW pay, NEW ratio, NEW start, NEW end,
             SetUpgrade(sig, id, pay, ratio, start, end)
      PROVE  \A m \in Nids : Pot(m)' = Pot(m)
  <2> DEFINE row == [upgrades[id] EXCEPT !.pay_tickets = pay, !.win_ratio = ratio,
                       !.started_at = start, !.ended_at = end]
  <2>1. id \in DOMAIN upgrades /\ UNCHANGED sales /\ upgrades' = [upgrades EXCEPT ![id] = row]
    BY <1>9 DEF SetUpgrade
  <2>2. upgrades[id] \in RushUpgrade
    BY <2>1 DEF GrabInv, Balanced, UpgradeOK
  <2>3. row.ticket_id = upgrades[id].ticket_id /\ row.available = upgrades[id].available + 0
    BY <2>2 DEF RushUpgrade
  <2> HIDE DEF row
  <2>4. RowMoved(upgrades, upgrades', id, 0)
    BY <2>1, <2>3 DEF RowMoved
  <2>5. \A m : Pot(m)' = Pot(m) + (IF m = upgrades[id].ticket_id THEN 0 ELSE 0)
    BY <2>1, <2>4, UpgradePot
  <2> QED
    BY <1>7, <2>5
<1>10. \A m \in Nids : Pot(m)' = Pot(m)
  BY <1>5, <1>6, <1>8, <1>9 DEF Campaigns
<1> QED
  BY <1>1, <1>2, <1>10, PotsRest

\* A prize given up by a step in which grab.cisum pays it or keeps it.
PrizePaid(m, k) ==
  \A n \in Nids :
    /\ Pot(n)' = Pot(n) - (IF n = m THEN k ELSE 0)
    /\ bal'[GRAB][n] = bal[GRAB][n] - (IF PaysTickets /\ n = m THEN k ELSE 0)

\* Paying k of type m out of the pot leaves the rest covered.
LEMMA PaidCustody ==
  ASSUME Numbers, Numbers', UNCHANGED logs, NEW m \in Nids, NEW k \in Nat, PrizePaid(m, k)
  PROVE  StrayKept /\ (PaysTickets => Reclaimed(m, k))
<1>1. \A n \in Nids : Staked(logs, n)' = Staked(logs, n)
  BY DEF Staked
<1>2. ASSUME NEW n \in Nids
      PROVE  Stray(n)' >= Stray(n) /\ (PaysTickets => Stray(n)' = Stray(n))
  <2> DEFINE d == IF n = m THEN k ELSE 0
             e == IF PaysTickets /\ n = m THEN k ELSE 0
  <2>1. d \in Nat /\ e \in Nat /\ e <= d /\ (PaysTickets => e = d)
    OBVIOUS
  <2>2. /\ bal[GRAB][n] \in Nat /\ Pot(n) \in Nat /\ Staked(logs, n) \in Nat
    BY DEF Numbers
  <2>3. /\ Pot(n)' = Pot(n) - d /\ bal'[GRAB][n] = bal[GRAB][n] - e
        /\ Staked(logs, n)' = Staked(logs, n)
    BY <1>1 DEF PrizePaid
  <2> HIDE DEF d, e
  <2>4. /\ Stray(n) = bal[GRAB][n] - Pot(n) - Staked(logs, n)
        /\ Stray(n)' = bal'[GRAB][n] - Pot(n)' - Staked(logs, n)'
    BY DEF Stray
  <2> QED
    BY <2>1, <2>2, <2>3, <2>4
<1>3. \A n \in Nids : Pot(n)' = Pot(n) - (IF n = m THEN k ELSE 0)
  BY DEF PrizePaid
<1> QED
  BY <1>1, <1>2, <1>3 DEF StrayKept, Reclaimed

\* A draw of a sale pays one prize, or none.
LEMMA GrabCustody ==
  ASSUME GrabInv, Numbers, Numbers', IsHoldings(bal), NEW u \in Fans, NEW id, NEW g, NEW paid,
         Grab(u, id, g, paid)
  PROVE  InCustody
<1>1. /\ id \in DOMAIN sales /\ UNCHANGED <<upgrades, logs>>
      /\ \E rnd \in 0..RatioBase - 1 :
           /\ sales' = [sales EXCEPT ![id] = Drawn(@, rnd < sales[id].win_ratio)]
           /\ IF rnd < sales[id].win_ratio THEN PayOut(u, Single(sales[id].ticket_id, 1))
                                           ELSE UNCHANGED nftVars
  BY DEF Grab
<1> DEFINE m == sales[id].ticket_id
<1>2. PICK win \in BOOLEAN :
        /\ sales' = [sales EXCEPT ![id] = Drawn(sales[id], win)]
        /\ IF win THEN PayOut(u, Single(m, 1)) ELSE UNCHANGED nftVars
  <2>1. PICK rnd \in 0..RatioBase - 1 :
           /\ sales' = [sales EXCEPT ![id] = Drawn(@, rnd < sales[id].win_ratio)]
           /\ IF rnd < sales[id].win_ratio THEN PayOut(u, Single(sales[id].ticket_id, 1))
                                           ELSE UNCHANGED nftVars
    BY <1>1
  <2> DEFINE win == rnd < sales[id].win_ratio
  <2>2. /\ sales' = [sales EXCEPT ![id] = Drawn(sales[id], win)]
        /\ IF win THEN PayOut(u, Single(m, 1)) ELSE UNCHANGED nftVars
    BY <1>1, <2>1
  <2>3. win \in BOOLEAN
    OBVIOUS
  <2> HIDE DEF win
  <2> QED
    BY <2>2, <2>3
<1> DEFINE k == IF win THEN 1 ELSE 0
<1>3. SaleOK(sales[id])
  BY <1>1 DEF GrabInv, Balanced
<1>4. /\ m \in Nids /\ sales[id].available \in Nat
      /\ Drawn(sales[id], win).ticket_id = m
      /\ Drawn(sales[id], win).available = sales[id].available - k
  <2>1. 0 \in Nat
    OBVIOUS
  <2> QED
    BY <1>3, <2>1, CampaignRow
<1>5. k \in Nat /\ \A n : (IF n = m THEN -k ELSE 0) = -(IF n = m THEN k ELSE 0)
  OBVIOUS
<1> HIDE DEF k
<1>6. RowMoved(sales, sales', id, -k)
  BY <1>1, <1>2, <1>4, <1>5 DEF RowMoved
<1>7. \A n : Pot(n)' = Pot(n) + (IF n = m THEN -k ELSE 0)
  BY <1>1, <1>6, SalePot
<1>8. /\ u \in Accounts /\ u # GRAB /\ GRAB \in Accounts
      /\ \A n \in Nids : bal[GRAB][n] \in Nat
  BY ShowAssumption DEF ShowAssumption, IsHoldings
<1>9. \A n \in Nids : bal'[GRAB][n] = bal[GRAB][n] - (IF PaysTickets /\ n = m THEN k ELSE 0)
  <2>1. CASE win
    <3>1. Single(m, 1) \in [Nids -> Nat]
      BY DEF Single
    <3>2. \A n \in Nids : bal'[GRAB][n]
            = bal[GRAB][n] - (IF PaysTickets THEN Single(m, 1)[n] ELSE 0)
      BY <1>2, <1>8, <2>1, <3>1, PayOutMoves
    <3> QED
      BY <1>8, <2>1, <3>2 DEF k, Single
  <2>2. CASE ~win
    <3>1. UNCHANGED bal
      BY <1>2, <2>2 DEF nftVars
    <3> QED
      BY <1>8, <2>2, <3>1 DEF k
  <2> QED
    BY <2>1, <2>2
<1>10. \A n \in Nids : Pot(n)' = Pot(n) - (IF n = m THEN k ELSE 0)
  <2>1. \A n \in Nids : Pot(n) \in Nat
    BY DEF Numbers
  <2> QED
    BY <1>5, <1>7, <2>1
<1>11. PrizePaid(m, k)
  BY <1>9, <1>10 DEF PrizePaid
<1>12. StrayKept /\ (PaysTickets => Reclaimed(m, k))
  BY <1>1, <1>4, <1>5, <1>11, PaidCustody
<1>13. CASE win
  <2>1. Reclaimed(m, 1) => Won(m)
    BY DEF Reclaimed, Won
  <2> QED
    BY <1>4, <1>12, <1>13, <2>1 DEF InCustody, CustodyStep, k
<1>14. CASE ~win
  <2>1. UNCHANGED bal /\ k = 0
    BY <1>2, <1>14 DEF nftVars, k
  <2>2. \A n \in Nids : Pot(n)' = Pot(n)
    BY <1>10, <2>1 DEF Numbers
  <2>3. \A n \in Nids : bal'[GRAB][n] >= bal[GRAB][n]
    BY <1>8, <2>1
  <2> QED
    BY <1>1, <2>2, <2>3, PotsRest
<1> QED
  BY <1>13, <1>14

\* What a campaign gives back leaves the pot.
LEMMA BackMoves ==
  ASSUME IsHoldings(bal), NEW s, NEW m \in Nids, NEW k \in Nat, BackToShow(s, m, k)
  PROVE  \A n \in Nids : bal'[GRAB][n] = bal[GRAB][n] - (IF PaysTickets /\ n = m THEN k ELSE 0)
<1>1. SHOW \in Accounts /\ SHOW # GRAB /\ GRAB \in Accounts
  BY ShowAssumption DEF ShowAssumption
<1>2. Single(m, k) \in [Nids -> Nat] /\ \A n \in Nids : Single(m, k)[n] = IF n = m THEN k ELSE 0
  BY DEF Single
<1>3. \A n \in Nids : bal'[GRAB][n]
        = bal[GRAB][n] - (IF PaysTickets THEN Single(m, k)[n] ELSE 0)
  BY <1>1, <1>2, PayOutMoves DEF BackToShow
<1> QED
  BY <1>2, <1>3

\* A take-back is paid out of the pot.
LEMMA TakeBackCustody ==
  ASSUME GrabInv, Numbers, Numbers', IsHoldings(bal), TakeBack
  PROVE  InCustody
<1>1. ASSUME NEW m \in Nids, NEW k \in Amounts, NEW s, BackToShow(s, m, k), UNCHANGED logs,
             \A n : Pot(n)' = Pot(n) + (IF n = m THEN -k ELSE 0)
      PROVE  InCustody
  <2>1. k \in Nat \ {0}
    BY NftAssumption DEF NftAssumption
  <2>2. \A n \in Nids : bal'[GRAB][n] = bal[GRAB][n] - (IF PaysTickets /\ n = m THEN k ELSE 0)
    BY <1>1, <2>1, BackMoves
  <2>3. \A n \in Nids : Pot(n) \in Nat
    BY DEF Numbers
  <2>4. \A n \in Nids : Pot(n)' = Pot(n) - (IF n = m THEN k ELSE 0)
    BY <1>1, <2>1, <2>3
  <2>5. PrizePaid(m, k)
    BY <2>2, <2>4 DEF PrizePaid
  <2>6. StrayKept /\ (PaysTickets => Reclaimed(m, k))
    BY <1>1, <2>1, <2>5, PaidCustody
  <2> QED
    BY <2>1, <2>6 DEF InCustody, CustodyStep
<1>2. ASSUME NEW sig, NEW k \in Amounts, NEW id \in DOMAIN sales, SubRushSale(sig, id, k)
      PROVE  InCustody
  <2>1. /\ sales' = [sales EXCEPT ![id] = TakenBack(sales[id], k)]
        /\ BackToShow(sales[id].show_id, sales[id].ticket_id, k)
        /\ UNCHANGED <<upgrades, logs>>
    BY <1>2 DEF SubRushSale
  <2>2. SaleOK(sales[id]) /\ k \in Nat
    BY NftAssumption DEF GrabInv, Balanced, NftAssumption
  <2>3. /\ sales[id].ticket_id \in Nids /\ sales[id].available \in Nat
        /\ TakenBack(sales[id], k).ticket_id = sales[id].ticket_id
        /\ TakenBack(sales[id], k).available = sales[id].available - k
    BY <2>2, CampaignRow
  <2>4. RowMoved(sales, sales', id, -k)
    BY <2>1, <2>2, <2>3 DEF RowMoved
  <2>5. \A n : Pot(n)' = Pot(n) + (IF n = sales[id].ticket_id THEN -k ELSE 0)
    BY <2>1, <2>4, SalePot
  <2> QED
    BY <1>1, <2>1, <2>3, <2>5
<1>3. ASSUME NEW sig, NEW k \in Amounts, NEW id \in DOMAIN upgrades, SubRushUpgrade(sig, id, k)
      PROVE  InCustody
  <2>1. /\ upgrades' = [upgrades EXCEPT ![id] = TakenBack(upgrades[id], k)]
        /\ BackToShow(upgrades[id].show_id, upgrades[id].ticket_id, k)
        /\ UNCHANGED <<sales, logs>>
    BY <1>3 DEF SubRushUpgrade
  <2>2. UpgradeOK(upgrades[id]) /\ k \in Nat
    BY NftAssumption DEF GrabInv, Balanced, NftAssumption
  <2>3. /\ upgrades[id].ticket_id \in Nids /\ upgrades[id].available \in Nat
        /\ TakenBack(upgrades[id], k).ticket_id = upgrades[id].ticket_id
        /\ TakenBack(upgrades[id], k).available = upgrades[id].available - k
    BY <2>2, CampaignRow
  <2>4. RowMoved(upgrades, upgrades', id, -k)
    BY <2>1, <2>2, <2>3 DEF RowMoved
  <2>5. \A n : Pot(n)' = Pot(n) + (IF n = upgrades[id].ticket_id THEN -k ELSE 0)
    BY <2>1, <2>4, UpgradePot
  <2> QED
    BY <1>1, <2>1, <2>3, <2>5
<1> QED
  BY <1>2, <1>3 DEF TakeBack

\* A draw of an upgrade: the stake comes in, and a prize of another type may
\* go out.
StakeDiffers ==
  \A id \in DOMAIN upgrades : upgrades[id].pay_tickets.nid # upgrades[id].ticket_id

\* A draw of an upgrade adds the stake it is paid with.
LEMMA DrawStakes ==
  ASSUME GrabInv, NEW u \in Accounts, NEW g \in GrabIds, NEW id \in DOMAIN upgrades,
         NEW win \in BOOLEAN, NEW extra, DrawEffect(u, id, g, extra, win)
  PROVE  \A n : Staked(logs, n)' = Staked(logs, n)
           + (IF n = upgrades[id].pay_tickets.nid THEN upgrades[id].pay_tickets.amount ELSE 0)
<1> DEFINE pay == upgrades[id].pay_tickets
           log == [scope |-> id, id |-> lastOrderId + 1, grab_id |-> g, account |-> u,
                   from |-> pay, win |-> win]
<1>1. pay \in NAsset /\ id \in Nat /\ lastOrderId \in Nat
  BY DEF GrabInv, Balanced, UpgradeOK, RushUpgrade, Numbering
<1>2. log \in UpgradeLog
  BY <1>1 DEF UpgradeLog
<1>3. logs \subseteq UpgradeLog /\ IsFiniteSet(logs)
  BY RowsFinite DEF GrabInv, RowsOK
<1>4. log \notin logs
  <2>1. \A row \in logs : row.id <= lastOrderId
    BY DEF GrabInv, RowsOK
  <2>2. log.id = lastOrderId + 1
    OBVIOUS
  <2> HIDE DEF log
  <2> QED
    BY <1>1, <2>1, <2>2
<1>5. logs' = logs \cup {log} /\ log.from = pay
  BY DEF DrawEffect
<1> HIDE DEF log
<1>6. \A n : Staked(logs \cup {log}, n)
        = Staked(logs, n) + (IF log.from.nid = n THEN log.from.amount ELSE 0)
  BY <1>2, <1>3, <1>4, StakedMore
<1>7. \A n : Staked(logs, n)' = Staked(logs', n)
  BY DEF Staked
<1> QED
  BY <1>5, <1>6, <1>7

\* An upgrade draw takes a stake in and may pay a prize.
LEMMA UpgradeDrawCustody ==
  ASSUME GrabInv, StakeDiffers, Numbers, Numbers', IsHoldings(bal), NEW u \in Fans,
         NEW g \in GrabIds, NEW id, NEW extra \in Extras, RushUpgradeDraw(u, id, g, extra)
  PROVE  InCustody
<1>1. u \in Accounts /\ extra \in [Nids -> Nat] /\ id \in DOMAIN upgrades
  BY Parties, GrabAssumption DEF GrabAssumption, RushUpgradeDraw
<1>2. PICK win \in BOOLEAN : DrawEffect(u, id, g, extra, win)
  BY <1>1, DrawEffects
<1> DEFINE pay == upgrades[id].pay_tickets
           s == pay.nid
           q == pay.amount
           m == upgrades[id].ticket_id
           k == IF win THEN 1 ELSE 0
           out == IF win /\ PaysTickets THEN 1 ELSE 0
<1>3. UpgradeOK(upgrades[id]) /\ pay \in NAsset
  BY <1>1 DEF GrabInv, Balanced, UpgradeOK, RushUpgrade
<1>4. s \in Nids /\ q \in Nat \ {0} /\ s # m
  BY <1>1, <1>3 DEF NAsset, StakeDiffers
<1>5. /\ k \in {0, 1} /\ out \in {0, 1} /\ out <= k
  OBVIOUS
<1>6. /\ m \in Nids /\ upgrades[id].available \in Nat
      /\ Drawn(upgrades[id], win).ticket_id = m
      /\ Drawn(upgrades[id], win).available = upgrades[id].available - k
  <2>1. 0 \in Nat
    OBVIOUS
  <2> QED
    BY <1>3, <2>1, CampaignRow
<1>7. /\ upgrades' = [upgrades EXCEPT ![id] = Drawn(upgrades[id], win)]
      /\ UNCHANGED sales
  BY <1>2 DEF DrawEffect
<1>8. \A n \in Nids : bal'[GRAB][n]
        = bal[GRAB][n] + extra[n] + (IF n = s THEN q ELSE 0) - (IF n = m THEN out ELSE 0)
  BY <1>2 DEF DrawEffect, DrawMoves
<1>9. \A n : Staked(logs, n)' = Staked(logs, n) + (IF n = s THEN q ELSE 0)
  BY <1>1, <1>2, DrawStakes
<1> HIDE DEF k, out, s, q, m, pay
<1>10. RowMoved(upgrades, upgrades', id, -k)
  BY <1>1, <1>5, <1>6, <1>7 DEF RowMoved, m
<1>11. \A n : Pot(n)' = Pot(n) + (IF n = m THEN -k ELSE 0)
  BY <1>7, <1>10, UpgradePot DEF m
<1>12. ASSUME NEW n \in Nids
       PROVE  /\ Pot(n)' = Pot(n) - (IF n = m THEN k ELSE 0)
              /\ Stray(n)' >= Stray(n)
  <2> DEFINE x == IF n = s THEN q ELSE 0
             y == IF n = m THEN k ELSE 0
             z == IF n = m THEN out ELSE 0
  <2>1. x \in Nat /\ y \in Nat /\ z \in Nat /\ z <= y /\ (IF n = m THEN -k ELSE 0) = -y
    BY <1>4, <1>5
  <2>2. bal[GRAB][n] \in Nat /\ Pot(n) \in Nat /\ Staked(logs, n) \in Nat /\ extra[n] \in Nat
    BY <1>1 DEF Numbers
  <2>3. /\ bal'[GRAB][n] = bal[GRAB][n] + extra[n] + x - z
        /\ Staked(logs, n)' = Staked(logs, n) + x
        /\ Pot(n)' = Pot(n) + (IF n = m THEN -k ELSE 0)
    BY <1>8, <1>9, <1>11
  <2>4. /\ Stray(n) = bal[GRAB][n] - Pot(n) - Staked(logs, n)
        /\ Stray(n)' = bal'[GRAB][n] - Pot(n)' - Staked(logs, n)'
    BY DEF Stray
  <2> HIDE DEF x, y, z
  <2>5. Pot(n)' = Pot(n) - y
    BY <2>1, <2>2, <2>3
  <2>6. Stray(n)' >= Stray(n)
    BY <2>1, <2>2, <2>3, <2>4, <2>5
  <2> QED
    BY <2>5, <2>6 DEF y
<1>13. StrayKept
  BY <1>12 DEF StrayKept
<1>14. TakenIn(s, q, m, k)
  BY <1>9, <1>12, <1>13 DEF TakenIn
<1> QED
  BY <1>4, <1>5, <1>6, <1>13, <1>14 DEF InCustody, CustodyStep

\* A campaign that goes leaves its unclaimed prizes behind.
LEMMA SaleGone ==
  ASSUME GrabInv, NEW id \in DOMAIN sales, sales' = Drop(sales, id), UNCHANGED upgrades
  PROVE  \A n : Pot(n)' = Pot(n) - (IF n = sales[id].ticket_id THEN sales[id].available ELSE 0)
<1> TAKE n
<1> DEFINE T == sales
           U == sales'
           e == IF T[id].ticket_id = n THEN T[id].available ELSE 0
<1>1. PotTable(T) /\ PotTable(upgrades) /\ id \in DOMAIN T /\ U = Drop(T, id)
  BY PotTables
<1>2. e \in Nat
  BY <1>1 DEF PotTable
<1>3. PotOf(U, n) = PotOf(T, n) - e
  <2> HIDE DEF T, U
  <2> QED
    BY <1>1, PotDropped
<1>4. PotOf(T, n) \in Nat /\ PotOf(upgrades, n) \in Nat
  BY <1>1, PotOfIsNat
<1>5. /\ Pot(n) = PotOf(T, n) + PotOf(upgrades, n)
      /\ Pot(n)' = PotOf(U, n) + PotOf(upgrades, n)
  BY PotParts
<1>6. Pot(n)' = Pot(n) - e
  <2> HIDE DEF e, T, U
  <2> QED
    BY <1>2, <1>3, <1>4, <1>5
<1> QED
  BY <1>6

\* A closed upgrade takes its prizes out of the pot.
LEMMA UpgradeGone ==
  ASSUME GrabInv, NEW id \in DOMAIN upgrades, upgrades' = Drop(upgrades, id), UNCHANGED sales
  PROVE  \A n : Pot(n)' = Pot(n)
           - (IF n = upgrades[id].ticket_id THEN upgrades[id].available ELSE 0)
<1> TAKE n
<1> DEFINE T == upgrades
           U == upgrades'
           e == IF T[id].ticket_id = n THEN T[id].available ELSE 0
<1>1. PotTable(T) /\ PotTable(sales) /\ id \in DOMAIN T /\ U = Drop(T, id)
  BY PotTables
<1>2. e \in Nat
  BY <1>1 DEF PotTable
<1>3. PotOf(U, n) = PotOf(T, n) - e
  <2> HIDE DEF T, U
  <2> QED
    BY <1>1, PotDropped
<1>4. PotOf(T, n) \in Nat /\ PotOf(sales, n) \in Nat
  BY <1>1, PotOfIsNat
<1>5. /\ Pot(n) = PotOf(sales, n) + PotOf(T, n)
      /\ Pot(n)' = PotOf(sales, n) + PotOf(U, n)
  BY PotParts
<1>6. Pot(n)' = Pot(n) - e
  <2> HIDE DEF e, T, U
  <2> QED
    BY <1>2, <1>3, <1>4, <1>5
<1> QED
  BY <1>6

\* Stakes leave the escrow, all of them paid or some of them not, and k prizes
\* of type m are given up.
SettledBy(m, k, gone, paid) ==
  \A n \in Nids :
    /\ Pot(n)' = Pot(n) - (IF n = m THEN k ELSE 0)
    /\ gone[n] \in Nat /\ paid[n] \in Nat /\ paid[n] <= gone[n]
    /\ Staked(logs, n)' = Staked(logs, n) - gone[n]
    /\ bal'[GRAB][n] = bal[GRAB][n] - paid[n]

\* A page of settled stakes pays no more than it clears.
LEMMA SettleCustody ==
  ASSUME Numbers, Numbers', NEW m \in Nids, NEW k \in Nat, NEW gone, NEW paid,
         SettledBy(m, k, gone, paid),
         PaysTickets => \A n \in Nids : paid[n] = gone[n]
  PROVE  InCustody
<1>1. ASSUME NEW n \in Nids
      PROVE  /\ Stray(n)' >= Stray(n) /\ Staked(logs, n)' <= Staked(logs, n)
             /\ Pot(n)' = Pot(n) - (IF n = m THEN k ELSE 0)
             /\ PaysTickets => Pot(n)' + Stray(n)' = Pot(n) + Stray(n)
  <2> DEFINE d == IF n = m THEN k ELSE 0
             e == gone[n]
             p == paid[n]
  <2>1. /\ d \in Nat /\ e \in Nat /\ p \in Nat /\ p <= e
        /\ Pot(n)' = Pot(n) - d
        /\ Staked(logs, n)' = Staked(logs, n) - e /\ bal'[GRAB][n] = bal[GRAB][n] - p
        /\ PaysTickets => p = e
    BY DEF SettledBy
  <2>2. bal[GRAB][n] \in Nat /\ Pot(n) \in Nat /\ Staked(logs, n) \in Nat
    BY DEF Numbers
  <2>3. /\ Stray(n) = bal[GRAB][n] - Pot(n) - Staked(logs, n)
        /\ Stray(n)' = bal'[GRAB][n] - Pot(n)' - Staked(logs, n)'
    BY DEF Stray
  <2> HIDE DEF d, e, p
  <2>4. /\ Stray(n)' >= Stray(n) /\ Staked(logs, n)' <= Staked(logs, n)
        /\ Pot(n)' = Pot(n) - d
        /\ PaysTickets => Pot(n)' + Stray(n)' = Pot(n) + Stray(n)
    BY <2>1, <2>2, <2>3
  <2> QED
    BY <2>4 DEF d
<1>2. StrayKept
  BY <1>1 DEF StrayKept
<1>3. PaysTickets => Settled(m, k)
  BY <1>1, <1>2 DEF Settled
<1> QED
  BY <1>2, <1>3 DEF InCustody, CustodyStep

\* A cleanup pays stakes, never prizes.
LEMMA CleanupCustody ==
  ASSUME GrabInv, Numbers, Numbers', IsHoldings(bal), Cleanup
  PROVE  InCustody
<1>1. GRAB \in Accounts /\ \A n \in Nids : bal[GRAB][n] \in Nat /\ Pot(n) \in Nat
  BY Parties DEF Numbers
<1>2. logs \subseteq UpgradeLog /\ IsFiniteSet(logs)
  BY RowsFinite DEF GrabInv, RowsOK
<1>3. \A n \in Nids : Staked(logs, n) \in Nat
  BY DEF Numbers
<1>4. ASSUME NEW sig, NEW id \in DOMAIN sales, NEW forced, DelRushSale(sig, id, forced),
             UNCHANGED nftVars
      PROVE  InCustody
  <2>1. UNCHANGED <<upgrades, logs, bal>> /\ (UNCHANGED sales \/ sales' = Drop(sales, id))
    BY <1>4 DEF DelRushSale, nftVars
  <2>2. CASE UNCHANGED sales
    <3>1. \A n \in Nids : bal'[GRAB][n] >= bal[GRAB][n]
      BY <1>1, <2>1
    <3> QED
      BY <2>1, <2>2, <3>1, CustodyRests
  <2>3. CASE sales' = Drop(sales, id)
    <3> DEFINE m == sales[id].ticket_id
               k == sales[id].available
               none == [n \in Nids |-> 0]
    <3>1. m \in Nids /\ k \in Nat
      BY DEF GrabInv, Balanced, SaleOK, RushSale
    <3>2. \A n : Pot(n)' = Pot(n) - (IF n = m THEN k ELSE 0)
      BY <2>1, <2>3, SaleGone
    <3>3. \A n : Staked(logs, n)' = Staked(logs, n)
      BY <2>1 DEF Staked
    <3>4. \A n \in Nids : none[n] = 0
      OBVIOUS
    <3> HIDE DEF m, k, none
    <3>5. \A n \in Nids : bal'[GRAB][n] = bal[GRAB][n] - none[n]
      BY <1>1, <2>1, <3>4
    <3>6. \A n \in Nids : Staked(logs, n)' = Staked(logs, n) - none[n]
      BY <1>3, <3>3, <3>4
    <3>7. SettledBy(m, k, none, none)
      BY <3>2, <3>4, <3>5, <3>6 DEF SettledBy
    <3> QED
      BY <3>1, <3>7, SettleCustody
  <2> QED
    BY <2>1, <2>2, <2>3
<1>5. ASSUME NEW sig, NEW id \in DOMAIN upgrades, DelUpgrade(sig, id)
      PROVE  InCustody
  <2> DEFINE page == Page(InScope(logs, id), MaxUpgrade)
             paid == Payable(page)
             gone == [n \in Nids |-> Staked(page, n)]
             sent == [n \in Nids |-> Staked(paid, n)]
             m == upgrades[id].ticket_id
             k == IF UNCHANGED upgrades THEN 0 ELSE upgrades[id].available
  <2>1. /\ logs' = logs \ page /\ UNCHANGED sales
        /\ UNCHANGED upgrades \/ upgrades' = Drop(upgrades, id)
    BY <1>5 DEF DelUpgrade
  <2>2. /\ page \in SUBSET logs /\ paid \in SUBSET page
        /\ PaysTickets => paid = page
    BY DEF Page, InScope, Payable
  <2>3. /\ m \in Nids /\ upgrades[id].available \in Nat /\ k \in Nat
    BY DEF GrabInv, Balanced, UpgradeOK, RushUpgrade
  <2>4. \A n \in Nids : bal'[GRAB][n] = bal[GRAB][n] - Staked(paid, n)
    <3> HIDE DEF page
    <3>1. paid = Payable(Page(InScope(logs, id), MaxUpgrade))
      BY DEF page
    <3> HIDE DEF paid
    <3> QED
      BY <1>5, <3>1, SettleLedger
  <2>5. \A n : Pot(n)' = Pot(n) - (IF n = m THEN upgrades[id].available ELSE 0)
          \/ (UNCHANGED upgrades /\ Pot(n)' = Pot(n))
    <3>1. CASE upgrades' = Drop(upgrades, id)
      BY <2>1, <3>1, UpgradeGone
    <3>2. CASE UNCHANGED upgrades
      <4>1. \A n : Pot(n)' = Pot(n)
        BY <2>1, <3>2 DEF Pot
      <4> QED
        BY <3>2, <4>1
    <3> QED
      BY <2>1, <3>1, <3>2
  <2>6. \A n \in Nids : Pot(n)' = Pot(n) - (IF n = m THEN k ELSE 0)
    <3>1. CASE UNCHANGED upgrades
      <4>1. \A n : Pot(n)' = Pot(n)
        BY <2>1, <3>1 DEF Pot
      <4> QED
        BY <1>1, <3>1, <4>1
    <3>2. CASE ~ UNCHANGED upgrades
      BY <2>5, <3>2
    <3> QED
      BY <3>1, <3>2
  <2> HIDE DEF page, paid, k, m
  <2>7. /\ page \subseteq UpgradeLog /\ IsFiniteSet(page)
        /\ paid \subseteq UpgradeLog /\ IsFiniteSet(paid)
    BY <1>2, <2>2, FS_Subset
  <2>8. \A n : Staked(page, n) \in Nat /\ Staked(paid, n) \in Nat
    BY <2>7, StakedIsNat
  <2>9. \A n : Staked(paid, n) <= Staked(page, n)
    BY <2>2, <2>7, StakedInPart
  <2>10. \A n : Staked(logs, n) = Staked(page, n) + Staked(logs \ page, n)
    BY <1>2, <2>2, StakedInParts
  <2>11. \A n : Staked(logs, n)' = Staked(logs', n)
    BY DEF Staked
  <2>12. logs \ page \subseteq UpgradeLog /\ IsFiniteSet(logs \ page)
    BY <1>2, FS_Subset
  <2>13. \A n : Staked(logs \ page, n) \in Nat
    BY <2>12, StakedIsNat
  <2>14. \A n \in Nids : Staked(logs, n)' = Staked(logs, n) - Staked(page, n)
    BY <2>1, <2>8, <2>10, <2>11, <2>13
  <2>15. SettledBy(m, k, gone, sent)
    BY <2>4, <2>6, <2>8, <2>9, <2>14 DEF SettledBy
  <2>16. PaysTickets => \A n \in Nids : sent[n] = gone[n]
    BY <2>2
  <2> HIDE DEF gone, sent
  <2> QED
    BY <2>3, <2>15, <2>16, SettleCustody DEF m
<1> QED
  BY <1>4, <1>5 DEF Cleanup

\* The table R opens the campaigns of S, numbered from the rush sale counter.
Stocks(R, items, S) ==
  /\ DOMAIN R = {lastRushId + i : i \in S}
  /\ \A i \in S : /\ R[lastRushId + i].ticket_id = items[i].nid
                  /\ R[lastRushId + i].available = items[i].count

CountOf(items, n) == [i \in DOMAIN items |-> IF items[i].nid = n THEN items[i].count ELSE 0]

\* New campaigns bring the sum of what they are stocked with.
LEMMA StocksPot ==
  ASSUME lastRushId \in Nat, NEW items \in Rushes, NEW S \in SUBSET DOMAIN items,
         NEW R, Stocks(R, items, S), NEW n
  PROVE  PotTable(R) /\ PotOf(R, n) = SumFunctionOnSet(CountOf(items, n), S)
<1> DEFINE h == CountOf(items, n)
           f == [i \in S |-> IF items[i].nid = n THEN items[i].count ELSE 0]
           T == DOMAIN R
           b == [i \in S |-> lastRushId + i]
           g == [x \in T |-> IF R[x].ticket_id = n THEN R[x].available ELSE 0]
<1>1. /\ DOMAIN items \subseteq Nat /\ IsFiniteSet(DOMAIN items)
      /\ \A i \in DOMAIN items : items[i].count \in Nat
  BY ItemCounts
<1>2. S \subseteq Nat /\ IsFiniteSet(S)
  BY <1>1, FS_Subset
<1>3. /\ T = {lastRushId + i : i \in S}
      /\ \A i \in S : /\ R[lastRushId + i].ticket_id = items[i].nid
                      /\ R[lastRushId + i].available = items[i].count
  BY DEF Stocks
<1>4. \A i \in S : lastRushId + i \in T
  BY <1>3
<1>5. \A x \in T : R[x].available \in Nat
  BY <1>1, <1>3
<1>6. b \in Injection(S, T) /\ b \in Surjection(S, T) /\ T = {b[i] : i \in S}
  <2>1. \A i, j \in S : b[i] = b[j] => i = j
    BY <1>2
  <2>2. b \in [S -> T]
    BY <1>4
  <2>3. T = {b[i] : i \in S}
    BY <1>3
  <2> HIDE DEF b
  <2> QED
    BY <2>1, <2>2, <2>3 DEF Injection, IsInjective, Surjection
<1>7. IsFiniteSet(T)
  <2> HIDE DEF b, T
  <2> QED
    BY <1>2, <1>6, FS_Surjection
<1>8. PotTable(R)
  BY <1>5, <1>7 DEF PotTable
<1>9. f \in [S -> Int] /\ g \in [T -> Int]
  BY <1>1, <1>5
<1>10. \A i \in S : g[b[i]] = f[i]
  BY <1>3, <1>4
<1>11. \A i \in S : h[i] = f[i]
  BY DEF CountOf
<1>12. PotOf(R, n) = SumFunction(g) /\ DOMAIN f = S
  BY DEF PotOf
<1> HIDE DEF f, g, h, b, T
<1>13. SumFunction(g) = SumFunction(f)
  BY <1>2, <1>6, <1>9, <1>10, SumReindex
<1>14. SumFunctionOnSet(h, S) = SumFunction(f)
  BY <1>2, <1>11, <1>12, SumOfTable
<1> QED
  BY <1>8, <1>12, <1>13, <1>14 DEF h

\* What a call of cisumshowman stocks goes into the new campaigns.
LEMMA AddUpgradesPot ==
  ASSUME GrabInv, NEW s \in ShowIds, NEW items \in Rushes, AddUpgrades(s, items), NEW n \in Nids
  PROVE  Pot(n)' = Pot(n) + Ordered(items, n)
<1> DEFINE D == DOMAIN items
           S == {j \in D : items[j].kind = "rushsale"}
           V == {j \in D : items[j].kind = "rushupgrade"}
           Ids(kind) == {lastRushId + i : i \in {j \in DOMAIN items : items[j].kind = kind}}
           Item(id) == items[id - lastRushId]
           R == [id \in Ids("rushsale") |->
                   Restocked(FreshSale(s, Item(id).nid, Item(id).window, Item(id).price,
                                       Item(id).limit, Item(id).ratio),
                             Item(id).count)]
           Q == [id \in Ids("rushupgrade") |->
                   Restocked(FreshUpgrade(s, Item(id).nid, Item(id).window,
                                          Item(id).pay, Item(id).ratio),
                             Item(id).count)]
           h == CountOf(items, n)
<1>1. sales' = PutAll(sales, R) /\ upgrades' = PutAll(upgrades, Q)
  BY AddUpgradesBooks
<1>2. /\ lastRushId \in Nat
      /\ DOMAIN sales \subseteq 0..lastRushId /\ DOMAIN upgrades \subseteq 0..lastRushId
  BY DEF GrabInv, Numbering
<1>3. /\ items \in Seq(SaleItem \cup UpgradeItem)
      /\ D \subseteq Nat \ {0} /\ IsFiniteSet(D)
      /\ \A i \in D : items[i].count \in Nat
  BY ItemCounts
<1>4. \A i \in D : items[i].kind \in {"rushsale", "rushupgrade"}
  BY <1>3 DEF SaleItem, UpgradeItem
<1>5. \A i \in D : lastRushId + i - lastRushId = i /\ lastRushId + i > lastRushId
  BY <1>2, <1>3
<1>6. Stocks(R, items, S)
  <2>1. DOMAIN R = {lastRushId + i : i \in S}
    OBVIOUS
  <2>2. ASSUME NEW i \in S
        PROVE  /\ R[lastRushId + i].ticket_id = items[i].nid
               /\ R[lastRushId + i].available = items[i].count
    <3>1. Item(lastRushId + i) = items[i] /\ lastRushId + i \in Ids("rushsale")
      <4> DEFINE x == lastRushId + i
      <4>1. i \in D /\ x \in Ids("rushsale")
        OBVIOUS
      <4>2. x - lastRushId = i
        <5>1. i \in Nat
          BY <1>3, <4>1
        <5> QED
          BY <1>2, <5>1
      <4> HIDE DEF x
      <4>3. Item(x) = items[i]
        BY <4>2
      <4> QED
        BY <4>1, <4>3 DEF x
    <3>2. R[lastRushId + i] =
            Restocked(FreshSale(s, items[i].nid, items[i].window, items[i].price,
                                items[i].limit, items[i].ratio), items[i].count)
      BY <3>1
    <3>3. 0 + items[i].count - 0 = items[i].count
      BY <1>3
    <3> HIDE DEF R, Ids, Item
    <3> QED
      BY <3>2, <3>3 DEF Restocked, FreshSale
  <2> HIDE DEF R
  <2> QED
    BY <2>1, <2>2 DEF Stocks
<1>7. Stocks(Q, items, V)
  <2>1. DOMAIN Q = {lastRushId + i : i \in V}
    OBVIOUS
  <2>2. ASSUME NEW i \in V
        PROVE  /\ Q[lastRushId + i].ticket_id = items[i].nid
               /\ Q[lastRushId + i].available = items[i].count
    <3>1. Item(lastRushId + i) = items[i] /\ lastRushId + i \in Ids("rushupgrade")
      <4> DEFINE x == lastRushId + i
      <4>1. i \in D /\ x \in Ids("rushupgrade")
        OBVIOUS
      <4>2. x - lastRushId = i
        <5>1. i \in Nat
          BY <1>3, <4>1
        <5> QED
          BY <1>2, <5>1
      <4> HIDE DEF x
      <4>3. Item(x) = items[i]
        BY <4>2
      <4> QED
        BY <4>1, <4>3 DEF x
    <3>2. Q[lastRushId + i] =
            Restocked(FreshUpgrade(s, items[i].nid, items[i].window, items[i].pay,
                                   items[i].ratio), items[i].count)
      BY <3>1
    <3>3. 0 + items[i].count - 0 = items[i].count
      BY <1>3
    <3> HIDE DEF Q, Ids, Item
    <3> QED
      BY <3>2, <3>3 DEF Restocked, FreshUpgrade
  <2> HIDE DEF Q
  <2> QED
    BY <2>1, <2>2 DEF Stocks
<1>8. S \in SUBSET D /\ V = D \ S
  BY <1>4
<1>9. h \in [D -> Int]
  BY <1>3 DEF CountOf
<1>10. Ordered(items, n) = SumFunction(h)
  BY DEF Ordered, Sent, CountOf
<1>11. \A x \in DOMAIN R \cup DOMAIN Q : x > lastRushId
  BY <1>5
<1>12. DOMAIN sales \cap DOMAIN R = {} /\ DOMAIN upgrades \cap DOMAIN Q = {}
  BY <1>2, <1>11
<1> HIDE DEF D, S, V, Ids, Item, R, Q, h
<1>13. SumFunction(h) = SumFunctionOnSet(h, S) + SumFunctionOnSet(h, V)
  BY <1>3, <1>8, <1>9, SumOnParts
<1>14. PotTable(R) /\ PotOf(R, n) = SumFunctionOnSet(h, S)
  BY <1>2, <1>6, <1>8, StocksPot DEF h, D
<1>15. PotTable(Q) /\ PotOf(Q, n) = SumFunctionOnSet(h, V)
  BY <1>2, <1>7, <1>8, StocksPot DEF h, D
<1>16. PotOf(sales', n) = PotOf(sales, n) + PotOf(R, n)
  BY <1>1, <1>12, <1>14, PotTables, PotMany
<1>17. PotOf(upgrades', n) = PotOf(upgrades, n) + PotOf(Q, n)
  BY <1>1, <1>12, <1>15, PotTables, PotMany
<1>18. PotOf(sales, n) \in Nat /\ PotOf(upgrades, n) \in Nat /\ PotOf(R, n) \in Nat
       /\ PotOf(Q, n) \in Nat
  BY <1>14, <1>15, PotTables, PotOfIsNat
<1> QED
  BY <1>10, <1>13, <1>14, <1>15, <1>16, <1>17, <1>18, PotParts

\* A batch moves from the stock what it books, kind by kind.
LEMMA AddUpgradesCustody ==
  ASSUME GrabInv, Numbers, Numbers', IsHoldings(bal), NEW s \in ShowIds, NEW items \in Rushes,
         AddUpgrades(s, items)
  PROVE  InCustody
<1> DEFINE more == [n \in Nids |-> Ordered(items, n)]
<1>1. more \in [Nids -> Nat]
  BY OrderedIsNat
<1>2. CanMove(bal, SHOW, GRAB, more) /\ bal' = Move(bal, SHOW, GRAB, more) /\ UNCHANGED logs
  BY DEF AddUpgrades, Ordered
<1>3. \A n \in Nids : Pot(n)' = Pot(n) + more[n]
  BY AddUpgradesPot
<1> HIDE DEF more
<1>4. \A n \in Nids : bal'[GRAB][n] = bal[GRAB][n] + more[n]
  BY <1>1, <1>2, Parties, MoveKeeps
<1>5. \A n \in Nids : bal'[GRAB][n] >= bal[GRAB][n] + more[n]
  BY <1>1, <1>4 DEF Numbers
<1> QED
  BY <1>1, <1>2, <1>3, <1>5, FundedBy

-----------------------------------------------------------------------------
(***************************************************************************)
(* No campaign takes the tickets it gives away as stakes.                  *)
(***************************************************************************)

SameStakes ==
  /\ DOMAIN upgrades' \subseteq DOMAIN upgrades
  /\ \A id \in DOMAIN upgrades' :
       /\ upgrades'[id].pay_tickets = upgrades[id].pay_tickets
       /\ upgrades'[id].ticket_id = upgrades[id].ticket_id

\* Upgrades that keep their stake and their prize.
LEMMA StakesStayDifferent ==
  ASSUME StakeDiffers, SameStakes
  PROVE  StakeDiffers'
BY DEF StakeDiffers, SameStakes

\* One upgrade is rewritten.
LEMMA StakeRewrite ==
  ASSUME GrabInv, StakeDiffers, NEW id \in DOMAIN upgrades, NEW row,
         upgrades' = [upgrades EXCEPT ![id] = row],
         row.pay_tickets.nid # row.ticket_id
  PROVE  StakeDiffers'
BY DEF StakeDiffers

\* The counters of an upgrade move, its stake and prize do not.
LEMMA StakeOfRow ==
  ASSUME NEW c, UpgradeOK(c)
  PROVE  /\ \A k \in Nat :
              /\ Restocked(c, k).pay_tickets = c.pay_tickets
              /\ Restocked(c, k).ticket_id = c.ticket_id
              /\ TakenBack(c, k).pay_tickets = c.pay_tickets
              /\ TakenBack(c, k).ticket_id = c.ticket_id
         /\ \A win \in BOOLEAN :
              /\ Drawn(c, win).pay_tickets = c.pay_tickets
              /\ Drawn(c, win).ticket_id = c.ticket_id
BY DEF UpgradeOK, RushUpgrade, Restocked, TakenBack, Drawn

\* Every step keeps the stake of an upgrade different from its prize.
LEMMA StakeStep ==
  ASSUME GrabInv, IsHoldings(bal), StakeDiffers, [Next]_vars
  PROVE  StakeDiffers'
<1>1. \A k \in Amounts : k \in Nat
  BY NftAssumption DEF NftAssumption
<1>2. \A id \in DOMAIN upgrades :
        UpgradeOK(upgrades[id]) /\ upgrades[id].pay_tickets.nid # upgrades[id].ticket_id
  BY DEF GrabInv, Balanced, StakeDiffers
<1>3. CASE UNCHANGED upgrades
  BY <1>3, StakesStayDifferent DEF SameStakes
<1>4. ASSUME NEW id, NEW n, NEW k \in Amounts, OnAddRushUpgrade(id, n, k)
      PROVE  StakeDiffers'
  <2>1. id \in DOMAIN upgrades /\ upgrades' = [upgrades EXCEPT ![id] = Restocked(upgrades[id], k)]
    BY <1>4 DEF OnAddRushUpgrade
  <2> QED
    BY <1>1, <1>2, <2>1, StakeOfRow, StakeRewrite
<1>5. ASSUME NEW sig, NEW id, NEW k \in Amounts, SubRushUpgrade(sig, id, k)
      PROVE  StakeDiffers'
  <2>1. id \in DOMAIN upgrades /\ upgrades' = [upgrades EXCEPT ![id] = TakenBack(upgrades[id], k)]
    BY <1>5 DEF SubRushUpgrade
  <2> QED
    BY <1>1, <1>2, <2>1, StakeOfRow, StakeRewrite
<1>6. ASSUME NEW u \in Fans, NEW g, NEW id, NEW extra \in Extras,
             RushUpgradeDraw(u, id, g, extra)
      PROVE  StakeDiffers'
  <2>1. u \in Accounts /\ extra \in [Nids -> Nat] /\ id \in DOMAIN upgrades
    BY <1>6, Parties, GrabAssumption DEF GrabAssumption, RushUpgradeDraw
  <2>2. PICK win \in BOOLEAN : DrawEffect(u, id, g, extra, win)
    BY <1>6, <2>1, DrawEffects
  <2>3. upgrades' = [upgrades EXCEPT ![id] = Drawn(upgrades[id], win)]
    BY <2>2 DEF DrawEffect
  <2> QED
    BY <1>2, <2>1, <2>3, StakeOfRow, StakeRewrite
<1>7. ASSUME NEW sig, NEW id, DelUpgrade(sig, id)
      PROVE  StakeDiffers'
  <2>1. UNCHANGED upgrades \/ upgrades' = Drop(upgrades, id)
    BY <1>7 DEF DelUpgrade
  <2>2. SameStakes
    BY <2>1 DEF SameStakes, Drop
  <2> QED
    BY <2>2, StakesStayDifferent
<1>8. ASSUME NEW sig, NEW s, NEW n, NEW pay, NEW w, NEW ratio,
             AddUpgrade(sig, s, n, pay, w, ratio)
      PROVE  StakeDiffers'
  <2>1. pay.nid # n
    BY <1>8 DEF AddUpgrade, CanAddUpgrade
  <2> DEFINE row == FreshUpgrade(s, n, w, pay, ratio)
  <2>2. row.pay_tickets = pay /\ row.ticket_id = n
    BY DEF FreshUpgrade
  <2>3. upgrades' = Put(upgrades, lastRushId + 1, row)
    BY <1>8 DEF AddUpgrade
  <2> HIDE DEF row
  <2> QED
    BY <1>2, <2>1, <2>2, <2>3 DEF Put, StakeDiffers
<1>9. ASSUME NEW sig, NEW id, NEW pay, NEW ratio, NEW start, NEW end,
             SetUpgrade(sig, id, pay, ratio, start, end)
      PROVE  StakeDiffers'
  <2> DEFINE row == [upgrades[id] EXCEPT !.pay_tickets = pay, !.win_ratio = ratio,
                       !.started_at = start, !.ended_at = end]
  <2>1. id \in DOMAIN upgrades /\ upgrades' = [upgrades EXCEPT ![id] = row]
    BY <1>9 DEF SetUpgrade
  <2>2. upgrades[id] \in RushUpgrade
    BY <2>1 DEF GrabInv, Balanced, UpgradeOK
  <2>3. row.ticket_id = upgrades[id].ticket_id /\ row.pay_tickets = pay
    BY <2>2 DEF RushUpgrade
  <2>4. pay.nid # upgrades[id].ticket_id
    BY <1>2, <1>9, <2>1 DEF SetUpgrade
  <2> HIDE DEF row
  <2> QED
    BY <2>1, <2>3, <2>4, StakeRewrite
<1>10. ASSUME NEW s \in ShowIds, NEW items \in Rushes, AddUpgrades(s, items)
       PROVE  StakeDiffers'
  <2> DEFINE V == {j \in DOMAIN items : items[j].kind = "rushupgrade"}
             ids == {lastRushId + i : i \in V}
             Item(id) == items[id - lastRushId]
             row(id) == Restocked(FreshUpgrade(s, Item(id).nid, Item(id).window,
                                               Item(id).pay, Item(id).ratio),
                                  Item(id).count)
  <2>1. upgrades' = PutAll(upgrades, [id \in ids |-> row(id)])
    BY <1>10, AddUpgradesBooks
  <2>2. lastRushId \in Nat /\ DOMAIN items \subseteq Nat
    BY ItemCounts DEF GrabInv, Numbering
  <2>3. \A id \in ids : id - lastRushId \in V
    BY <2>2
  <2>4. \A i \in V : items[i].pay.nid # items[i].nid
    BY <1>10 DEF AddUpgrades, CanAddUpgrade
  <2>5. \A id : row(id).pay_tickets = Item(id).pay /\ row(id).ticket_id = Item(id).nid
    BY DEF Restocked, FreshUpgrade
  <2> HIDE DEF row
  <2>6. \A id \in ids : row(id).pay_tickets.nid # row(id).ticket_id
    BY <2>3, <2>4, <2>5
  <2> HIDE DEF ids
  <2> QED
    BY <1>2, <2>1, <2>6 DEF PutAll, StakeDiffers
<1>11. CASE ShowSide \/ Ledger \/ GrabConfig \/ UNCHANGED vars
  BY <1>3, <1>11 DEF ShowSide, Ledger, GrabConfig, vars, grabVars
<1>12. CASE Showman
  <2>1. ASSUME NEW s, NEW dates, NEW free, NEW grades, PublishShow(s, dates, free, grades)
        PROVE  UNCHANGED upgrades
    BY <2>1 DEF PublishShow, grabVars
  <2> QED
    BY <1>3, <1>10, <1>12, <2>1 DEF Showman
<1>13. CASE Restock
  <2>1. ASSUME NEW id, NEW n, NEW k, OnAddRushSale(id, n, k)
        PROVE  UNCHANGED upgrades
    BY <2>1 DEF OnAddRushSale
  <2> QED
    BY <1>3, <1>4, <1>13, <2>1 DEF Restock
<1>14. CASE Draw
  <2>1. ASSUME NEW u, NEW id, NEW g, NEW paid, Grab(u, id, g, paid)
        PROVE  UNCHANGED upgrades
    BY <2>1 DEF Grab
  <2> QED
    BY <1>3, <1>6, <1>14, <2>1 DEF Draw
<1>15. CASE Campaigns
  <2>1. ASSUME NEW sig, NEW s, NEW n, NEW w, NEW price, NEW limit, NEW ratio,
               AddRushSale(sig, s, n, w, price, limit, ratio)
        PROVE  UNCHANGED upgrades
    BY <2>1 DEF AddRushSale
  <2>2. ASSUME NEW sig, NEW id, NEW price, NEW limit, NEW ratio, NEW start, NEW end,
               SetRushSale(sig, id, price, limit, ratio, start, end)
        PROVE  UNCHANGED upgrades
    BY <2>2 DEF SetRushSale
  <2> QED
    BY <1>3, <1>8, <1>9, <1>15, <2>1, <2>2 DEF Campaigns
<1>16. CASE Cleanup
  <2>1. ASSUME NEW sig, NEW id, NEW forced, DelRushSale(sig, id, forced)
        PROVE  UNCHANGED upgrades
    BY <2>1 DEF DelRushSale
  <2> QED
    BY <1>3, <1>7, <1>16, <2>1 DEF Cleanup
<1>17. CASE TakeBack
  <2>1. ASSUME NEW sig, NEW id, NEW k, SubRushSale(sig, id, k)
        PROVE  UNCHANGED upgrades
    BY <2>1 DEF SubRushSale
  <2> QED
    BY <1>3, <1>5, <1>17, <2>1 DEF TakeBack
<1> QED
  BY <1>11, <1>12, <1>13, <1>14, <1>15, <1>16, <1>17 DEF Next

-----------------------------------------------------------------------------
(***************************************************************************)
(* grab.cisum is solvent, and implements TicketCustody.                    *)
(***************************************************************************)

\* The invariant of the tickets in custody.
CustodyInv == GrabInv /\ StoreInv /\ StakeDiffers

\* The invariant makes counts of all that custody adds up.
LEMMA CustodyNumbers == CustodyInv => Numbers
BY NumbersHold DEF CustodyInv, StoreInv

\* Every step keeps the invariant.
LEMMA CustodyKept ==
  ASSUME CustodyInv, [Next]_vars
  PROVE  CustodyInv'
<1>1. GrabInv' /\ StoreInv'
  BY CirculationStep, StoreInvStep DEF CustodyInv
<1>2. StakeDiffers'
  BY StakeStep DEF CustodyInv, StoreInv, Holdings
<1> QED
  BY <1>1, <1>2 DEF CustodyInv

\* Every step keeps what is stray, and maps to one of TicketCustody.
LEMMA EveryStepInCustody ==
  ASSUME CustodyInv, Numbers, Numbers', [Next]_vars
  PROVE  InCustody
<1>1. GrabInv /\ StakeDiffers /\ IsHoldings(bal)
  BY DEF CustodyInv, StoreInv, Holdings
<1>2. CASE ShowSide \/ Ledger \/ GrabConfig \/ UNCHANGED vars
  BY <1>1, <1>2, QuietCustody
<1>3. CASE Showman
  BY <1>1, <1>3, QuietCustody, AddUpgradesCustody DEF Showman
<1>4. CASE Draw
  BY <1>1, <1>4, GrabCustody, UpgradeDrawCustody DEF Draw
<1> QED
  BY <1>1, <1>2, <1>3, <1>4, RestockCustody, CampaignsCustody, CleanupCustody, TakeBackCustody
  DEF Next

\* The circulation starts with grab.cisum empty handed.
LEMMA CustodyStart ==
  Init => /\ CustodyInv
          /\ \A n \in Nids : Pot(n) = 0 /\ Staked(logs, n) = 0 /\ Stray(n) = 0
<1> SUFFICES ASSUME Init
             PROVE  CustodyInv /\ \A n \in Nids : Pot(n) = 0 /\ Staked(logs, n) = 0 /\ Stray(n) = 0
  OBVIOUS
<1>1. DOMAIN sales = {} /\ DOMAIN upgrades = {} /\ logs = {}
  BY DEF Init, EmptyTable
<1>2. CustodyInv
  BY <1>1, CirculationStart, StoreStart DEF CustodyInv, StoreInv, StakeDiffers
<1>3. ASSUME NEW n PROVE Pot(n) = 0 /\ Staked(logs, n) = 0
  <2> DEFINE f == [id \in DOMAIN sales |->
                     IF sales[id].ticket_id = n THEN sales[id].available ELSE 0]
             g == [id \in DOMAIN upgrades |->
                     IF upgrades[id].ticket_id = n THEN upgrades[id].available ELSE 0]
             h == [log \in logs |-> IF log.from.nid = n THEN log.from.amount ELSE 0]
  <2>1. DOMAIN f = {} /\ DOMAIN g = {} /\ DOMAIN h = {}
    BY <1>1
  <2>2. Pot(n) = SumFunction(f) + SumFunction(g) /\ Staked(logs, n) = SumFunction(h)
    BY DEF Pot, Staked
  <2> HIDE DEF f, g, h
  <2> QED
    BY <2>1, <2>2, SumOfNone
<1>4. \A n \in Nids : bal[GRAB][n] = 0
  <2>1. GRAB \in Accounts /\ GRAB # SHOW /\ GRAB \notin Fans
    BY ShowAssumption DEF ShowAssumption
  <2> QED
    BY <2>1 DEF Init, HeldBy
<1> QED
  BY <1>2, <1>3, <1>4 DEF Stray

\* Nothing is owed beyond what is owned.
Solvent == \A n \in Nids : Stray(n) >= 0

\* What is stray never shrinks, so nothing is ever owed beyond it.
LEMMA SolventStep ==
  ASSUME Solvent, Numbers, Numbers', StrayKept
  PROVE  Solvent'
<1>1. ASSUME NEW n \in Nids PROVE Stray(n)' >= 0
  <2>1. Stray(n) >= 0 /\ Stray(n)' >= Stray(n)
    BY DEF Solvent, StrayKept
  <2>2. Stray(n) \in Int /\ Stray(n)' \in Int
    BY DEF Numbers, Stray
  <2> QED
    BY <2>1, <2>2
<1> QED
  BY <1>1 DEF Solvent

\* Solvency, said with what is stray.
LEMMA SolventIsGrabSolvent == Numbers /\ Solvent => GrabSolvent
<1> SUFFICES ASSUME Numbers, Solvent, NEW n \in Nids
             PROVE  Pot(n) + Staked(logs, n) <= bal[GRAB][n]
  BY DEF GrabSolvent
<1> QED
  BY DEF Numbers, Solvent, Stray

\* The prizes of every campaign and the stakes of every log are covered by
\* what grab.cisum owns at the ledger, whoever sends what with which memo and
\* whatever ticket contract is configured.
THEOREM GrabStaysSolvent == Spec => []GrabSolvent
<1>1. Init => CustodyInv /\ Solvent
  <2>1. Init => CustodyInv /\ \A n \in Nids : Stray(n) = 0
    BY CustodyStart
  <2> QED
    BY <2>1 DEF Solvent
<1>2. CustodyInv /\ [Next]_vars => CustodyInv'
  BY CustodyKept
<1>3. CustodyInv => Numbers
  BY CustodyNumbers
<1>4. CustodyInv /\ Numbers /\ Numbers' /\ Solvent /\ [Next]_vars => Solvent'
  BY EveryStepInCustody, SolventStep DEF InCustody
<1>5. Numbers /\ Solvent => GrabSolvent
  BY SolventIsGrabSolvent
<1> QED
  BY <1>1, <1>2, <1>3, <1>4, <1>5, PTL DEF Spec

\* The tickets are there for every prize a campaign still offers and for every
\* page of stakes, whichever comes first.
NothingShort ==
  /\ \A id \in DOMAIN sales : sales[id].available <= bal[GRAB][sales[id].ticket_id]
  /\ \A id \in DOMAIN upgrades : upgrades[id].available <= bal[GRAB][upgrades[id].ticket_id]
  /\ \A page \in SUBSET logs, n \in Nids : Staked(page, n) <= bal[GRAB][n]

\* A campaign has no more to give away than all of its table.
LEMMA PotHasRow ==
  ASSUME NEW T, PotTable(T), NEW id \in DOMAIN T
  PROVE  T[id].available <= PotOf(T, T[id].ticket_id)
<1> DEFINE n == T[id].ticket_id
           U == Drop(T, id)
<1>1. PotOf(U, n) = PotOf(T, n) - T[id].available
  BY PotDropped
<1>2. PotTable(U)
  <2>1. DOMAIN U = DOMAIN T \ {id} /\ \A x \in DOMAIN U : U[x] = T[x]
    BY DEF Drop
  <2> HIDE DEF U
  <2> QED
    BY <2>1, FS_RemoveElement DEF PotTable
<1>3. PotOf(U, n) \in Nat /\ PotOf(T, n) \in Nat
  BY <1>2, PotOfIsNat
<1>4. T[id].available \in Nat
  BY DEF PotTable
<1> HIDE DEF n, U
<1>5. T[id].available <= PotOf(T, n)
  BY <1>1, <1>3, <1>4
<1> QED
  BY <1>5 DEF n

\* No winner, no show that takes unsold tickets back and no page of a cleanup is
\* ever refused because grab.cisum is short of tickets (the balances its
\* transfers ask the ledger for).
THEOREM NothingFallsShort == Spec => []NothingShort
<1>1. ASSUME CustodyInv, GrabSolvent PROVE NothingShort
  <2>1. Numbers /\ GrabInv
    BY <1>1, CustodyNumbers DEF CustodyInv
  <2>2. PotTable(sales) /\ PotTable(upgrades)
    BY <2>1, PotTables
  <2>3. \A n \in Nids : PotOf(sales, n) \in Nat /\ PotOf(upgrades, n) \in Nat
                        /\ Staked(logs, n) \in Nat /\ bal[GRAB][n] \in Nat
                        /\ PotOf(sales, n) + PotOf(upgrades, n) + Staked(logs, n) <= bal[GRAB][n]
    <3> TAKE n \in Nids
    <3>1. Pot(n) = PotOf(sales, n) + PotOf(upgrades, n)
      BY PotParts
    <3>2. Pot(n) + Staked(logs, n) <= bal[GRAB][n]
      BY <1>1 DEF GrabSolvent
    <3> QED
      BY <2>1, <2>2, <3>1, <3>2, PotOfIsNat DEF Numbers
  <2>4. ASSUME NEW id \in DOMAIN sales
        PROVE  sales[id].available <= bal[GRAB][sales[id].ticket_id]
    <3>1. sales[id].ticket_id \in Nids /\ sales[id].available \in Nat
      BY <2>1 DEF GrabInv, Balanced, SaleOK, RushSale
    <3>2. sales[id].available <= PotOf(sales, sales[id].ticket_id)
      BY <2>2, PotHasRow
    <3> QED
      BY <2>3, <3>1, <3>2
  <2>5. ASSUME NEW id \in DOMAIN upgrades
        PROVE  upgrades[id].available <= bal[GRAB][upgrades[id].ticket_id]
    <3>1. upgrades[id].ticket_id \in Nids /\ upgrades[id].available \in Nat
      BY <2>1 DEF GrabInv, Balanced, UpgradeOK, RushUpgrade
    <3>2. upgrades[id].available <= PotOf(upgrades, upgrades[id].ticket_id)
      BY <2>2, PotHasRow
    <3> QED
      BY <2>3, <3>1, <3>2
  <2>6. ASSUME NEW page \in SUBSET logs, NEW n \in Nids
        PROVE  Staked(page, n) <= bal[GRAB][n]
    <3>1. logs \subseteq UpgradeLog /\ IsFiniteSet(logs) /\ IsFiniteSet(page) /\ page \subseteq UpgradeLog
      BY <2>1, RowsFinite, FS_Subset DEF GrabInv, RowsOK
    <3>2. Staked(page, n) <= Staked(logs, n) /\ Staked(page, n) \in Nat
      BY <3>1, StakedInPart, StakedIsNat
    <3> QED
      BY <2>3, <3>2
  <2> QED
    BY <2>4, <2>5, <2>6 DEF NothingShort
<1>2. Init => CustodyInv
  BY CustodyStart
<1>3. CustodyInv /\ [Next]_vars => CustodyInv'
  BY CustodyKept
<1> QED
  BY <1>1, <1>2, <1>3, GrabStaysSolvent, PTL DEF Spec

\* A step of the four contracts is a step of TicketCustody.
LEMMA CustodyMaps ==
  ASSUME Numbers, Numbers', CustodyStep
  PROVE  Custody!Next
<1> DEFINE pot == [n \in Nids |-> Pot(n)]
           escrow == [n \in Nids |-> Staked(logs, n)]
           stray == [n \in Nids |-> bal[GRAB][n] - Pot(n) - Staked(logs, n)]
<1>1. \A n \in Nids : /\ pot[n] = Pot(n) /\ escrow[n] = Staked(logs, n) /\ stray[n] = Stray(n)
                      /\ pot'[n] = Pot(n)' /\ escrow'[n] = Staked(logs, n)'
                      /\ stray'[n] = Stray(n)'
  BY DEF Stray
<1>2. \A n \in Nids : Pot(n) \in Nat /\ Pot(n)' \in Nat /\ Staked(logs, n) \in Nat
                      /\ Staked(logs, n)' \in Nat
  BY DEF Numbers
<1>3. pot' = [n \in Nids |-> Pot(n)'] /\ escrow' = [n \in Nids |-> Staked(logs, n)']
      /\ stray' = [n \in Nids |-> Stray(n)'] /\ stray = [n \in Nids |-> Stray(n)]
  BY DEF Stray
<1>4. \A m \in Nids, k \in Nat :
        (\A n \in Nids : Pot(n)' = Pot(n) - (IF n = m THEN k ELSE 0)) =>
          pot' = [pot EXCEPT ![m] = @ - k]
  <2> TAKE m \in Nids, k \in Nat
  <2> HAVE \A n \in Nids : Pot(n)' = Pot(n) - (IF n = m THEN k ELSE 0)
  <2>1. \A n \in Nids : Pot(n)' = IF n = m THEN Pot(m) - k ELSE Pot(n)
    BY <1>2
  <2>2. pot' = [n \in Nids |-> IF n = m THEN Pot(m) - k ELSE Pot(n)]
    BY <1>3, <2>1
  <2>3. [pot EXCEPT ![m] = @ - k] = [n \in Nids |-> IF n = m THEN Pot(m) - k ELSE Pot(n)]
    OBVIOUS
  <2> QED
    BY <2>2, <2>3
<1>5. \A m \in Nids, k \in Nat \ {0} :
        (\A n \in Nids : Pot(n)' = Pot(n) - (IF n = m THEN k ELSE 0)) =>
          pot'[m] < pot[m] /\ \A n \in Nids \ {m} : pot'[n] = pot[n]
  BY <1>2, <1>3
<1>6. CASE Funded
  <2>1. Custody!Fund
    BY <1>1, <1>3, <1>6 DEF Custody!Fund, Custody!Keeps, Funded, StrayKept
  <2> QED
    BY <2>1 DEF Custody!Next
<1>7. ASSUME NEW m \in Nids, Won(m)
      PROVE  Custody!Next
  <2>1. pot' = [pot EXCEPT ![m] = @ - 1]
    BY <1>4, <1>7 DEF Won
  <2>2. escrow' = escrow /\ stray' = stray
    BY <1>3, <1>7 DEF Won
  <2>3. Custody!Win
    BY <2>1, <2>2 DEF Custody!Win
  <2> QED
    BY <2>3 DEF Custody!Next
<1>8. ASSUME NEW s \in Nids, NEW m \in Nids, NEW q \in Nat \ {0}, NEW out \in {0, 1}, s # m,
             TakenIn(s, q, m, out)
      PROVE  Custody!Next
  <2>1. pot' = [pot EXCEPT ![m] = @ - out]
    BY <1>4, <1>8 DEF TakenIn
  <2>2. out = 0 => pot' = pot
    BY <1>2, <1>3, <1>8, <2>1 DEF TakenIn
  <2>3. escrow'[s] > escrow[s] /\ \A n \in Nids \ {s} : escrow'[n] = escrow[n]
    BY <1>1, <1>2, <1>8 DEF TakenIn
  <2>4. \A n \in Nids : stray'[n] >= stray[n]
    BY <1>1, <1>8 DEF TakenIn, StrayKept
  <2>5. Custody!Stake
    BY <1>8, <2>1, <2>2, <2>3, <2>4 DEF Custody!Stake, Custody!GrowsAt, Custody!Keeps
  <2> QED
    BY <2>5 DEF Custody!Next
<1>9. ASSUME NEW m \in Nids, NEW k \in Nat \ {0}, Reclaimed(m, k)
      PROVE  Custody!Next
  <2>1. escrow' = escrow /\ stray' = stray
    BY <1>3, <1>9 DEF Reclaimed
  <2>2. pot'[m] < pot[m] /\ \A n \in Nids \ {m} : pot'[n] = pot[n]
    BY <1>5, <1>9 DEF Reclaimed
  <2>3. pot[m] > pot'[m] /\ \A n \in Nids \ {m} : pot[n] = pot'[n]
    BY <1>1, <1>2, <2>2
  <2>4. Custody!Reclaim
    BY <2>1, <2>3 DEF Custody!Reclaim, Custody!GrowsAt
  <2> QED
    BY <2>4 DEF Custody!Next
<1>10. ASSUME NEW m \in Nids, NEW k \in Nat, Settled(m, k)
       PROVE  Custody!Next
  <2>1. \A n \in Nids : escrow[n] >= escrow'[n]
    BY <1>1, <1>2, <1>10 DEF Settled
  <2>2. \A n \in Nids : stray'[n] >= stray[n]
    BY <1>1, <1>10 DEF Settled, StrayKept
  <2>3. \A n \in Nids : pot'[n] + stray'[n] = pot[n] + stray[n]
    BY <1>1, <1>10 DEF Settled
  <2>4. CASE k = 0
    <3>1. pot' = pot
      BY <1>2, <1>3, <1>10, <2>4 DEF Settled
    <3> QED
      BY <2>1, <2>2, <2>3, <3>1 DEF Custody!Next, Custody!Settle, Custody!Keeps
  <2>5. CASE k # 0
    <3>1. pot'[m] < pot[m] /\ \A n \in Nids \ {m} : pot'[n] = pot[n]
      BY <1>5, <1>10, <2>5 DEF Settled
    <3>2. pot[m] > pot'[m] /\ \A n \in Nids \ {m} : pot[n] = pot'[n]
      BY <1>1, <1>2, <3>1
    <3> QED
      BY <2>1, <2>2, <2>3, <3>2 DEF Custody!Next, Custody!Settle, Custody!Keeps, Custody!GrowsAt
  <2> QED
    BY <2>4, <2>5
<1> QED
  BY <1>6, <1>7, <1>8, <1>9, <1>10 DEF CustodyStep

\* As long as the configured ticket contract is the ledger, grab.cisum
\* implements TicketCustody: each transaction pays a prize out of the pot or
\* settles stakes out of the escrow, never one from the other, and what
\* nobody claims is never paid to anyone.
THEOREM GrabImplementsCustody == Spec /\ []PaysTickets => CustodySpec
<1>1. Init => CustodyInv /\ Custody!Init
  <2>1. Init => CustodyInv /\ \A n \in Nids : Pot(n) = 0 /\ Staked(logs, n) = 0 /\ Stray(n) = 0
    BY CustodyStart
  <2> QED
    BY <2>1 DEF Custody!Init, Stray
<1>2. CustodyInv /\ [Next]_vars => CustodyInv'
  BY CustodyKept
<1>3. CustodyInv => Numbers
  BY CustodyNumbers
<1>4. CustodyInv /\ Numbers /\ Numbers' /\ PaysTickets /\ [Next]_vars =>
        [Custody!Next]_Custody!custody
  BY EveryStepInCustody, CustodyMaps DEF InCustody
<1> QED
  BY <1>1, <1>2, <1>3, <1>4, PTL DEF Spec, CustodySpec, Custody!Spec

-----------------------------------------------------------------------------
(***************************************************************************)
(* The rows are the evidence of the counters.                              *)
(***************************************************************************)

\* The rows of campaign id, of which the cleanups of part left some.
Agrees(id, c, rows, part) ==
  /\ Cardinality(Winning(rows)) <= c.grabbed
  /\ Cardinality(rows) <= c.total_grabs
  /\ id \notin part => /\ Cardinality(Winning(rows)) = c.grabbed
                       /\ Cardinality(rows) = c.total_grabs

DrawnBy(rows, u) == {row \in rows : row.account = u}

CountedFor(id, u) == IF <<id, u>> \in DOMAIN grabStats THEN grabStats[<<id, u>>] ELSE 0

SalesRecorded ==
  \A id \in DOMAIN sales : Agrees(id, sales[id], InScope(orders, id), partly)

UpgradesRecorded ==
  \A id \in DOMAIN upgrades : Agrees(id, upgrades[id], InScope(logs, id), partly)

StatsRecorded ==
  \A id \in DOMAIN sales \ partly, u \in Fans :
    Cardinality(DrawnBy(InScope(orders, id), u)) = CountedFor(id, u)

\* The three parts of DrawsAreRecorded.
LEMMA RecordedIs == DrawsAreRecorded <=> SalesRecorded /\ UpgradesRecorded /\ StatsRecorded
BY DEF DrawsAreRecorded, SalesRecorded, UpgradesRecorded, StatsRecorded, Agrees, DrawnBy,
       CountedFor

\* Rows are counted by natural numbers.
LEMMA RowsCounted ==
  ASSUME NEW rows, IsFiniteSet(rows)
  PROVE  /\ Cardinality(rows) \in Nat /\ Cardinality(Winning(rows)) \in Nat
         /\ \A u : Cardinality(DrawnBy(rows, u)) \in Nat
<1>1. IsFiniteSet(Winning(rows)) /\ \A u : IsFiniteSet(DrawnBy(rows, u))
  BY FS_Subset DEF Winning, DrawnBy
<1> QED
  BY <1>1, FS_CardinalityType

\* One more row.
LEMMA RowAdded ==
  ASSUME NEW rows, IsFiniteSet(rows), NEW row, row \notin rows, row.win \in BOOLEAN
  PROVE  /\ Cardinality(rows \cup {row}) = Cardinality(rows) + 1
         /\ Cardinality(Winning(rows \cup {row}))
              = Cardinality(Winning(rows)) + (IF row.win THEN 1 ELSE 0)
         /\ \A u : Cardinality(DrawnBy(rows \cup {row}, u))
                     = Cardinality(DrawnBy(rows, u)) + (IF row.account = u THEN 1 ELSE 0)
<1>1. Cardinality(rows \cup {row}) = Cardinality(rows) + 1
  BY FS_AddElement
<1>2. IsFiniteSet(Winning(rows)) /\ \A u : IsFiniteSet(DrawnBy(rows, u))
  BY FS_Subset DEF Winning, DrawnBy
<1>3. row \notin Winning(rows) /\ \A u : row \notin DrawnBy(rows, u)
  BY DEF Winning, DrawnBy
<1>4. Winning(rows \cup {row}) = IF row.win THEN Winning(rows) \cup {row} ELSE Winning(rows)
  BY DEF Winning
<1>5. \A u : DrawnBy(rows \cup {row}, u)
        = IF row.account = u THEN DrawnBy(rows, u) \cup {row} ELSE DrawnBy(rows, u)
  BY DEF DrawnBy
<1>6. Cardinality(Winning(rows)) \in Nat /\ \A u : Cardinality(DrawnBy(rows, u)) \in Nat
  BY RowsCounted
<1>7. Cardinality(Winning(rows) \cup {row}) = Cardinality(Winning(rows)) + 1
  BY <1>2, <1>3, FS_AddElement
<1>8. \A u : Cardinality(DrawnBy(rows, u) \cup {row}) = Cardinality(DrawnBy(rows, u)) + 1
  BY <1>2, <1>3, FS_AddElement
<1>9. Cardinality(Winning(rows \cup {row}))
        = Cardinality(Winning(rows)) + (IF row.win THEN 1 ELSE 0)
  BY <1>4, <1>6, <1>7
<1>10. \A u : Cardinality(DrawnBy(rows \cup {row}, u))
         = Cardinality(DrawnBy(rows, u)) + (IF row.account = u THEN 1 ELSE 0)
  <2> TAKE u
  <2> DEFINE old == DrawnBy(rows, u)
             new == DrawnBy(rows \cup {row}, u)
  <2>1. Cardinality(old) \in Nat /\ Cardinality(old \cup {row}) = Cardinality(old) + 1
    BY <1>6, <1>8
  <2>2. new = IF row.account = u THEN old \cup {row} ELSE old
    BY <1>5
  <2> HIDE DEF old, new
  <2>3. Cardinality(new) = Cardinality(old) + (IF row.account = u THEN 1 ELSE 0)
    BY <2>1, <2>2
  <2> QED
    BY <2>3 DEF old, new
<1> QED
  BY <1>1, <1>9, <1>10

\* A draw is recorded as it is counted.
LEMMA DrawRecorded ==
  ASSUME NEW id, NEW c, SaleOK(c) \/ UpgradeOK(c), NEW rows, IsFiniteSet(rows), NEW row,
         row \notin rows, row.win \in BOOLEAN, NEW part, Agrees(id, c, rows, part)
  PROVE  Agrees(id, Drawn(c, row.win), rows \cup {row}, part)
<1> DEFINE k == IF row.win THEN 1 ELSE 0
           d == Drawn(c, row.win)
           more == rows \cup {row}
<1>1. c.grabbed \in Nat /\ c.total_grabs \in Nat
  BY DEF SaleOK, UpgradeOK, RushSale, RushUpgrade
<1>2. d.grabbed = c.grabbed + k /\ d.total_grabs = c.total_grabs + 1
  BY <1>1 DEF SaleOK, UpgradeOK, RushSale, RushUpgrade, Drawn
<1>3. k \in Nat
  OBVIOUS
<1>4. Cardinality(more) = Cardinality(rows) + 1
      /\ Cardinality(Winning(more)) = Cardinality(Winning(rows)) + k
  BY RowAdded
<1>5. Cardinality(rows) \in Nat /\ Cardinality(Winning(rows)) \in Nat
  BY RowsCounted
<1> HIDE DEF k, d, more
<1>6. Agrees(id, d, more, part)
  BY <1>1, <1>2, <1>3, <1>4, <1>5 DEF Agrees
<1> QED
  BY <1>6 DEF d, more

\* A cleanup takes rows away.
LEMMA LessRecorded ==
  ASSUME NEW id, NEW c, SaleOK(c) \/ UpgradeOK(c), NEW rows, IsFiniteSet(rows),
         NEW less \in SUBSET rows, NEW part, NEW more, id \in more, Agrees(id, c, rows, part)
  PROVE  Agrees(id, c, less, more)
<1>1. c.grabbed \in Nat /\ c.total_grabs \in Nat
  BY DEF SaleOK, UpgradeOK, RushSale, RushUpgrade
<1>2. IsFiniteSet(Winning(rows)) /\ Winning(less) \subseteq Winning(rows)
  BY FS_Subset DEF Winning
<1>3. /\ Cardinality(less) <= Cardinality(rows)
      /\ Cardinality(Winning(less)) <= Cardinality(Winning(rows))
  BY <1>2, FS_Subset
<1>4. IsFiniteSet(less)
  BY FS_Subset
<1>5. /\ Cardinality(rows) \in Nat /\ Cardinality(Winning(rows)) \in Nat
      /\ Cardinality(less) \in Nat /\ Cardinality(Winning(less)) \in Nat
  BY <1>4, RowsCounted
<1> QED
  BY <1>1, <1>3, <1>5 DEF Agrees

\* A campaign nobody has drawn from.
LEMMA NoneRecorded ==
  ASSUME NEW id, NEW c, c.grabbed = 0, c.total_grabs = 0, NEW part
  PROVE  Agrees(id, c, {}, part) /\ \A u : Cardinality(DrawnBy({}, u)) = 0
<1>1. Winning({}) = {} /\ \A u : DrawnBy({}, u) = {}
  BY DEF Winning, DrawnBy
<1>2. Cardinality({}) = 0
  BY FS_EmptySet
<1> QED
  BY <1>1, <1>2 DEF Agrees

ScopesFinite == \A id : IsFiniteSet(InScope(orders, id)) /\ IsFiniteSet(InScope(logs, id))

\* A campaign has finitely many rows.
LEMMA ScopesAreFinite == GrabInv => ScopesFinite
<1> SUFFICES ASSUME GrabInv PROVE ScopesFinite
  OBVIOUS
<1>1. IsFiniteSet(orders) /\ IsFiniteSet(logs)
  BY RowsFinite
<1>2. \A id : InScope(orders, id) \subseteq orders /\ InScope(logs, id) \subseteq logs
  BY DEF InScope
<1> QED
  BY <1>1, <1>2, FS_Subset DEF ScopesFinite

\* The draws of table U are those of T, but for new campaigns without any.
SameDraws(T, U) ==
  \A id \in DOMAIN U :
    \/ id \in DOMAIN T /\ U[id].grabbed = T[id].grabbed /\ U[id].total_grabs = T[id].total_grabs
    \/ id \notin DOMAIN T /\ U[id].grabbed = 0 /\ U[id].total_grabs = 0

\* Steps that draw nothing and clean nothing up.
LEMMA RecordsRest ==
  ASSUME GrabInv, DrawsAreRecorded, SameDraws(sales, sales'), SameDraws(upgrades, upgrades'),
         UNCHANGED <<orders, logs, grabStats, partly>>
  PROVE  DrawsAreRecorded'
<1>1. SalesRecorded /\ UpgradesRecorded /\ StatsRecorded
  BY RecordedIs
<1>2. \A id : id \notin DOMAIN sales => InScope(orders, id) = {}
  BY DEF GrabInv, RowsOK, InScope
<1>3. \A id : id \notin DOMAIN upgrades => InScope(logs, id) = {}
  BY DEF GrabInv, RowsOK, InScope
<1>4. ASSUME NEW id \in DOMAIN sales' PROVE Agrees(id, sales'[id], InScope(orders, id), partly)
  <2>1. CASE id \in DOMAIN sales
    BY <1>1, <2>1 DEF SalesRecorded, Agrees, SameDraws
  <2>2. CASE id \notin DOMAIN sales
    BY <1>2, <2>2, NoneRecorded DEF SameDraws
  <2> QED
    BY <2>1, <2>2
<1>5. ASSUME NEW id \in DOMAIN upgrades' PROVE Agrees(id, upgrades'[id], InScope(logs, id), partly)
  <2>1. CASE id \in DOMAIN upgrades
    BY <1>1, <2>1 DEF UpgradesRecorded, Agrees, SameDraws
  <2>2. CASE id \notin DOMAIN upgrades
    BY <1>3, <2>2, NoneRecorded DEF SameDraws
  <2> QED
    BY <2>1, <2>2
<1>6. ASSUME NEW id \in DOMAIN sales' \ partly, NEW u \in Fans
      PROVE  Cardinality(DrawnBy(InScope(orders, id), u)) = CountedFor(id, u)
  <2>1. CASE id \in DOMAIN sales
    BY <1>1, <2>1 DEF StatsRecorded
  <2>2. CASE id \notin DOMAIN sales
    <3>1. <<id, u>> \notin DOMAIN grabStats
      BY <2>2 DEF GrabInv, StatsOK
    <3>2. sales'[id].grabbed = 0 /\ sales'[id].total_grabs = 0
      BY <2>2 DEF SameDraws
    <3> QED
      BY <1>2, <2>2, <3>1, <3>2, NoneRecorded DEF CountedFor
  <2> QED
    BY <2>1, <2>2
<1>7. SalesRecorded' /\ UpgradesRecorded' /\ StatsRecorded'
  BY <1>4, <1>5, <1>6 DEF SalesRecorded, UpgradesRecorded, StatsRecorded, Agrees, InScope,
     CountedFor
<1>8. (SalesRecorded /\ UpgradesRecorded /\ StatsRecorded => DrawsAreRecorded)'
  BY RecordedIs, PTL
<1> QED
  BY <1>7, <1>8

\* What a draw of a sale records.
SaleDraw(u, id, g, win) ==
  /\ id \in DOMAIN sales
  /\ orders' = orders \cup {[scope |-> id, id |-> lastOrderId + 1, grab_id |-> g,
                             account |-> u, win |-> win]}
  /\ sales' = [sales EXCEPT ![id] = Drawn(sales[id], win)]
  /\ grabStats' = Put(grabStats, <<id, u>>, CountedFor(id, u) + 1)
  /\ UNCHANGED <<upgrades, logs, partly>>

\* Every draw of a sale is recorded for one of the two outcomes.
LEMMA GrabIsSaleDraw ==
  ASSUME NEW u, NEW id, NEW g, NEW paid, Grab(u, id, g, paid)
  PROVE  \E win \in BOOLEAN : SaleDraw(u, id, g, win)
<1>1. /\ id \in DOMAIN sales /\ UNCHANGED <<upgrades, logs, partly>>
      /\ grabStats' = Put(grabStats, <<id, u>>, CountedFor(id, u) + 1)
  BY DEF Grab, CountedFor
<1>2. PICK rnd \in 0..RatioBase - 1 :
        /\ orders' = orders \cup
             {[scope |-> id, id |-> lastOrderId + 1, grab_id |-> g, account |-> u,
               win |-> rnd < sales[id].win_ratio]}
        /\ sales' = [sales EXCEPT ![id] = Drawn(@, rnd < sales[id].win_ratio)]
  BY DEF Grab
<1> DEFINE win == rnd < sales[id].win_ratio
<1>3. win \in BOOLEAN
  OBVIOUS
<1>4. SaleDraw(u, id, g, win)
  BY <1>1, <1>2 DEF SaleDraw
<1> HIDE DEF win
<1> QED
  BY <1>3, <1>4

\* A draw of a sale adds a row, counts it, and counts it for its user.
LEMMA SaleDrawRecorded ==
  ASSUME GrabInv, DrawsAreRecorded, NEW u \in Fans, NEW id, NEW g, NEW win \in BOOLEAN,
         SaleDraw(u, id, g, win)
  PROVE  DrawsAreRecorded'
<1> DEFINE row == [scope |-> id, id |-> lastOrderId + 1, grab_id |-> g, account |-> u,
                   win |-> win]
           rows == InScope(orders, id)
<1>1. SalesRecorded /\ UpgradesRecorded /\ StatsRecorded /\ ScopesFinite
  BY RecordedIs, ScopesAreFinite
<1>2. id \in DOMAIN sales /\ SaleOK(sales[id])
  BY DEF SaleDraw, GrabInv, Balanced
<1>3. row \notin rows
  <2>1. \A r \in orders : r.id <= lastOrderId
    BY DEF GrabInv, RowsOK
  <2>2. lastOrderId \in Nat /\ row.id = lastOrderId + 1
    BY DEF GrabInv, Numbering
  <2> HIDE DEF row
  <2> QED
    BY <2>1, <2>2 DEF InScope
<1>4. row.scope = id /\ row.account = u /\ row.win = win
  OBVIOUS
<1>5. /\ orders' = orders \cup {row} /\ UNCHANGED <<upgrades, logs, partly>>
      /\ sales' = [sales EXCEPT ![id] = Drawn(sales[id], win)]
      /\ grabStats' = Put(grabStats, <<id, u>>, CountedFor(id, u) + 1)
  BY DEF SaleDraw
<1> HIDE DEF row
<1>6. /\ InScope(orders', id) = rows \cup {row}
      /\ \A x : x # id => InScope(orders', x) = InScope(orders, x)
  BY <1>4, <1>5 DEF InScope
<1>7. Agrees(id, sales[id], rows, partly) /\ IsFiniteSet(rows)
  BY <1>1, <1>2 DEF SalesRecorded, ScopesFinite
<1> HIDE DEF rows
<1>8. Agrees(id, Drawn(sales[id], win), rows \cup {row}, partly)
  BY <1>2, <1>3, <1>4, <1>7, DrawRecorded
<1>9. \A x \in DOMAIN sales' : Agrees(x, sales'[x], InScope(orders', x), partly)
  <2> TAKE x \in DOMAIN sales'
  <2>1. CASE x = id
    BY <1>2, <1>5, <1>6, <1>8, <2>1
  <2>2. CASE x # id
    BY <1>1, <1>5, <1>6, <2>2 DEF SalesRecorded
  <2> QED
    BY <2>1, <2>2
<1>10. SalesRecorded'
  BY <1>5, <1>9 DEF SalesRecorded, Agrees, InScope
<1>11. UpgradesRecorded'
  BY <1>1, <1>5 DEF UpgradesRecorded, Agrees, InScope
<1>12. \A w : Cardinality(DrawnBy(rows \cup {row}, w))
                = Cardinality(DrawnBy(rows, w)) + (IF u = w THEN 1 ELSE 0)
  BY <1>3, <1>4, <1>7, RowAdded
<1>13. \A x \in DOMAIN sales' \ partly, w \in Fans :
         Cardinality(DrawnBy(InScope(orders', x), w)) = CountedFor(x, w)'
  <2> TAKE x \in DOMAIN sales' \ partly, w \in Fans
  <2>1. x \in DOMAIN sales \ partly
    BY <1>5
  <2>2. Cardinality(DrawnBy(InScope(orders, x), w)) = CountedFor(x, w)
    BY <1>1, <2>1 DEF StatsRecorded
  <2>3. CountedFor(x, w)' = IF <<x, w>> = <<id, u>> THEN CountedFor(id, u) + 1 ELSE CountedFor(x, w)
    BY <1>5 DEF CountedFor, Put
  <2>4. CASE x = id /\ w = u
    <3>1. Cardinality(DrawnBy(rows, u)) = CountedFor(id, u)
      BY <2>2, <2>4 DEF rows
    <3> QED
      BY <1>6, <1>12, <2>3, <2>4, <3>1
  <2>5. CASE x = id /\ w # u
    <3>1. Cardinality(DrawnBy(rows, w)) = CountedFor(id, w)
      BY <2>2, <2>5 DEF rows
    <3>2. Cardinality(DrawnBy(rows, w)) \in Nat
      BY <1>7, RowsCounted
    <3>3. Cardinality(DrawnBy(rows \cup {row}, w)) = Cardinality(DrawnBy(rows, w))
      <4>1. Cardinality(DrawnBy(rows \cup {row}, w))
              = Cardinality(DrawnBy(rows, w)) + (IF u = w THEN 1 ELSE 0)
        BY <1>12
      <4> QED
        BY <2>5, <3>2, <4>1
    <3>4. CountedFor(x, w)' = CountedFor(id, w)
      BY <2>3, <2>5
    <3> QED
      BY <1>6, <2>5, <3>1, <3>3, <3>4
  <2>6. CASE x # id
    BY <1>6, <2>2, <2>3, <2>6
  <2> QED
    BY <2>4, <2>5, <2>6
<1>14. StatsRecorded'
  <2>1. \A x, w : DrawnBy(InScope(orders, x), w)' = DrawnBy(InScope(orders', x), w)
    BY DEF DrawnBy, InScope
  <2> QED
    BY <1>5, <1>13, <2>1 DEF StatsRecorded
<1>15. (SalesRecorded /\ UpgradesRecorded /\ StatsRecorded => DrawsAreRecorded)'
  BY RecordedIs, PTL
<1> QED
  BY <1>10, <1>11, <1>14, <1>15

\* A draw of an upgrade adds a log and counts it.
LEMMA UpgradeDrawRecorded ==
  ASSUME GrabInv, DrawsAreRecorded, NEW u, NEW id \in DOMAIN upgrades, NEW g, NEW extra,
         NEW win \in BOOLEAN, DrawEffect(u, id, g, extra, win),
         UNCHANGED <<orders, grabStats, partly>>
  PROVE  DrawsAreRecorded'
<1> DEFINE row == [scope |-> id, id |-> lastOrderId + 1, grab_id |-> g, account |-> u,
                   from |-> upgrades[id].pay_tickets, win |-> win]
           rows == InScope(logs, id)
<1>1. SalesRecorded /\ UpgradesRecorded /\ StatsRecorded /\ ScopesFinite
  BY RecordedIs, ScopesAreFinite
<1>2. UpgradeOK(upgrades[id])
  BY DEF GrabInv, Balanced
<1>3. row \notin rows
  <2>1. \A r \in logs : r.id <= lastOrderId
    BY DEF GrabInv, RowsOK
  <2>2. lastOrderId \in Nat /\ row.id = lastOrderId + 1
    BY DEF GrabInv, Numbering
  <2> HIDE DEF row
  <2> QED
    BY <2>1, <2>2 DEF InScope
<1>4. row.scope = id /\ row.win = win
  OBVIOUS
<1>5. /\ logs' = logs \cup {row} /\ UNCHANGED sales
      /\ upgrades' = [upgrades EXCEPT ![id] = Drawn(upgrades[id], win)]
  BY DEF DrawEffect
<1> HIDE DEF row
<1>6. InScope(logs', id) = rows \cup {row} /\ \A x : x # id => InScope(logs', x) = InScope(logs, x)
  BY <1>4, <1>5 DEF InScope
<1>7. Agrees(id, upgrades[id], rows, partly) /\ IsFiniteSet(rows)
  BY <1>1 DEF UpgradesRecorded, ScopesFinite
<1> HIDE DEF rows
<1>8. Agrees(id, Drawn(upgrades[id], win), rows \cup {row}, partly)
  BY <1>2, <1>3, <1>4, <1>7, DrawRecorded
<1>9. \A x \in DOMAIN upgrades' : Agrees(x, upgrades'[x], InScope(logs', x), partly)
  <2> TAKE x \in DOMAIN upgrades'
  <2>1. CASE x = id
    BY <1>5, <1>6, <1>8, <2>1
  <2>2. CASE x # id
    BY <1>1, <1>5, <1>6, <2>2 DEF UpgradesRecorded
  <2> QED
    BY <2>1, <2>2
<1>10. UpgradesRecorded'
  BY <1>9 DEF UpgradesRecorded, Agrees, InScope
<1>11. SalesRecorded'
  BY <1>1, <1>5 DEF SalesRecorded, Agrees, InScope
<1>12. StatsRecorded'
  BY <1>1, <1>5 DEF StatsRecorded, InScope, DrawnBy, CountedFor
<1>13. (SalesRecorded /\ UpgradesRecorded /\ StatsRecorded => DrawsAreRecorded)'
  BY RecordedIs, PTL
<1> QED
  BY <1>10, <1>11, <1>12, <1>13

\* A cleanup of campaign id: rows of its own go, and it is marked or goes too.
LEMMA SaleCleaned ==
  ASSUME GrabInv, DrawsAreRecorded, NEW sig, NEW id, NEW forced, DelRushSale(sig, id, forced)
  PROVE  DrawsAreRecorded'
<1> DEFINE rows == InScope(orders, id)
           page == Page(rows, MaxClear)
           keys == {key \in DOMAIN grabStats : key[1] = id}
<1>1. SalesRecorded /\ UpgradesRecorded /\ StatsRecorded /\ ScopesFinite
  BY RecordedIs, ScopesAreFinite
<1>2. /\ id \in DOMAIN sales /\ UNCHANGED <<upgrades, logs>>
      /\ orders' = orders \ page
  BY DEF DelRushSale
<1>3. \/ partly' = partly \cup {id} /\ UNCHANGED sales
      \/ sales' = Drop(sales, id) /\ UNCHANGED partly
  BY DEF DelRushSale
<1>4. \/ UNCHANGED grabStats
      \/ \E p \in SUBSET keys : grabStats' = [key \in DOMAIN grabStats \ p |-> grabStats[key]]
  BY DEF DelRushSale
<1>5. page \subseteq rows
  BY DEF Page
<1>6. /\ InScope(orders', id) \subseteq rows
      /\ \A x : x # id => InScope(orders', x) = InScope(orders, x)
  BY <1>2, <1>5 DEF InScope
<1>7. SaleOK(sales[id]) /\ Agrees(id, sales[id], rows, partly) /\ IsFiniteSet(rows)
  BY <1>1, <1>2 DEF GrabInv, Balanced, SalesRecorded, ScopesFinite
<1>8. \A x, w : x # id => CountedFor(x, w)' = CountedFor(x, w)
  <2> TAKE x, w
  <2> HAVE x # id
  <2>1. CASE UNCHANGED grabStats
    BY <2>1 DEF CountedFor
  <2>2. CASE \E p \in SUBSET keys : grabStats' = [key \in DOMAIN grabStats \ p |-> grabStats[key]]
    <3>1. PICK p \in SUBSET keys : grabStats' = [key \in DOMAIN grabStats \ p |-> grabStats[key]]
      BY <2>2
    <3>2. <<x, w>> \notin p
      OBVIOUS
    <3> QED
      BY <3>1, <3>2 DEF CountedFor
  <2> QED
    BY <1>4, <2>1, <2>2
<1> HIDE DEF page, rows, keys
<1>9. /\ DOMAIN sales' \subseteq DOMAIN sales /\ \A x \in DOMAIN sales' : sales'[x] = sales[x]
      /\ id \in DOMAIN sales' => id \in partly'
      /\ \A x : x # id => (x \in partly' <=> x \in partly)
  BY <1>3 DEF Drop
<1>10. \A x \in DOMAIN sales' : Agrees(x, sales'[x], InScope(orders', x), partly')
  <2> TAKE x \in DOMAIN sales'
  <2>1. CASE x = id
    BY <1>6, <1>7, <1>9, <2>1, LessRecorded
  <2>2. CASE x # id
    BY <1>1, <1>6, <1>9, <2>2 DEF SalesRecorded, Agrees
  <2> QED
    BY <2>1, <2>2
<1>11. SalesRecorded'
  BY <1>10 DEF SalesRecorded, Agrees, InScope
<1>12. UpgradesRecorded'
  <2>1. \A x \in DOMAIN upgrades : x # id
    BY <1>2 DEF GrabInv, Numbering
  <2> QED
    BY <1>1, <1>2, <1>9, <2>1 DEF UpgradesRecorded, Agrees, InScope
<1>13. \A x \in DOMAIN sales' \ partly', w \in Fans :
         Cardinality(DrawnBy(InScope(orders', x), w)) = CountedFor(x, w)'
  BY <1>1, <1>6, <1>8, <1>9 DEF StatsRecorded
<1>14. StatsRecorded'
  <2>1. \A x, w : DrawnBy(InScope(orders, x), w)' = DrawnBy(InScope(orders', x), w)
    BY DEF DrawnBy, InScope
  <2> QED
    BY <1>13, <2>1 DEF StatsRecorded
<1>15. (SalesRecorded /\ UpgradesRecorded /\ StatsRecorded => DrawsAreRecorded)'
  BY RecordedIs, PTL
<1> QED
  BY <1>11, <1>12, <1>14, <1>15

\* The same for an upgrade.
LEMMA UpgradeCleaned ==
  ASSUME GrabInv, DrawsAreRecorded, NEW sig, NEW id, DelUpgrade(sig, id)
  PROVE  DrawsAreRecorded'
<1> DEFINE rows == InScope(logs, id)
           page == Page(rows, MaxUpgrade)
<1>1. SalesRecorded /\ UpgradesRecorded /\ StatsRecorded /\ ScopesFinite
  BY RecordedIs, ScopesAreFinite
<1>2. /\ id \in DOMAIN upgrades /\ UNCHANGED <<sales, orders, grabStats>>
      /\ logs' = logs \ page
  BY DEF DelUpgrade
<1>3. \/ partly' = partly \cup {id} /\ UNCHANGED upgrades
      \/ upgrades' = Drop(upgrades, id) /\ UNCHANGED partly
  BY DEF DelUpgrade
<1>4. page \subseteq rows
  BY DEF Page
<1>5. InScope(logs', id) \subseteq rows /\ \A x : x # id => InScope(logs', x) = InScope(logs, x)
  BY <1>2, <1>4 DEF InScope
<1>6. UpgradeOK(upgrades[id]) /\ Agrees(id, upgrades[id], rows, partly) /\ IsFiniteSet(rows)
  BY <1>1, <1>2 DEF GrabInv, Balanced, UpgradesRecorded, ScopesFinite
<1> HIDE DEF page, rows
<1>7. /\ DOMAIN upgrades' \subseteq DOMAIN upgrades
      /\ \A x \in DOMAIN upgrades' : upgrades'[x] = upgrades[x]
      /\ id \in DOMAIN upgrades' => id \in partly'
      /\ \A x : x # id => (x \in partly' <=> x \in partly)
  BY <1>3 DEF Drop
<1>8. \A x \in DOMAIN upgrades' : Agrees(x, upgrades'[x], InScope(logs', x), partly')
  <2> TAKE x \in DOMAIN upgrades'
  <2>1. CASE x = id
    BY <1>5, <1>6, <1>7, <2>1, LessRecorded
  <2>2. CASE x # id
    BY <1>1, <1>5, <1>7, <2>2 DEF UpgradesRecorded, Agrees
  <2> QED
    BY <2>1, <2>2
<1>9. UpgradesRecorded'
  BY <1>8 DEF UpgradesRecorded, Agrees, InScope
<1>10. \A x \in DOMAIN sales : x # id
  BY <1>2 DEF GrabInv, Numbering
<1>11. SalesRecorded'
  BY <1>1, <1>2, <1>7, <1>10 DEF SalesRecorded, Agrees, InScope
<1>12. StatsRecorded'
  <2>1. \A x \in DOMAIN sales \ partly', w \in Fans :
          Cardinality(DrawnBy(InScope(orders, x), w)) = CountedFor(x, w)
    BY <1>1, <1>7, <1>10 DEF StatsRecorded
  <2> QED
    BY <1>2, <2>1 DEF StatsRecorded, InScope, DrawnBy, CountedFor
<1>13. (SalesRecorded /\ UpgradesRecorded /\ StatsRecorded => DrawsAreRecorded)'
  BY RecordedIs, PTL
<1> QED
  BY <1>9, <1>11, <1>12, <1>13


\* The operations of the managers keep the draws of a campaign.
LEMMA DrawsOfRow ==
  ASSUME NEW c, SaleOK(c) \/ UpgradeOK(c), NEW k \in Nat
  PROVE  /\ Restocked(c, k).grabbed = c.grabbed /\ Restocked(c, k).total_grabs = c.total_grabs
         /\ TakenBack(c, k).grabbed = c.grabbed /\ TakenBack(c, k).total_grabs = c.total_grabs
BY DEF SaleOK, UpgradeOK, RushSale, RushUpgrade, Restocked, TakenBack

\* One campaign is rewritten, or one is opened.
LEMMA DrawsOfTable ==
  ASSUME NEW T, NEW U, NEW id, NEW c,
         \/ /\ id \in DOMAIN T /\ U = [T EXCEPT ![id] = c]
            /\ c.grabbed = T[id].grabbed /\ c.total_grabs = T[id].total_grabs
         \/ /\ id \notin DOMAIN T /\ U = Put(T, id, c)
            /\ c.grabbed = 0 /\ c.total_grabs = 0
  PROVE  SameDraws(T, U)
BY DEF SameDraws, Put

\* A table that does not change.
LEMMA NoDraws ==
  ASSUME NEW T
  PROVE  SameDraws(T, T)
BY DEF SameDraws

\* A step that draws nothing and cleans nothing up.
NothingDrawn ==
  /\ SameDraws(sales, sales') /\ SameDraws(upgrades, upgrades')
  /\ UNCHANGED <<orders, logs, grabStats, partly>>

\* A restock changes the total, not the draws.
LEMMA RestockDrawsNothing ==
  ASSUME GrabInv, NEW id, NEW n, NEW k \in Nat,
         OnAddRushSale(id, n, k) \/ OnAddRushUpgrade(id, n, k)
  PROVE  NothingDrawn
<1>1. CASE OnAddRushSale(id, n, k)
  <2> DEFINE row == Restocked(sales[id], k)
  <2>1. /\ id \in DOMAIN sales /\ sales' = [sales EXCEPT ![id] = row]
        /\ UNCHANGED <<upgrades, orders, logs, grabStats, partly>>
    BY <1>1 DEF OnAddRushSale, history
  <2>2. SaleOK(sales[id])
    BY <2>1 DEF GrabInv, Balanced
  <2>3. row.grabbed = sales[id].grabbed /\ row.total_grabs = sales[id].total_grabs
    BY <2>2, DrawsOfRow
  <2> HIDE DEF row
  <2>4. SameDraws(sales, sales')
    BY <2>1, <2>3, DrawsOfTable
  <2> QED
    BY <2>1, <2>4, NoDraws DEF NothingDrawn
<1>2. CASE OnAddRushUpgrade(id, n, k)
  <2> DEFINE row == Restocked(upgrades[id], k)
  <2>1. /\ id \in DOMAIN upgrades /\ upgrades' = [upgrades EXCEPT ![id] = row]
        /\ UNCHANGED <<sales, orders, logs, grabStats, partly>>
    BY <1>2 DEF OnAddRushUpgrade, history
  <2>2. UpgradeOK(upgrades[id])
    BY <2>1 DEF GrabInv, Balanced
  <2>3. row.grabbed = upgrades[id].grabbed /\ row.total_grabs = upgrades[id].total_grabs
    BY <2>2, DrawsOfRow
  <2> HIDE DEF row
  <2>4. SameDraws(upgrades, upgrades')
    BY <2>1, <2>3, DrawsOfTable
  <2> QED
    BY <2>1, <2>4, NoDraws DEF NothingDrawn
<1> QED
  BY <1>1, <1>2

\* A take-back changes the total, not the draws.
LEMMA TakeBackDrawsNothing ==
  ASSUME GrabInv, NEW sig, NEW id, NEW k \in Nat,
         SubRushSale(sig, id, k) \/ SubRushUpgrade(sig, id, k)
  PROVE  NothingDrawn
<1>1. CASE SubRushSale(sig, id, k)
  <2> DEFINE row == TakenBack(sales[id], k)
  <2>1. /\ id \in DOMAIN sales /\ sales' = [sales EXCEPT ![id] = row]
        /\ UNCHANGED <<upgrades, orders, logs, grabStats, partly>>
    BY <1>1 DEF SubRushSale, history
  <2>2. SaleOK(sales[id])
    BY <2>1 DEF GrabInv, Balanced
  <2>3. row.grabbed = sales[id].grabbed /\ row.total_grabs = sales[id].total_grabs
    BY <2>2, DrawsOfRow
  <2> HIDE DEF row
  <2>4. SameDraws(sales, sales')
    BY <2>1, <2>3, DrawsOfTable
  <2> QED
    BY <2>1, <2>4, NoDraws DEF NothingDrawn
<1>2. CASE SubRushUpgrade(sig, id, k)
  <2> DEFINE row == TakenBack(upgrades[id], k)
  <2>1. /\ id \in DOMAIN upgrades /\ upgrades' = [upgrades EXCEPT ![id] = row]
        /\ UNCHANGED <<sales, orders, logs, grabStats, partly>>
    BY <1>2 DEF SubRushUpgrade, history
  <2>2. UpgradeOK(upgrades[id])
    BY <2>1 DEF GrabInv, Balanced
  <2>3. row.grabbed = upgrades[id].grabbed /\ row.total_grabs = upgrades[id].total_grabs
    BY <2>2, DrawsOfRow
  <2> HIDE DEF row
  <2>4. SameDraws(upgrades, upgrades')
    BY <2>1, <2>3, DrawsOfTable
  <2> QED
    BY <2>1, <2>4, NoDraws DEF NothingDrawn
<1> QED
  BY <1>1, <1>2

\* Opening and changing campaigns draws nothing.
LEMMA CampaignsDrawNothing ==
  ASSUME GrabInv, Campaigns
  PROVE  NothingDrawn
<1>1. /\ lastRushId + 1 \notin DOMAIN sales /\ lastRushId + 1 \notin DOMAIN upgrades
      /\ \A id \in DOMAIN sales : sales[id] \in RushSale
      /\ \A id \in DOMAIN upgrades : upgrades[id] \in RushUpgrade
  BY DEF GrabInv, Numbering, Balanced, SaleOK, UpgradeOK
<1>2. ASSUME NEW sig, NEW s, NEW n, NEW w, NEW price, NEW limit, NEW ratio,
             AddRushSale(sig, s, n, w, price, limit, ratio)
      PROVE  NothingDrawn
  <2> DEFINE row == FreshSale(s, n, w, price, limit, ratio)
  <2>1. /\ sales' = Put(sales, lastRushId + 1, row)
        /\ UNCHANGED <<upgrades, orders, logs, grabStats, partly>>
    BY <1>2 DEF AddRushSale, history
  <2>2. row.grabbed = 0 /\ row.total_grabs = 0
    BY DEF FreshSale
  <2> HIDE DEF row
  <2>3. SameDraws(sales, sales')
    BY <1>1, <2>1, <2>2, DrawsOfTable
  <2> QED
    BY <2>1, <2>3, NoDraws DEF NothingDrawn
<1>3. ASSUME NEW sig, NEW s, NEW n, NEW pay, NEW w, NEW ratio,
             AddUpgrade(sig, s, n, pay, w, ratio)
      PROVE  NothingDrawn
  <2> DEFINE row == FreshUpgrade(s, n, w, pay, ratio)
  <2>1. /\ upgrades' = Put(upgrades, lastRushId + 1, row)
        /\ UNCHANGED <<sales, orders, logs, grabStats, partly>>
    BY <1>3 DEF AddUpgrade, history
  <2>2. row.grabbed = 0 /\ row.total_grabs = 0
    BY DEF FreshUpgrade
  <2> HIDE DEF row
  <2>3. SameDraws(upgrades, upgrades')
    BY <1>1, <2>1, <2>2, DrawsOfTable
  <2> QED
    BY <2>1, <2>3, NoDraws DEF NothingDrawn
<1>4. ASSUME NEW sig, NEW id, NEW price, NEW limit, NEW ratio, NEW start, NEW end,
             SetRushSale(sig, id, price, limit, ratio, start, end)
      PROVE  NothingDrawn
  <2> DEFINE row == [sales[id] EXCEPT !.price = price, !.max_grabs_per_user = limit,
                       !.win_ratio = ratio, !.started_at = start, !.ended_at = end]
  <2>1. /\ id \in DOMAIN sales /\ sales' = [sales EXCEPT ![id] = row]
        /\ UNCHANGED <<upgrades, orders, logs, grabStats, partly>>
    BY <1>4 DEF SetRushSale, history
  <2>2. row.grabbed = sales[id].grabbed /\ row.total_grabs = sales[id].total_grabs
    BY <1>1, <2>1 DEF RushSale
  <2> HIDE DEF row
  <2>3. SameDraws(sales, sales')
    BY <2>1, <2>2, DrawsOfTable
  <2> QED
    BY <2>1, <2>3, NoDraws DEF NothingDrawn
<1>5. ASSUME NEW sig, NEW id, NEW pay, NEW ratio, NEW start, NEW end,
             SetUpgrade(sig, id, pay, ratio, start, end)
      PROVE  NothingDrawn
  <2> DEFINE row == [upgrades[id] EXCEPT !.pay_tickets = pay, !.win_ratio = ratio,
                       !.started_at = start, !.ended_at = end]
  <2>1. /\ id \in DOMAIN upgrades /\ upgrades' = [upgrades EXCEPT ![id] = row]
        /\ UNCHANGED <<sales, orders, logs, grabStats, partly>>
    BY <1>5 DEF SetUpgrade, history
  <2>2. row.grabbed = upgrades[id].grabbed /\ row.total_grabs = upgrades[id].total_grabs
    BY <1>1, <2>1 DEF RushUpgrade
  <2> HIDE DEF row
  <2>3. SameDraws(upgrades, upgrades')
    BY <2>1, <2>2, DrawsOfTable
  <2> QED
    BY <2>1, <2>3, NoDraws DEF NothingDrawn
<1> QED
  BY <1>2, <1>3, <1>4, <1>5 DEF Campaigns

\* A batch of campaigns is opened and stocked before anybody draws.
LEMMA AddUpgradesDrawsNothing ==
  ASSUME GrabInv, NEW s, NEW items \in Rushes, AddUpgrades(s, items)
  PROVE  NothingDrawn
<1> DEFINE Ids(kind) == {lastRushId + i : i \in {j \in DOMAIN items : items[j].kind = kind}}
           Item(id) == items[id - lastRushId]
           sale(id) == Restocked(FreshSale(s, Item(id).nid, Item(id).window, Item(id).price,
                                           Item(id).limit, Item(id).ratio),
                                 Item(id).count)
           upgrade(id) == Restocked(FreshUpgrade(s, Item(id).nid, Item(id).window,
                                                 Item(id).pay, Item(id).ratio),
                                    Item(id).count)
<1>1. /\ sales' = PutAll(sales, [id \in Ids("rushsale") |-> sale(id)])
      /\ upgrades' = PutAll(upgrades, [id \in Ids("rushupgrade") |-> upgrade(id)])
      /\ UNCHANGED <<orders, logs, grabStats, partly>>
  BY AddUpgradesBooks DEF AddUpgrades, history
<1>2. \A id : /\ sale(id).grabbed = 0 /\ sale(id).total_grabs = 0
              /\ upgrade(id).grabbed = 0 /\ upgrade(id).total_grabs = 0
  BY DEF Restocked, FreshSale, FreshUpgrade
<1>3. DOMAIN items \subseteq Nat \ {0}
  BY ItemCounts
<1>4. \A kind : \A id \in Ids(kind) : id \notin DOMAIN sales /\ id \notin DOMAIN upgrades
  BY <1>3 DEF GrabInv, Numbering
<1> HIDE DEF Ids, sale, upgrade
<1>5. SameDraws(sales, sales')
  BY <1>1, <1>2, <1>4 DEF SameDraws, PutAll
<1>6. SameDraws(upgrades, upgrades')
  BY <1>1, <1>2, <1>4 DEF SameDraws, PutAll
<1> QED
  BY <1>1, <1>5, <1>6 DEF NothingDrawn

\* Every step keeps the rows and the counters together.
LEMMA RecordsStep ==
  ASSUME GrabInv, IsHoldings(bal), DrawsAreRecorded, [Next]_vars
  PROVE  DrawsAreRecorded'
<1>1. \A k \in Amounts : k \in Nat
  BY NftAssumption DEF NftAssumption
<1>2. CASE NothingDrawn
  BY <1>2, RecordsRest DEF NothingDrawn
<1>3. CASE ShowSide \/ Ledger \/ GrabConfig \/ UNCHANGED vars
  <2>1. UNCHANGED <<sales, upgrades, orders, logs, grabStats, partly>>
    BY <1>3 DEF ShowSide, Ledger, GrabConfig, vars, grabVars, history
  <2> QED
    BY <1>2, <2>1, NoDraws DEF NothingDrawn
<1>4. CASE Showman
  <2>1. ASSUME NEW s, NEW dates, NEW free, NEW grades, PublishShow(s, dates, free, grades)
        PROVE  UNCHANGED <<sales, upgrades, orders, logs, grabStats, partly>>
    BY <2>1 DEF PublishShow, grabVars
  <2> QED
    BY <1>2, <1>4, <2>1, NoDraws, AddUpgradesDrawsNothing DEF Showman, NothingDrawn
<1>5. CASE Restock
  BY <1>1, <1>2, <1>5, RestockDrawsNothing DEF Restock
<1>6. CASE Draw
  <2>1. ASSUME NEW u \in Fans, NEW id, NEW g, NEW paid, Grab(u, id, g, paid)
        PROVE  DrawsAreRecorded'
    <3>1. PICK win \in BOOLEAN : SaleDraw(u, id, g, win)
      BY <2>1, GrabIsSaleDraw
    <3> QED
      BY <3>1, SaleDrawRecorded
  <2>2. ASSUME NEW u \in Fans, NEW id, NEW g, NEW extra \in Extras,
               RushUpgradeDraw(u, id, g, extra)
        PROVE  DrawsAreRecorded'
    <3>1. u \in Accounts /\ extra \in [Nids -> Nat] /\ id \in DOMAIN upgrades
      BY <2>2, Parties, GrabAssumption DEF GrabAssumption, RushUpgradeDraw
    <3>2. PICK win \in BOOLEAN : DrawEffect(u, id, g, extra, win)
      BY <2>2, <3>1, DrawEffects
    <3>3. UNCHANGED <<orders, grabStats, partly>>
      BY <2>2 DEF RushUpgradeDraw
    <3> QED
      BY <3>1, <3>2, <3>3, UpgradeDrawRecorded
  <2> QED
    BY <1>6, <2>1, <2>2 DEF Draw
<1>7. CASE Campaigns
  BY <1>2, <1>7, CampaignsDrawNothing
<1>8. CASE Cleanup
  BY <1>8, SaleCleaned, UpgradeCleaned DEF Cleanup
<1>9. CASE TakeBack
  BY <1>1, <1>2, <1>9, TakeBackDrawsNothing DEF TakeBack
<1> QED
  BY <1>3, <1>4, <1>5, <1>6, <1>7, <1>8, <1>9 DEF Next

\* The rows are the evidence of the counters: a campaign no cleanup has
\* touched has a row for each draw and a winning row for each ticket it gave
\* away, and a sale has counted each user's draws.
THEOREM DrawsStayRecorded == Spec => []DrawsAreRecorded
<1>1. Init => CustodyInv /\ DrawsAreRecorded
  <2>1. Init => DOMAIN sales = {} /\ DOMAIN upgrades = {}
    BY DEF Init, EmptyTable
  <2> QED
    BY <2>1, CustodyStart DEF DrawsAreRecorded
<1>2. CustodyInv /\ [Next]_vars => CustodyInv'
  BY CustodyKept
<1>3. CustodyInv /\ DrawsAreRecorded /\ [Next]_vars => DrawsAreRecorded'
  BY RecordsStep DEF CustodyInv, StoreInv, Holdings
<1> QED
  BY <1>1, <1>2, <1>3, PTL DEF Spec

\* The books of every campaign agree with each other, with the rows that
\* remember who drew and staked, and with what grab.cisum owns.
THEOREM CampaignBooksHold == Spec => []CampaignBooks
<1>1. CampaignAccounting /\ NoOrphanRows /\ DrawsAreRecorded /\ GrabSolvent => CampaignBooks
  BY DEF CampaignBooks
<1> QED
  BY <1>1, CampaignsBalance, RowsHaveCampaigns, DrawsStayRecorded, GrabStaysSolvent, PTL


-----------------------------------------------------------------------------
(***************************************************************************)
(* Winning twice.                                                          *)
(***************************************************************************)

\* Every win of a campaign that no cleanup has touched still has its row, so
\* that the by_userwin index finds it.
Remembered(T, rows) ==
  \A won \in everWon : won[1] \in DOMAIN T \ partly => HasWon(InScope(rows, won[1]), won[2])

WinsInv ==
  /\ \A won \in everWon : won[1] <= lastRushId
  /\ Remembered(sales, orders) /\ Remembered(upgrades, logs)

\* No draw of this step wins for an account that has won in its campaign before,
\* but in a campaign that a cleanup has left half cleared.
NoSecondWin ==
  \A row \in (orders' \ orders) \cup (logs' \ logs) :
    row.win /\ row.scope \notin partly => <<row.scope, row.account>> \notin everWon

\* A step without a draw or a cleanup: the campaigns it opens have new numbers.
NoWin ==
  /\ UNCHANGED <<orders, logs, everWon, partly>> /\ lastRushId' \in Nat
  /\ lastRushId' >= lastRushId
  /\ \A id \in DOMAIN sales' \ DOMAIN sales : id > lastRushId
  /\ \A id \in DOMAIN upgrades' \ DOMAIN upgrades : id > lastRushId

\* Such a step forgets no win.
LEMMA NoWinKeeps ==
  ASSUME GrabInv, WinsInv, NoWin
  PROVE  WinsInv' /\ NoSecondWin
<1>1. /\ \A won \in everWon : won[1] \in Nat /\ won[1] <= lastRushId
      /\ lastRushId \in Nat
  BY DEF GrabInv, HistoryOK, Numbering, WinsInv
<1>2. \A won \in everWon : /\ won[1] \in DOMAIN sales' => won[1] \in DOMAIN sales
                           /\ won[1] \in DOMAIN upgrades' => won[1] \in DOMAIN upgrades
  BY <1>1 DEF NoWin
<1>3. \A won \in everWon' : won[1] <= lastRushId'
  BY <1>1 DEF NoWin
<1>4. Remembered(sales, orders)' /\ Remembered(upgrades, logs)'
  BY <1>2 DEF NoWin, WinsInv, Remembered
<1> QED
  BY <1>3, <1>4 DEF WinsInv, NoSecondWin, NoWin

\* What a draw remembers: a row for account u in campaign id, and the win.
WinRow(rows, new, id, u, win) ==
  /\ ~HasWon(InScope(rows, id), u)
  /\ \E row : row.scope = id /\ row.account = u /\ row.win = win /\ new = rows \cup {row}
  /\ everWon' = IF win THEN everWon \cup {<<id, u>>} ELSE everWon
  /\ UNCHANGED <<partly, lastRushId>>

\* A draw of a sale, whose check by_userwin finds every win it remembers.
LEMMA SaleWins ==
  ASSUME GrabInv, WinsInv, NEW id \in DOMAIN sales, NEW u, NEW win \in BOOLEAN,
         WinRow(orders, orders', id, u, win), DOMAIN sales' = DOMAIN sales,
         UNCHANGED <<upgrades, logs>>
  PROVE  WinsInv' /\ NoSecondWin
<1>1. PICK row : row.scope = id /\ row.account = u /\ row.win = win /\ orders' = orders \cup {row}
  BY DEF WinRow
<1>2. everWon \subseteq everWon' /\ (everWon' = everWon \/ (win /\ everWon' = everWon \cup {<<id, u>>}))
  BY DEF WinRow
<1>3. id <= lastRushId /\ id \notin DOMAIN upgrades
  BY DEF GrabInv, Numbering
<1>4. \A won \in everWon' : won[1] <= lastRushId'
  BY <1>2, <1>3 DEF WinsInv, WinRow
<1>5. ASSUME NEW won \in everWon', won[1] \in DOMAIN sales' \ partly'
      PROVE  HasWon(InScope(orders', won[1]), won[2])
  <2>1. CASE won \in everWon
    BY <1>1, <1>5, <2>1 DEF WinsInv, Remembered, HasWon, InScope, WinRow
  <2>2. CASE win /\ won = <<id, u>>
    BY <1>1, <2>2 DEF HasWon, InScope
  <2> QED
    BY <1>2, <2>1, <2>2
<1>6. ASSUME NEW won \in everWon', won[1] \in DOMAIN upgrades' \ partly'
      PROVE  HasWon(InScope(logs', won[1]), won[2])
  <2>1. won \in everWon
    BY <1>2, <1>3, <1>6
  <2> QED
    BY <1>6, <2>1 DEF WinsInv, Remembered, WinRow
<1>7. NoSecondWin
  <2>1. \A r \in (orders' \ orders) \cup (logs' \ logs) : r = row
    BY <1>1
  <2>2. id \notin partly => <<id, u>> \notin everWon
    BY DEF WinsInv, Remembered, WinRow
  <2> QED
    BY <1>1, <2>1, <2>2 DEF NoSecondWin
<1> QED
  BY <1>4, <1>5, <1>6, <1>7 DEF WinsInv, Remembered

\* The same for a draw of an upgrade.
LEMMA UpgradeWins ==
  ASSUME GrabInv, WinsInv, NEW id \in DOMAIN upgrades, NEW u, NEW win \in BOOLEAN,
         WinRow(logs, logs', id, u, win), DOMAIN upgrades' = DOMAIN upgrades,
         UNCHANGED <<sales, orders>>
  PROVE  WinsInv' /\ NoSecondWin
<1>1. PICK row : row.scope = id /\ row.account = u /\ row.win = win /\ logs' = logs \cup {row}
  BY DEF WinRow
<1>2. everWon \subseteq everWon' /\ (everWon' = everWon \/ (win /\ everWon' = everWon \cup {<<id, u>>}))
  BY DEF WinRow
<1>3. id <= lastRushId /\ id \notin DOMAIN sales
  BY DEF GrabInv, Numbering
<1>4. \A won \in everWon' : won[1] <= lastRushId'
  BY <1>2, <1>3 DEF WinsInv, WinRow
<1>5. ASSUME NEW won \in everWon', won[1] \in DOMAIN upgrades' \ partly'
      PROVE  HasWon(InScope(logs', won[1]), won[2])
  <2>1. CASE won \in everWon
    BY <1>1, <1>5, <2>1 DEF WinsInv, Remembered, HasWon, InScope, WinRow
  <2>2. CASE win /\ won = <<id, u>>
    BY <1>1, <2>2 DEF HasWon, InScope
  <2> QED
    BY <1>2, <2>1, <2>2
<1>6. ASSUME NEW won \in everWon', won[1] \in DOMAIN sales' \ partly'
      PROVE  HasWon(InScope(orders', won[1]), won[2])
  <2>1. won \in everWon
    BY <1>2, <1>3, <1>6
  <2> QED
    BY <1>6, <2>1 DEF WinsInv, Remembered, WinRow
<1>7. NoSecondWin
  <2>1. \A r \in (orders' \ orders) \cup (logs' \ logs) : r = row
    BY <1>1
  <2>2. id \notin partly => <<id, u>> \notin everWon
    BY DEF WinsInv, Remembered, WinRow
  <2> QED
    BY <1>1, <2>1, <2>2 DEF NoSecondWin
<1> QED
  BY <1>4, <1>5, <1>6, <1>7 DEF WinsInv, Remembered

\* The rows of campaign id, alone, are cleaned up.
CleanedAt(T, U, rows, new, id) ==
  /\ DOMAIN U \subseteq DOMAIN T
  /\ \A x : x # id => InScope(new, x) = InScope(rows, x)
  /\ new \subseteq rows
  /\ id \in DOMAIN U => id \in partly'

\* A cleanup forgets wins of the campaign it works on alone, which is gone or
\* marked afterwards.
LEMMA CleanupForgets ==
  ASSUME WinsInv, NEW id, partly \subseteq partly', UNCHANGED <<everWon, lastRushId>>,
         \/ CleanedAt(sales, sales', orders, orders', id) /\ UNCHANGED <<upgrades, logs>>
         \/ CleanedAt(upgrades, upgrades', logs, logs', id) /\ UNCHANGED <<sales, orders>>
  PROVE  WinsInv' /\ NoSecondWin
<1>1. Remembered(sales, orders)'
  BY DEF WinsInv, Remembered, CleanedAt
<1>2. Remembered(upgrades, logs)'
  BY DEF WinsInv, Remembered, CleanedAt
<1> QED
  BY <1>1, <1>2 DEF WinsInv, NoSecondWin, CleanedAt

\* Opening, changing and stocking campaigns wins nothing.
LEMMA QuietWins ==
  ASSUME GrabInv, ~ Draw, ~ Cleanup, [Next]_vars
  PROVE  NoWin
<1>1. lastRushId \in Nat /\ UNCHANGED lastRushId => lastRushId' \in Nat /\ lastRushId' >= lastRushId
  OBVIOUS
<1>2. lastRushId \in Nat
  BY DEF GrabInv, Numbering
<1>3. CASE ShowSide \/ Ledger \/ GrabConfig \/ UNCHANGED vars
  BY <1>1, <1>2, <1>3 DEF ShowSide, Ledger, GrabConfig, vars, grabVars, history, NoWin
<1>4. CASE Restock
  BY <1>1, <1>2, <1>4 DEF Restock, OnAddRushSale, OnAddRushUpgrade, history, NoWin
<1>5. CASE TakeBack
  BY <1>1, <1>2, <1>5 DEF TakeBack, SubRushSale, SubRushUpgrade, history, NoWin
<1>6. CASE Campaigns
  <2> DEFINE Opens(ids) == /\ DOMAIN sales' \subseteq DOMAIN sales \cup ids
                           /\ DOMAIN upgrades' \subseteq DOMAIN upgrades \cup ids
                           /\ UNCHANGED <<orders, logs, everWon, partly>>
             New == lastRushId' = lastRushId + 1 /\ Opens({lastRushId + 1})
             Old == lastRushId' = lastRushId /\ Opens({})
  <2>1. ASSUME NEW s, NEW n, NEW w, NEW price, NEW limit, NEW ratio, NEW sig,
               AddRushSale(sig, s, n, w, price, limit, ratio)
        PROVE  New
    BY <2>1 DEF AddRushSale, Put, history
  <2>2. ASSUME NEW s, NEW n, NEW w, NEW pay, NEW ratio, NEW sig, AddUpgrade(sig, s, n, pay, w, ratio)
        PROVE  New
    BY <2>2 DEF AddUpgrade, Put, history
  <2>3. ASSUME NEW id, NEW price, NEW limit, NEW ratio, NEW sig, NEW from, NEW to,
               SetRushSale(sig, id, price, limit, ratio, from, to)
        PROVE  Old
    BY <2>3 DEF SetRushSale, history
  <2>4. ASSUME NEW id, NEW pay, NEW ratio, NEW sig, NEW from, NEW to,
               SetUpgrade(sig, id, pay, ratio, from, to)
        PROVE  Old
    BY <2>4 DEF SetUpgrade, history
  <2>5. New \/ Old => NoWin
    BY <1>2 DEF NoWin
  <2> HIDE DEF New, Old
  <2> QED
    BY <1>6, <2>1, <2>2, <2>3, <2>4, <2>5 DEF Campaigns
<1>7. CASE Showman
  <2>1. ASSUME NEW s, NEW dates, NEW free, NEW grades, PublishShow(s, dates, free, grades)
        PROVE  NoWin
    BY <1>1, <1>2, <2>1 DEF PublishShow, grabVars, NoWin
  <2>2. ASSUME NEW s, NEW items \in Rushes, AddUpgrades(s, items)
        PROVE  NoWin
    <3> DEFINE Ids(kind) == {lastRushId + i : i \in {j \in DOMAIN items : items[j].kind = kind}}
    <3>1. /\ DOMAIN sales' = DOMAIN sales \cup Ids("rushsale")
          /\ DOMAIN upgrades' = DOMAIN upgrades \cup Ids("rushupgrade")
      BY <1>2, <2>2, AddUpgradesBooks DEF PutAll
    <3>2. lastRushId' = lastRushId + Len(items) /\ UNCHANGED <<orders, logs, everWon, partly>>
      BY <2>2 DEF AddUpgrades, history
    <3>3. DOMAIN items \subseteq Nat \ {0} /\ Len(items) \in Nat
      BY ItemCounts
    <3>4. \A kind : \A x \in Ids(kind) : x > lastRushId
      BY <1>2, <3>3
    <3> HIDE DEF Ids
    <3> QED
      BY <1>2, <3>1, <3>2, <3>3, <3>4 DEF NoWin
  <2> QED
    BY <1>7, <2>1, <2>2 DEF Showman
<1> QED
  BY <1>3, <1>4, <1>5, <1>6, <1>7 DEF Next

\* Draws and cleanups.
LEMMA WinsStep ==
  ASSUME GrabInv, WinsInv, [Next]_vars
  PROVE  WinsInv' /\ NoSecondWin
<1>1. CASE Draw
  <2>1. ASSUME NEW u, NEW id, NEW g, NEW paid, Grab(u, id, g, paid)
        PROVE  WinsInv' /\ NoSecondWin
    <3>1. PICK rnd \in 0..RatioBase - 1 :
            /\ orders' = orders \cup
                 {[scope |-> id, id |-> lastOrderId + 1, grab_id |-> g, account |-> u,
                   win |-> rnd < sales[id].win_ratio]}
            /\ sales' = [sales EXCEPT ![id] = Drawn(@, rnd < sales[id].win_ratio)]
            /\ RecordWin(id, u, rnd < sales[id].win_ratio)
      BY <2>1 DEF Grab
    <3> DEFINE win == rnd < sales[id].win_ratio
    <3>2. win \in BOOLEAN
      OBVIOUS
    <3> HIDE DEF win
    <3>3. /\ id \in DOMAIN sales /\ ~HasWon(InScope(orders, id), u)
          /\ UNCHANGED <<upgrades, logs, partly, lastRushId>>
      BY <2>1 DEF Grab
    <3>4. DOMAIN sales' = DOMAIN sales
      BY <3>1
    <3>5. WinRow(orders, orders', id, u, win)
      BY <3>1, <3>3 DEF win, WinRow, RecordWin
    <3> QED
      BY <3>2, <3>3, <3>4, <3>5, SaleWins
  <2>2. ASSUME NEW u, NEW id, NEW g, NEW extra, RushUpgradeDraw(u, id, g, extra)
        PROVE  WinsInv' /\ NoSecondWin
    <3> DEFINE pay == upgrades[id].pay_tickets
    <3>1. PICK rnd \in 0..RatioBase - 1 :
            /\ upgrades' = [upgrades EXCEPT ![id] = Drawn(@, rnd < upgrades[id].win_ratio)]
            /\ logs' = logs \cup
                 {[scope |-> id, id |-> lastOrderId + 1, grab_id |-> g, account |-> u,
                   from |-> pay, win |-> rnd < upgrades[id].win_ratio]}
            /\ RecordWin(id, u, rnd < upgrades[id].win_ratio)
      BY <2>2 DEF RushUpgradeDraw
    <3> HIDE DEF pay
    <3> DEFINE win == rnd < upgrades[id].win_ratio
    <3>2. win \in BOOLEAN
      OBVIOUS
    <3> HIDE DEF win
    <3>3. /\ id \in DOMAIN upgrades /\ ~HasWon(InScope(logs, id), u)
          /\ UNCHANGED <<sales, orders, partly, lastRushId>>
      BY <2>2 DEF RushUpgradeDraw
    <3>4. DOMAIN upgrades' = DOMAIN upgrades
      BY <3>1
    <3>5. WinRow(logs, logs', id, u, win)
      BY <3>1, <3>3 DEF win, WinRow, RecordWin
    <3> QED
      BY <3>2, <3>3, <3>4, <3>5, UpgradeWins
  <2> QED
    BY <1>1, <2>1, <2>2 DEF Draw
<1>2. CASE Cleanup
  <2>1. ASSUME NEW sig, NEW id, NEW forced, DelRushSale(sig, id, forced)
        PROVE  WinsInv' /\ NoSecondWin
    <3> DEFINE page == Page(InScope(orders, id), MaxClear)
    <3>1. /\ orders' = orders \ page
          /\ UNCHANGED <<upgrades, logs, everWon, lastRushId>>
          /\ \/ partly' = partly \cup {id} /\ UNCHANGED sales
             \/ sales' = Drop(sales, id) /\ UNCHANGED partly
      BY <2>1 DEF DelRushSale
    <3>2. page \subseteq InScope(orders, id)
      BY DEF Page
    <3> HIDE DEF page
    <3>3. CleanedAt(sales, sales', orders, orders', id) /\ partly \subseteq partly'
      BY <3>1, <3>2 DEF CleanedAt, InScope, Drop
    <3> QED
      BY <3>1, <3>3, CleanupForgets
  <2>2. ASSUME NEW sig, NEW id, DelUpgrade(sig, id)
        PROVE  WinsInv' /\ NoSecondWin
    <3> DEFINE page == Page(InScope(logs, id), MaxUpgrade)
    <3>1. /\ logs' = logs \ page
          /\ UNCHANGED <<sales, orders, everWon, lastRushId>>
          /\ \/ partly' = partly \cup {id} /\ UNCHANGED upgrades
             \/ upgrades' = Drop(upgrades, id) /\ UNCHANGED partly
      BY <2>2 DEF DelUpgrade
    <3>2. page \subseteq InScope(logs, id)
      BY DEF Page
    <3> HIDE DEF page
    <3>3. CleanedAt(upgrades, upgrades', logs, logs', id) /\ partly \subseteq partly'
      BY <3>1, <3>2 DEF CleanedAt, InScope, Drop
    <3> QED
      BY <3>1, <3>3, CleanupForgets
  <2> QED
    BY <1>2, <2>1, <2>2 DEF Cleanup
<1>3. CASE ~ Draw /\ ~ Cleanup
  BY <1>3, QuietWins, NoWinKeeps
<1> QED
  BY <1>1, <1>2, <1>3

\* The check by_userwin does what its comment promises as long as no cleanup has
\* been left half way: a second win in a campaign is always one in a campaign of
\* which delrushsale or delupgrade has erased some rows and not all, and that is
\* how WinsOnce comes to be violated.
THEOREM SecondWinNeedsCleanup == Spec => [][NoSecondWin]_vars
<1>1. Init => GrabInv /\ WinsInv
  BY CirculationStart DEF Init, WinsInv, Remembered
<1>2. GrabInv /\ WinsInv /\ [Next]_vars => GrabInv' /\ WinsInv' /\ NoSecondWin
  BY WinsStep, CirculationStep
<1> QED
  BY <1>1, <1>2, PTL DEF Spec

-----------------------------------------------------------------------------
(***************************************************************************)
(* Cleanups come to an end.                                                *)
(***************************************************************************)

\* The first row in key order is on the page.
LEMMA PageTakesSome ==
  ASSUME NEW rows, rows # {}, \A row \in rows : row.id \in Nat, NEW max \in Nat \ {0}
  PROVE  Page(rows, max) # {}
<1> DEFINE B == {row.id : row \in rows}
<1>1. B \subseteq Nat /\ B # {}
  OBVIOUS
<1> HIDE DEF B
<1>2. PICK x \in B : \A y \in B : ~ (<<y, x>> \in OpToRel(<, Nat))
  BY <1>1, NatLessThanWellFounded, WFMin
<1>3. \A y \in B : ~ (y < x)
  <2>1. \A a, b \in Nat : b < a => <<b, a>> \in OpToRel(<, Nat)
    BY DEF OpToRel
  <2> QED
    BY <1>1, <1>2, <2>1
<1>4. PICK row \in rows : row.id = x
  BY <1>2 DEF B
<1>5. {r \in rows : r.id < row.id} = {}
  BY <1>3, <1>4 DEF B
<1>6. Cardinality({r \in rows : r.id < row.id}) < max
  BY <1>5, FS_EmptySet
<1> QED
  BY <1>6 DEF Page

\* How much there is to do before upgrade id is closed, draws that may still come
\* included: each of them leaves one log.
DrawsLeft(last) == IF last <= MaxOrderId THEN MaxOrderId - last ELSE 0

Work(id) == 2 * DrawsLeft(lastOrderId) + Cardinality(InScope(logs, id))

\* No step makes more work for an upgrade that is open, and a call of delupgrade
\* that it admits makes less, or closes it.
ClosingProgresses ==
  \A id \in DOMAIN upgrades :
    /\ Work(id) \in Nat /\ Work(id)' <= Work(id)
    /\ CleanUpgrade(id) => id \notin DOMAIN upgrades' \/ Work(id)' < Work(id)

\* Steps that draw nothing.
Undrawn == logs' \subseteq logs /\ lastOrderId' \in Nat /\ lastOrderId' >= lastOrderId

\* Every draw leaves fewer to come.
LEMMA DrawsRunOut ==
  ASSUME NEW m \in Nat, NEW n \in Nat, m <= n
  PROVE  /\ DrawsLeft(m) \in Nat /\ DrawsLeft(n) \in Nat /\ DrawsLeft(n) <= DrawsLeft(m)
         /\ m < MaxOrderId => DrawsLeft(m + 1) = DrawsLeft(m) - 1
<1>1. MaxOrderId \in Nat
  BY GrabAssumption DEF GrabAssumption
<1> QED
  BY <1>1 DEF DrawsLeft

\* Such a step makes no work.
LEMMA UndrawnWork ==
  ASSUME GrabInv, Undrawn, NEW id
  PROVE  Work(id) \in Nat /\ Work(id)' <= Work(id)
<1>1. lastOrderId \in Nat /\ MaxOrderId \in Nat
  BY GrabAssumption DEF GrabInv, Numbering, GrabAssumption
<1>2. /\ DrawsLeft(lastOrderId) \in Nat /\ DrawsLeft(lastOrderId') \in Nat
      /\ DrawsLeft(lastOrderId') <= DrawsLeft(lastOrderId)
  BY <1>1, DrawsRunOut DEF Undrawn
<1>3. IsFiniteSet(InScope(logs, id)) /\ InScope(logs', id) \subseteq InScope(logs, id)
  BY ScopesAreFinite DEF ScopesFinite, InScope, Undrawn
<1>4. /\ Cardinality(InScope(logs, id)) \in Nat /\ Cardinality(InScope(logs', id)) \in Nat
      /\ Cardinality(InScope(logs', id)) <= Cardinality(InScope(logs, id))
  BY <1>3, FS_CardinalityType, FS_Subset
<1>5. Work(id)' = 2 * DrawsLeft(lastOrderId') + Cardinality(InScope(logs', id))
  BY DEF Work, InScope, DrawsLeft
<1> QED
  BY <1>2, <1>4, <1>5 DEF Work

\* A draw uses up an order number and leaves one log.
LEMMA DrawWork ==
  ASSUME GrabInv, lastOrderId < MaxOrderId, lastOrderId' = lastOrderId + 1,
         NEW row, logs' = logs \cup {row}, NEW id
  PROVE  Work(id) \in Nat /\ Work(id)' <= Work(id)
<1>1. lastOrderId \in Nat /\ MaxOrderId \in Nat
  BY GrabAssumption DEF GrabInv, Numbering, GrabAssumption
<1>2. /\ DrawsLeft(lastOrderId) \in Nat
      /\ DrawsLeft(lastOrderId') = DrawsLeft(lastOrderId) - 1
  BY <1>1, DrawsRunOut
<1> DEFINE rows == InScope(logs, id)
<1>3. IsFiniteSet(rows) /\ InScope(logs', id) \subseteq rows \cup {row}
  BY ScopesAreFinite DEF ScopesFinite, InScope
<1> HIDE DEF rows
<1>4. /\ Cardinality(rows) \in Nat /\ IsFiniteSet(rows \cup {row})
      /\ Cardinality(rows \cup {row}) <= Cardinality(rows) + 1
  <2>1. Cardinality(rows) \in Nat
    BY <1>3, FS_CardinalityType
  <2>2. /\ IsFiniteSet(rows \cup {row})
        /\ \/ Cardinality(rows \cup {row}) = Cardinality(rows)
           \/ Cardinality(rows \cup {row}) = Cardinality(rows) + 1
    BY <1>3, FS_AddElement
  <2> QED
    BY <2>1, <2>2
<1>5. /\ Cardinality(InScope(logs', id)) \in Nat
      /\ Cardinality(InScope(logs', id)) <= Cardinality(rows \cup {row})
      /\ Cardinality(rows \cup {row}) \in Nat
  BY <1>3, <1>4, FS_Subset, FS_CardinalityType
<1>6. Cardinality(InScope(logs', id)) <= Cardinality(rows) + 1
  BY <1>4, <1>5
<1>7. Work(id) = 2 * DrawsLeft(lastOrderId) + Cardinality(rows)
  BY DEF Work, rows
<1>8. Work(id)' = 2 * DrawsLeft(lastOrderId') + Cardinality(InScope(logs', id))
  BY DEF Work, InScope, DrawsLeft
<1> QED
  BY <1>2, <1>4, <1>5, <1>6, <1>7, <1>8

\* A call of delupgrade takes a page of logs, or the upgrade had none.
LEMMA CleanupWork ==
  ASSUME GrabInv, NEW sig, NEW id, DelUpgrade(sig, id)
  PROVE  id \notin DOMAIN upgrades' \/ Work(id)' < Work(id)
<1> DEFINE rows == InScope(logs, id)
           page == Page(rows, MaxUpgrade)
<1>1. /\ logs' = logs \ page /\ UNCHANGED lastOrderId
      /\ page = rows => upgrades' = Drop(upgrades, id)
  BY DEF DelUpgrade, Done
<1>2. page = rows => id \notin DOMAIN upgrades'
  BY <1>1 DEF Drop
<1>3. CASE page # rows
  <2>1. IsFiniteSet(rows) /\ \A row \in rows : row.id \in Nat
    BY ScopesAreFinite DEF ScopesFinite, GrabInv, RowsOK, UpgradeLog, InScope
  <2>2. page \subseteq rows
    BY DEF Page
  <2>3. MaxUpgrade \in Nat \ {0}
    BY GrabAssumption DEF GrabAssumption
  <2>4. rows # {} /\ page # {}
    BY <1>3, <2>1, <2>2, <2>3, PageTakesSome
  <2>5. InScope(logs', id) = rows \ page
    BY <1>1 DEF InScope
  <2> HIDE DEF page, rows
  <2>6. IsFiniteSet(rows \ page) /\ rows \ page \subseteq rows /\ rows \ page # rows
    BY <2>1, <2>2, <2>4, FS_Subset
  <2>7. /\ Cardinality(rows \ page) \in Nat /\ Cardinality(rows) \in Nat
        /\ Cardinality(rows \ page) < Cardinality(rows)
    BY <2>1, <2>6, FS_Subset, FS_CardinalityType
  <2>8. DrawsLeft(lastOrderId) \in Nat
    BY DrawsRunOut DEF GrabInv, Numbering
  <2>9. Work(id)' = 2 * DrawsLeft(lastOrderId) + Cardinality(rows \ page)
    BY <1>1, <2>5 DEF Work, InScope, DrawsLeft
  <2>10. Work(id) = 2 * DrawsLeft(lastOrderId) + Cardinality(rows)
    BY DEF Work, rows
  <2> QED
    BY <2>7, <2>8, <2>9, <2>10
<1> QED
  BY <1>2, <1>3

\* Only draws make work.
LEMMA WorkStep ==
  ASSUME GrabInv, [Next]_vars
  PROVE  ClosingProgresses
<1>1. lastOrderId \in Nat
  BY DEF GrabInv, Numbering
<1>2. \A id : CleanUpgrade(id) => id \notin DOMAIN upgrades' \/ Work(id)' < Work(id)
  BY CleanupWork DEF CleanUpgrade
<1>3. CASE Undrawn
  BY <1>2, <1>3, UndrawnWork DEF ClosingProgresses
<1>4. CASE ShowSide \/ Ledger \/ GrabConfig \/ UNCHANGED vars
  BY <1>1, <1>3, <1>4 DEF ShowSide, Ledger, GrabConfig, vars, grabVars, Undrawn
<1>5. CASE Showman
  <2>1. ASSUME NEW s, NEW dates, NEW free, NEW grades, PublishShow(s, dates, free, grades)
        PROVE  Undrawn
    BY <1>1, <2>1 DEF PublishShow, grabVars, Undrawn
  <2>2. ASSUME NEW s, NEW items, AddUpgrades(s, items)
        PROVE  Undrawn
    BY <1>1, <2>2 DEF AddUpgrades, Undrawn
  <2> QED
    BY <1>3, <1>5, <2>1, <2>2 DEF Showman
<1>6. CASE Restock
  BY <1>1, <1>3, <1>6 DEF Restock, OnAddRushSale, OnAddRushUpgrade, Undrawn
<1>7. CASE Campaigns
  <2>1. ASSUME NEW sig, NEW s, NEW n, NEW w, NEW price, NEW limit, NEW ratio,
               AddRushSale(sig, s, n, w, price, limit, ratio)
        PROVE  Undrawn
    BY <1>1, <2>1 DEF AddRushSale, Undrawn
  <2>2. ASSUME NEW sig, NEW s, NEW n, NEW pay, NEW w, NEW ratio,
               AddUpgrade(sig, s, n, pay, w, ratio)
        PROVE  Undrawn
    BY <1>1, <2>2 DEF AddUpgrade, Undrawn
  <2>3. ASSUME NEW sig, NEW id, NEW price, NEW limit, NEW ratio, NEW from, NEW to,
               SetRushSale(sig, id, price, limit, ratio, from, to)
        PROVE  Undrawn
    BY <1>1, <2>3 DEF SetRushSale, Undrawn
  <2>4. ASSUME NEW sig, NEW id, NEW pay, NEW ratio, NEW from, NEW to,
               SetUpgrade(sig, id, pay, ratio, from, to)
        PROVE  Undrawn
    BY <1>1, <2>4 DEF SetUpgrade, Undrawn
  <2> QED
    BY <1>3, <1>7, <2>1, <2>2, <2>3, <2>4 DEF Campaigns
<1>8. CASE TakeBack
  BY <1>1, <1>3, <1>8 DEF TakeBack, SubRushSale, SubRushUpgrade, Undrawn
<1>9. CASE Cleanup
  BY <1>1, <1>3, <1>9 DEF Cleanup, DelRushSale, DelUpgrade, Undrawn
<1>10. CASE Draw
  <2>1. ASSUME NEW u, NEW id, NEW g, NEW paid, Grab(u, id, g, paid)
        PROVE  Undrawn
    BY <1>1, <2>1 DEF Grab, Undrawn
  <2>2. ASSUME NEW u, NEW id, NEW g, NEW extra, RushUpgradeDraw(u, id, g, extra)
        PROVE  ClosingProgresses
    <3>1. /\ lastOrderId < MaxOrderId /\ lastOrderId' = lastOrderId + 1
          /\ \E row : logs' = logs \cup {row}
      BY <2>2 DEF RushUpgradeDraw
    <3> QED
      BY <1>2, <3>1, DrawWork DEF ClosingProgresses
  <2> QED
    BY <1>3, <1>10, <2>1, <2>2 DEF Draw
<1> QED
  BY <1>4, <1>5, <1>6, <1>7, <1>8, <1>9, <1>10 DEF Next

\* Closing an upgrade is a matter of calling delupgrade often enough: no step
\* of anybody adds to the work, and every call that goes through takes some of
\* it (the argument behind UpgradesClose, which needs fairness besides).
THEOREM CleanupsTerminate == Spec => [][ClosingProgresses]_vars
<1>1. GrabInv /\ [Next]_vars => ClosingProgresses
  BY WorkStep
<1> QED
  BY <1>1, CirculationStart, CirculationStep, PTL DEF Spec

-----------------------------------------------------------------------------
(***************************************************************************)
(* Stakes are only lent.                                                   *)
(***************************************************************************)

LostBy(rows, u) == {log \in rows : log.account = u /\ ~log.win}

\* Wealth is what is held and what is lent.
LEMMA WealthIs == \A u, n : Wealth(u, n) = bal[u][n] + Staked(LostBy(logs, u), n)
BY DEF Wealth, LostBy

\* Sums over the rows of one account.
LEMMA LostIsNat ==
  ASSUME NEW rows, rows \subseteq UpgradeLog, IsFiniteSet(rows), NEW u, NEW n
  PROVE  Staked(LostBy(rows, u), n) \in Nat
<1>1. LostBy(rows, u) \subseteq rows
  BY DEF LostBy
<1> QED
  BY <1>1, FS_Subset, StakedIsNat

\* More rows, no smaller stakes.
LEMMA LostInMore ==
  ASSUME NEW rows, NEW more, more \subseteq UpgradeLog, IsFiniteSet(more),
         rows \subseteq more, NEW u, NEW n
  PROVE  Staked(LostBy(rows, u), n) <= Staked(LostBy(more, u), n)
<1>1. LostBy(more, u) \subseteq more /\ LostBy(rows, u) \in SUBSET LostBy(more, u)
  BY DEF LostBy
<1>2. LostBy(more, u) \subseteq UpgradeLog /\ IsFiniteSet(LostBy(more, u))
  BY <1>1, FS_Subset
<1> QED
  BY <1>1, <1>2, StakedInPart

\* What a page takes away from u's open stakes is due to u.
LEMMA LostOnPage ==
  ASSUME NEW rows, rows \subseteq UpgradeLog, IsFiniteSet(rows),
         NEW page \in SUBSET rows, NEW u, NEW n
  PROVE  Staked(LostBy(rows, u), n)
           <= Staked(LostBy(rows \ page, u), n)
              + Staked({log \in page : Destination(log) = u}, n)
<1> DEFINE all == LostBy(rows, u)
           part == LostBy(page, u)
           left == LostBy(rows \ page, u)
           due == {log \in page : Destination(log) = u}
<1>1. /\ all \subseteq rows /\ part \in SUBSET all /\ part \in SUBSET due /\ due \subseteq page
      /\ all \ part = left
  BY DEF LostBy, Destination
<1> HIDE DEF all, part, left, due
<1>2. /\ all \subseteq UpgradeLog /\ due \subseteq UpgradeLog
      /\ part \subseteq UpgradeLog /\ left \subseteq UpgradeLog
  BY <1>1
<1>3. IsFiniteSet(all) /\ due \subseteq rows
  BY <1>1, FS_Subset
<1>4. IsFiniteSet(due) /\ IsFiniteSet(part) /\ left \subseteq all
  BY <1>1, <1>3, FS_Subset
<1>5. IsFiniteSet(left)
  BY <1>3, <1>4, FS_Subset
<1>6. Staked(all, n) = Staked(part, n) + Staked(left, n)
  BY <1>1, <1>2, <1>3, StakedInParts
<1>7. Staked(part, n) <= Staked(due, n)
  BY <1>1, <1>2, <1>4, StakedInPart
<1>8. Staked(part, n) \in Nat /\ Staked(left, n) \in Nat /\ Staked(due, n) \in Nat
  BY <1>2, <1>4, <1>5, StakedIsNat
<1>9. Staked(all, n) <= Staked(left, n) + Staked(due, n)
  BY <1>6, <1>7, <1>8
<1> QED
  BY <1>9 DEF all, left, due

LogsOK == logs \subseteq UpgradeLog /\ IsFiniteSet(logs) /\ IsHoldings(bal)

\* Finitely many logs, and a well-formed ledger.
LEMMA LogsAreOK == CustodyInv => LogsOK
<1> SUFFICES ASSUME CustodyInv PROVE LogsOK
  OBVIOUS
<1>1. GrabInv /\ logs \subseteq UpgradeLog /\ IsHoldings(bal)
  BY DEF CustodyInv, GrabInv, RowsOK, StoreInv, Holdings
<1> QED
  BY <1>1, RowsFinite DEF LogsOK

\* What StakesComeBack asks of one step.
Lent ==
  \A u \in Fans, n \in Nids : bal'[u][n] >= bal[u][n] => Wealth(u, n)' >= Wealth(u, n)

\* Only the fan's own transfer makes a fan poorer.
LEMMA LentStep ==
  ASSUME CustodyInv, LogsOK, LogsOK', PaysTickets, [Next]_vars
  PROVE  Lent
<1>1. GrabInv /\ Fans \subseteq Accounts \ {GRAB}
  BY ShowAssumption DEF CustodyInv, ShowAssumption
<1>2. \A u \in Fans, n \in Nids :
        /\ bal[u][n] \in Nat /\ bal'[u][n] \in Nat
        /\ Staked(LostBy(logs, u), n) \in Nat /\ Staked(LostBy(logs', u), n) \in Nat
  BY <1>1, LostIsNat DEF LogsOK, IsHoldings
<1>3. \A u, n : Wealth(u, n)' = bal'[u][n] + Staked(LostBy(logs', u), n)
  BY DEF Wealth, LostBy, Staked
<1>4. ASSUME logs \subseteq logs' PROVE Lent
  <2>1. ASSUME NEW u \in Fans, NEW n \in Nids, bal'[u][n] >= bal[u][n]
        PROVE  Wealth(u, n)' >= Wealth(u, n)
    <3>1. Staked(LostBy(logs, u), n) <= Staked(LostBy(logs', u), n)
      BY <1>4, LostInMore DEF LogsOK
    <3> QED
      BY <1>2, <1>3, <2>1, <3>1, WealthIs
  <2> QED
    BY <2>1 DEF Lent
<1>5. ASSUME NEW sig, NEW id, DelUpgrade(sig, id) PROVE Lent
  <2> DEFINE page == Page(InScope(logs, id), MaxUpgrade)
  <2>1. logs' = logs \ page /\ page = Payable(page)
    BY <1>5 DEF DelUpgrade, Payable
  <2>2. page \in SUBSET logs
    BY DEF Page, InScope
  <2>3. ASSUME NEW u \in Fans, NEW n \in Nids
        PROVE  Wealth(u, n)' >= Wealth(u, n)
    <3> DEFINE due == {log \in page : Destination(log) = u}
    <3>1. bal'[u][n] = bal[u][n] + Staked(due, n)
      BY <1>1, <1>5, <2>1, SettleLedger DEF LogsOK
    <3>2. Staked(LostBy(logs, u), n) <= Staked(LostBy(logs', u), n) + Staked(due, n)
      BY <2>1, <2>2, LostOnPage DEF LogsOK
    <3>3. Staked(due, n) \in Nat
      <4>1. due \subseteq logs
        BY <2>2
      <4> HIDE DEF due
      <4>2. IsFiniteSet(due) /\ due \subseteq UpgradeLog
        BY <4>1, FS_Subset DEF LogsOK
      <4> QED
        BY <4>2, StakedIsNat
    <3> HIDE DEF due
    <3> QED
      BY <1>2, <1>3, <3>1, <3>2, <3>3, WealthIs
  <2> QED
    BY <2>3 DEF Lent
<1>6. CASE ShowSide \/ Ledger \/ GrabConfig \/ UNCHANGED vars
  BY <1>4, <1>6 DEF ShowSide, Ledger, GrabConfig, vars, grabVars
<1>7. CASE Showman
  <2>1. ASSUME NEW s, NEW dates, NEW free, NEW grades, PublishShow(s, dates, free, grades)
        PROVE  UNCHANGED logs
    BY <2>1 DEF PublishShow, grabVars
  <2>2. ASSUME NEW s, NEW items, AddUpgrades(s, items)
        PROVE  UNCHANGED logs
    BY <2>2 DEF AddUpgrades
  <2>3. UNCHANGED logs
    BY <1>7, <2>1, <2>2 DEF Showman
  <2> QED
    BY <1>4, <2>3
<1>8. CASE Restock
  BY <1>4, <1>8 DEF Restock, OnAddRushSale, OnAddRushUpgrade
<1>9. CASE Draw
  <2>1. ASSUME NEW u, NEW id, NEW g, NEW paid, Grab(u, id, g, paid)
        PROVE  UNCHANGED logs
    BY <2>1 DEF Grab
  <2>2. ASSUME NEW u, NEW id, NEW g, NEW extra, RushUpgradeDraw(u, id, g, extra)
        PROVE  logs \subseteq logs'
    BY <2>2 DEF RushUpgradeDraw
  <2> QED
    BY <1>4, <1>9, <2>1, <2>2 DEF Draw
<1>10. CASE Campaigns
  <2>1. UNCHANGED logs
    <3>1. ASSUME NEW sig, NEW s, NEW n, NEW w, NEW price, NEW limit, NEW ratio,
                 AddRushSale(sig, s, n, w, price, limit, ratio)
          PROVE  UNCHANGED logs
      BY <3>1 DEF AddRushSale
    <3>2. ASSUME NEW sig, NEW s, NEW n, NEW pay, NEW w, NEW ratio,
                 AddUpgrade(sig, s, n, pay, w, ratio)
          PROVE  UNCHANGED logs
      BY <3>2 DEF AddUpgrade
    <3>3. ASSUME NEW sig, NEW id, NEW price, NEW limit, NEW ratio, NEW start, NEW end,
                 SetRushSale(sig, id, price, limit, ratio, start, end)
          PROVE  UNCHANGED logs
      BY <3>3 DEF SetRushSale
    <3>4. ASSUME NEW sig, NEW id, NEW pay, NEW ratio, NEW start, NEW end,
                 SetUpgrade(sig, id, pay, ratio, start, end)
          PROVE  UNCHANGED logs
      BY <3>4 DEF SetUpgrade
    <3> QED
      BY <1>10, <3>1, <3>2, <3>3, <3>4 DEF Campaigns
  <2> QED
    BY <1>4, <2>1
<1>11. CASE Cleanup
  <2>1. ASSUME NEW sig, NEW id, NEW forced, DelRushSale(sig, id, forced)
        PROVE  UNCHANGED logs
    BY <2>1 DEF DelRushSale
  <2> QED
    BY <1>4, <1>5, <1>11, <2>1 DEF Cleanup
<1>12. CASE TakeBack
  BY <1>4, <1>12 DEF TakeBack, SubRushSale, SubRushUpgrade
<1> QED
  BY <1>6, <1>7, <1>8, <1>9, <1>10, <1>11, <1>12 DEF Next

\* As long as the configured ticket contract is the ledger, a stake that did
\* not win is only lent: no step of anybody but the fan's own transfer makes
\* the fan poorer, through every page of every cleanup.
THEOREM StakesAreLent == Spec /\ []PaysTickets => StakesComeBack
<1>1. Init => CustodyInv
  BY CustodyStart
<1>2. CustodyInv /\ [Next]_vars => CustodyInv'
  BY CustodyKept
<1>3. CustodyInv => LogsOK
  BY LogsAreOK
<1>4. CustodyInv /\ LogsOK /\ LogsOK' /\ PaysTickets /\ [Next]_vars => Lent
  BY LentStep
<1>5. Lent => [\A u \in Fans, n \in Nids :
                 bal'[u][n] >= bal[u][n] => Wealth(u, n)' >= Wealth(u, n)]_vars
  BY DEF Lent
<1> QED
  BY <1>1, <1>2, <1>3, <1>4, <1>5, PTL DEF Spec, StakesComeBack


\* Nobody repoints grab.cisum: the hypothesis of the two theorems on custody
\* holds when cfgticket is only ever given the ledger.
THEOREM LedgerStaysConfigured ==
  ASSUME ConfigAccts \subseteq {TICKET}
  PROVE  Spec => []PaysTickets
<1>1. Init => GrabInv /\ PaysTickets
  BY CirculationStart DEF Init, PaysTickets
<1>2. GrabInv /\ [Next]_vars => GrabInv'
  BY CirculationStep
<1>3. GrabInv /\ PaysTickets /\ [Next]_vars => PaysTickets'
  <2> SUFFICES ASSUME GrabInv, PaysTickets, [Next]_vars PROVE PaysTickets'
    OBVIOUS
  <2>1. ASSUME UNCHANGED grabConfig PROVE PaysTickets'
    BY <2>1 DEF PaysTickets
  <2>2. CASE ShowSide \/ Ledger \/ UNCHANGED vars
    BY <2>1, <2>2 DEF ShowSide, Ledger, vars, grabVars
  <2>3. CASE Showman
    <3>1. ASSUME NEW s, NEW dates, NEW free, NEW grades, PublishShow(s, dates, free, grades)
          PROVE  UNCHANGED grabConfig
      BY <3>1 DEF PublishShow, grabVars
    <3>2. ASSUME NEW s, NEW items, AddUpgrades(s, items)
          PROVE  UNCHANGED grabConfig
      BY <3>2 DEF AddUpgrades
    <3>3. UNCHANGED grabConfig
      BY <2>3, <3>1, <3>2 DEF Showman
    <3> QED
      BY <2>1, <3>3
  <2>4. CASE Restock
    BY <2>1, <2>4 DEF Restock, OnAddRushSale, OnAddRushUpgrade
  <2>5. CASE Draw
    <3>1. ASSUME NEW u, NEW id, NEW g, NEW paid, Grab(u, id, g, paid)
          PROVE  UNCHANGED grabConfig
      BY <3>1 DEF Grab
    <3>2. ASSUME NEW u, NEW id, NEW g, NEW extra, RushUpgradeDraw(u, id, g, extra)
          PROVE  UNCHANGED grabConfig
      BY <3>2 DEF RushUpgradeDraw
    <3> QED
      BY <2>1, <2>5, <3>1, <3>2 DEF Draw
  <2>6. CASE Campaigns
    <3>1. ASSUME NEW sig, NEW s, NEW n, NEW w, NEW price, NEW limit, NEW ratio,
                 AddRushSale(sig, s, n, w, price, limit, ratio)
          PROVE  UNCHANGED grabConfig
      BY <3>1 DEF AddRushSale
    <3>2. ASSUME NEW sig, NEW s, NEW n, NEW pay, NEW w, NEW ratio,
                 AddUpgrade(sig, s, n, pay, w, ratio)
          PROVE  UNCHANGED grabConfig
      BY <3>2 DEF AddUpgrade
    <3>3. ASSUME NEW sig, NEW id, NEW price, NEW limit, NEW ratio, NEW start, NEW end,
                 SetRushSale(sig, id, price, limit, ratio, start, end)
          PROVE  UNCHANGED grabConfig
      BY <3>3 DEF SetRushSale
    <3>4. ASSUME NEW sig, NEW id, NEW pay, NEW ratio, NEW start, NEW end,
                 SetUpgrade(sig, id, pay, ratio, start, end)
          PROVE  UNCHANGED grabConfig
      BY <3>4 DEF SetUpgrade
    <3> QED
      BY <2>1, <2>6, <3>1, <3>2, <3>3, <3>4 DEF Campaigns
  <2>7. CASE Cleanup
    BY <2>1, <2>7 DEF Cleanup, DelRushSale, DelUpgrade
  <2>8. CASE TakeBack
    BY <2>1, <2>8 DEF TakeBack, SubRushSale, SubRushUpgrade
  <2>9. CASE GrabConfig
    <3>1. grabConfig \in [admin : Accounts \cup {NoName}, point_contract : Accounts,
                          ticket_contract : Accounts, oracles : SUBSET Accounts]
      BY DEF GrabInv, Settings
    <3>2. ASSUME NEW a \in ConfigAccts, NEW sig,
                 \/ SetAdmin(a) \/ AddOracle(a) \/ DelOracle(a)
                 \/ CfgPoint(sig, a) \/ CfgTicket(sig, a)
          PROVE  PaysTickets'
      BY <3>1, <3>2 DEF SetAdmin, AddOracle, DelOracle, CfgPoint, CfgTicket, PaysTickets
    <3>3. CASE UNCHANGED grabConfig
      BY <2>1, <3>3
    <3> QED
      BY <2>9, <3>2, <3>3 DEF GrabConfig
  <2> QED
    BY <2>2, <2>3, <2>4, <2>5, <2>6, <2>7, <2>8, <2>9 DEF Next
<1> QED
  BY <1>1, <1>2, <1>3, PTL DEF Spec
=============================================================================
