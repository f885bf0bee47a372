---------------------------- MODULE FundsProofs ----------------------------
(***************************************************************************)
(* Proofs about the contracts that keep other people's money: poe.cisum    *)
(* and its points, poh.cisum and the funds of inviters, pos.cisum and its  *)
(* stakes.  In each the argument is that an action moves the balance of    *)
(* the contract by exactly what it moves the sum of its rows.              *)
(***************************************************************************)
EXTENDS PosCisum, PohCisum, SumTheorems

-----------------------------------------------------------------------------
(***************************************************************************)
(* poe.cisum.                                                              *)
(***************************************************************************)

\* The inductive invariant of the points.
PoeInv == PoeTypeOK /\ PointsBacked

\* Finitely many accounts sign.
LEMMA PoeAccountsFinite == IsFiniteSet(PoeAccts)
<1>1. IsFiniteSet(Users)
  BY PoeAssumption DEF PoeAssumption
<1>2. IsFiniteSet(Users \cup {POE})
  BY <1>1, FS_AddElement
<1>3. IsFiniteSet((Users \cup {POE}) \cup {POH})
  BY <1>2, FS_AddElement
<1>4. PoeAccts = (Users \cup {POE}) \cup {POH}
  BY DEF PoeAccts
<1> QED
  BY <1>3, <1>4

\* What is given out of the points and of the bank together.
LEMMA GivenOut ==
  ASSUME PoeInv, NEW sum \in Nat, sum <= available_points, Take(sum), bank' = bank - sum,
         UNCHANGED <<operators, rewardacts, consumed>>
  PROVE  PoeInv'
<1>1. ConsumedInAll' = ConsumedInAll /\ ConsumedInAll \in Nat
  <2>1. ConsumedInAll \in Nat
    BY PoeAccountsFinite, SumIsNat DEF PoeInv, PoeTypeOK, ConsumedInAll
  <2> QED
    BY <2>1 DEF ConsumedInAll
<1> QED
  BY <1>1 DEF PoeInv, PoeTypeOK, PointsBacked, Take

\* batchclaim gives out the sum of its claims.
LEMMA ClaimStep ==
  ASSUME PoeInv, NEW a, NEW claims \in ClaimLists, BatchClaim(a, claims)
  PROVE  PoeInv'
<1> DEFINE paid == Counted(claims)
           pts == [i \in paid |-> rewardacts[claims[i].code]]
<1>1. IsFiniteSet(paid)
  <2>1. claims \in Seq([code : Codes, to : Users \cup Ghosts \cup {POE, POH}])
    BY PoeAssumption DEF PoeAssumption
  <2>2. DOMAIN claims = 1..Len(claims) /\ Len(claims) \in Nat
    BY <2>1
  <2>3. IsFiniteSet(DOMAIN claims)
    BY <2>2, FS_Interval
  <2> QED
    BY <2>3, FS_Subset DEF Counted
<1>2. pts \in [paid -> Nat]
  <2>1. \A c \in DOMAIN rewardacts : rewardacts[c] \in Nat
    BY PoeAssumption DEF PoeInv, PoeTypeOK, PoeAssumption
  <2>2. \A i \in paid : claims[i].code \in DOMAIN rewardacts
    BY DEF BatchClaim
  <2> QED
    BY <2>1, <2>2
<1>3. SumFunction(pts) \in Nat
  <2> HIDE DEF pts, paid
  <2> QED
    BY <1>1, <1>2, SumIsNat
<1>4. /\ SumFunction(pts) <= available_points
      /\ Take(SumFunction(pts)) /\ bank' = bank - SumFunction(pts)
      /\ UNCHANGED <<operators, rewardacts, consumed>>
  BY DEF BatchClaim
<1> HIDE DEF pts
<1> QED
  BY <1>3, <1>4, GivenOut

\* batchairdrop sends what it takes off the points.
LEMMA AirdropStep ==
  ASSUME PoeInv, NEW a, NEW drops \in DropLists, BatchAirdrop(a, drops)
  PROVE  PoeInv'
<1> DEFINE qs == [i \in DOMAIN drops |-> drops[i].quantity]
<1>1. drops \in Seq([to : Users \cup Ghosts \cup {POE, POH}, quantity : Int])
  BY PoeAssumption DEF PoeAssumption
<1>2. IsFiniteSet(DOMAIN drops)
  <2>1. DOMAIN drops = 1..Len(drops) /\ Len(drops) \in Nat
    BY <1>1
  <2> QED
    BY <2>1, FS_Interval
<1>3. \A i \in DOMAIN drops : drops[i].quantity \in Nat
  <2>1. \A i \in DOMAIN drops : drops[i].quantity \in Int
    <3> DEFINE Row == [to : Users \cup Ghosts \cup {POE, POH}, quantity : Int]
    <3>1. drops \in Seq(Row)
      BY <1>1
    <3> HIDE DEF Row
    <3>2. \A i \in DOMAIN drops : drops[i] \in Row
      BY <3>1
    <3> QED
      BY <3>2 DEF Row
  <2>2. \A i \in DOMAIN drops : drops[i].quantity > 0
    BY DEF BatchAirdrop
  <2> QED
    BY <2>1, <2>2
<1>4. qs \in [DOMAIN drops -> Nat]
  BY <1>3
<1>5. SumFunction(qs) \in Nat
  <2> HIDE DEF qs
  <2> QED
    BY <1>2, <1>4, SumIsNat
<1>6. /\ SumFunction(qs) <= available_points
      /\ Take(SumFunction(qs)) /\ bank' = bank - SumFunction(qs)
      /\ UNCHANGED <<operators, rewardacts, consumed>>
  BY DEF BatchAirdrop, DropTotal
<1> HIDE DEF qs
<1> QED
  BY <1>5, <1>6, GivenOut

\* consumeact books what it takes off the points as consumed.
LEMMA ConsumeStep ==
  ASSUME PoeInv, NEW signer \in PoeAccts, NEW a, NEW c, NEW q \in Nat,
         ConsumeAct(signer, a, c, q)
  PROVE  PoeInv'
<1>1. /\ consumed \in [PoeAccts -> Int] /\ consumed' \in [PoeAccts -> Nat]
      /\ consumed' \in [PoeAccts -> Int]
      /\ consumed'[signer] = consumed[signer] + q
      /\ \A x \in PoeAccts \ {signer} : consumed'[x] = consumed[x]
  BY DEF ConsumeAct, PoeInv, PoeTypeOK
<1>2. ConsumedInAll \in Nat
  BY PoeAccountsFinite, SumIsNat DEF PoeInv, PoeTypeOK, ConsumedInAll
<1>3. ConsumedInAll' = ConsumedInAll + q
  <2>1. q \in Int
    OBVIOUS
  <2>2. SumFunction(consumed') = SumFunction(consumed) + q
    BY <1>1, <2>1, PoeAccountsFinite, SumMoves
  <2> QED
    BY <2>2 DEF ConsumedInAll
<1>4. q <= available_points
  BY DEF ConsumeAct, CanConsume
<1> QED
  BY <1>1, <1>2, <1>3, <1>4 DEF ConsumeAct, Consumption, PoeInv, PoeTypeOK, PointsBacked

\* The codes and the operators.
LEMMA PoeAdminStep ==
  ASSUME PoeInv, PoeAdmin
  PROVE  PoeInv'
<1>1. UNCHANGED <<points, bank, consumed>>
  BY DEF PoeAdmin, AddRewardAct, DelRewardAct, AddOperator, DelOperator, SetOperators
<1>2. /\ DOMAIN rewardacts' \subseteq Codes /\ rewardacts' \in [DOMAIN rewardacts' -> PointSums]
      /\ operators' \subseteq PoeAccts
  BY DEF PoeAdmin, AddRewardAct, DelRewardAct, AddOperator, DelOperator, SetOperators,
         Put, Drop, PoeInv, PoeTypeOK
<1> QED
  BY <1>1, <1>2 DEF PoeInv, PoeTypeOK, PointsBacked, ConsumedInAll, points

\* A deposit is available at once.
LEMMA DepositStep ==
  ASSUME PoeInv, NEW q \in Nat, OnDeposit(q)
  PROVE  PoeInv'
<1>1. ConsumedInAll \in Nat
  BY PoeAccountsFinite, SumIsNat DEF PoeInv, PoeTypeOK, ConsumedInAll
<1>2. ConsumedInAll' = ConsumedInAll
  BY DEF OnDeposit, ConsumedInAll
<1> QED
  BY <1>1, <1>2 DEF OnDeposit, PoeInv, PoeTypeOK, PointsBacked

\* Every step of poe.cisum keeps the invariant.
LEMMA PoeStep ==
  ASSUME PoeInv, PoeNext \/ UNCHANGED poeVars
  PROVE  PoeInv'
<1>1. /\ \A q \in PointSums : q \in Nat
      /\ \A q \in Deposits : q \in Nat
  BY PoeAssumption DEF PoeAssumption
<1>2. CASE PoeAdmin
  BY <1>2, PoeAdminStep
<1>3. CASE \E a \in PoeAccts, cs \in ClaimLists : BatchClaim(a, cs)
  BY <1>3, ClaimStep
<1>4. CASE \E a \in PoeAccts, ds \in DropLists : BatchAirdrop(a, ds)
  BY <1>4, AirdropStep
<1>5. CASE \E a \in PoeAccts, s \in PoeAccts \ {POH}, c \in Codes, q \in PointSums :
             ConsumeAct(s, a, c, q)
  BY <1>1, <1>5, ConsumeStep
<1>6. CASE \E q \in Deposits : OnDeposit(q)
  BY <1>1, <1>6, DepositStep
<1>7. CASE UNCHANGED poeVars
  BY <1>7 DEF PoeInv, PoeTypeOK, PointsBacked, ConsumedInAll, poeVars, points
<1> QED
  BY <1>2, <1>3, <1>4, <1>5, <1>6, <1>7 DEF PoeNext

\* And it holds when the contract is deployed.
LEMMA PoeStart == PoeInit => PoeInv
<1> SUFFICES ASSUME PoeInit
             PROVE  PoeInv
  OBVIOUS
<1>1. PoeTypeOK
  BY DEF PoeInit, PoeTypeOK, EmptyTable
<1>2. consumed \in [PoeAccts -> Int] /\ \A a \in PoeAccts : consumed[a] = 0
  BY DEF PoeInit
<1>3. ConsumedInAll = 0
  BY <1>2, PoeAccountsFinite, SumOfZeros DEF ConsumedInAll
<1> QED
  BY <1>1, <1>3 DEF PoeInv, PointsBacked, PoeInit

\* For any accounts and amounts the points add up, and the CISUM at hand covers
\* what can still be claimed and what consumeact took off the books, through
\* every claim, airdrop, consumption and deposit of poe.cisum.
THEOREM PointsStayBacked == PoeSpec => []PointsBacked
<1>1. PoeInv /\ [PoeNext]_poeVars => PoeInv'
  BY PoeStep
<1>2. PoeInv => PointsBacked
  BY DEF PoeInv
<1> QED
  BY <1>1, <1>2, PoeStart, PTL DEF PoeSpec

-----------------------------------------------------------------------------
(***************************************************************************)
(* poh.cisum.                                                              *)
(***************************************************************************)

\* What a funds table has of one token.
FundTotal(fs, t) == SumFunction([k \in DOMAIN fs |-> IF k[2] = t THEN fs[k].available ELSE 0])

\* A well-formed table of funds, with finitely many rows.
IsFunds(fs) ==
  /\ IsFiniteSet(DOMAIN fs) /\ DOMAIN fs \subseteq Inviters \X FundTokens
  /\ fs \in [DOMAIN fs -> Fund]

\* What the funds of a token have left is a number.
LEMMA FundTotalIsInt ==
  ASSUME NEW fs, IsFunds(fs), NEW t
  PROVE  FundTotal(fs, t) \in Int
<1> DEFINE f == [k \in DOMAIN fs |-> IF k[2] = t THEN fs[k].available ELSE 0]
<1>1. f \in [DOMAIN fs -> Int]
  BY DEF IsFunds, Fund
<1> HIDE DEF f
<1>2. SumFunction(f) \in Int
  BY <1>1, SumIsInt DEF IsFunds
<1> QED
  BY <1>2 DEF f, FundTotal

\* Of the funds in a token only x changes, by d, and it is in the new table.
Rises(fs, new, t, x, d) ==
  /\ DOMAIN new = DOMAIN fs \cup {x}
  /\ \A k \in DOMAIN fs \ {x} : k[2] = t => new[k].available = fs[k].available
  /\ (IF x[2] = t THEN new[x].available ELSE 0)
       = (IF x \in DOMAIN fs /\ x[2] = t THEN fs[x].available ELSE 0) + d

\* When one fund gains d of its token, so does the total of that token.
LEMMA FundRises ==
  ASSUME NEW fs, NEW new, IsFunds(fs), IsFunds(new), NEW t, NEW x, NEW d \in Int,
         Rises(fs, new, t, x, d)
  PROVE  FundTotal(new, t) = FundTotal(fs, t) + d
<1> DEFINE D == DOMAIN fs
           f == [k \in D |-> IF k[2] = t THEN fs[k].available ELSE 0]
           g == [k \in DOMAIN new |-> IF k[2] = t THEN new[k].available ELSE 0]
<1>1. f \in [D -> Int] /\ g \in [DOMAIN new -> Int] /\ IsFiniteSet(D)
  BY DEF IsFunds, Fund
<1>2. DOMAIN new = D \cup {x} /\ \A k \in D \ {x} : g[k] = f[k]
  BY DEF Rises
<1>3. FundTotal(fs, t) = SumFunction(f) /\ FundTotal(new, t) = SumFunction(g)
  BY DEF FundTotal
<1>4. CASE x \in D
  <2>1. g[x] = f[x] + d
    BY <1>4 DEF Rises
  <2>2. DOMAIN new = D
    BY <1>2, <1>4
  <2> HIDE DEF f, g, D
  <2>3. SumFunction(g) = SumFunction(f) + d
    BY <1>1, <1>2, <1>4, <2>1, <2>2, SumMoves
  <2> QED
    BY <1>3, <2>3
<1>5. CASE x \notin D
  <2>1. g[x] = d
    BY <1>5 DEF Rises
  <2>2. g \in [D \cup {x} -> Int] /\ \A k \in D : g[k] = f[k]
    BY <1>1, <1>2, <1>5
  <2> HIDE DEF f, g, D
  <2>3. SumFunction(g) = SumFunction(f) + g[x]
    BY <1>1, <1>5, <2>2, SumAddKey
  <2> QED
    BY <1>3, <2>1, <2>3
<1> QED
  BY <1>4, <1>5

\* Funds may end; of those in a token only x, which loses d.
Falls(fs, new, t, x, d) ==
  /\ DOMAIN new \subseteq DOMAIN fs
  /\ \A k \in DOMAIN fs \ {x} :
       k[2] = t => k \in DOMAIN new /\ new[k].available = fs[k].available
  /\ x \in DOMAIN fs => x[2] = t
  /\ (IF x \in DOMAIN new THEN new[x].available ELSE 0)
       = (IF x \in DOMAIN fs THEN fs[x].available ELSE 0) - d

\* When one fund loses d of its token, or goes altogether, so does the total.
LEMMA FundFalls ==
  ASSUME NEW fs, NEW new, IsFunds(fs), IsFunds(new), NEW t, NEW x, NEW d \in Int,
         Falls(fs, new, t, x, d)
  PROVE  FundTotal(new, t) = FundTotal(fs, t) - d
<1> DEFINE D == DOMAIN fs
           E == DOMAIN new
           f == [k \in D |-> IF k[2] = t THEN fs[k].available ELSE 0]
           g == [k \in E |-> IF k[2] = t THEN new[k].available ELSE 0]
           h == [k \in D |-> IF k \in E THEN g[k] ELSE 0]
<1>1. /\ f \in [D -> Int] /\ g \in [E -> Int] /\ IsFiniteSet(D) /\ E \in SUBSET D
  BY DEF IsFunds, Fund, Falls
<1>2. /\ h \in [D -> Int] /\ (\A k \in E : g[k] = h[k]) /\ \A k \in D \ E : h[k] = 0
  BY <1>1
<1>3. \A k \in D \ {x} : h[k] = f[k]
  BY <1>1 DEF Falls
<1>4. FundTotal(fs, t) = SumFunction(f) /\ FundTotal(new, t) = SumFunction(g)
  BY DEF FundTotal
<1>5. PICK e \in Int : e = - d
  OBVIOUS
<1>6. x \in D => h[x] = f[x] + e
  <2> SUFFICES ASSUME x \in D
               PROVE  h[x] = f[x] + e
    OBVIOUS
  <2>1. x[2] = t /\ fs[x].available \in Int
    BY <1>1 DEF Falls, IsFunds, Fund
  <2>2. (IF x \in E THEN new[x].available ELSE 0) = fs[x].available - d
    BY DEF Falls
  <2> QED
    BY <1>5, <2>1, <2>2
<1>7. x \notin D => d = 0
  BY <1>1 DEF Falls
<1> HIDE DEF f, g, h, D, E
<1>8. SumFunction(g) = SumFunction(h)
  BY <1>1, <1>2, SumIgnoresZeros
<1>9. SumFunction(f) \in Int
  BY <1>1, SumIsInt
<1>10. CASE x \in D
  <2>1. SumFunction(h) = SumFunction(f) + e
    BY <1>1, <1>2, <1>3, <1>6, <1>10, SumMoves
  <2> QED
    BY <1>4, <1>5, <1>8, <1>9, <2>1
<1>11. CASE x \notin D
  <2>1. h = f
    BY <1>1, <1>2, <1>3, <1>11
  <2> QED
    BY <1>4, <1>7, <1>8, <1>9, <1>11, <2>1
<1> QED
  BY <1>10, <1>11

\* The inductive invariant of the funds: the ledger of each token agrees with
\* the rows of the funds.
FundsInv == IsFunds(funds) /\ purse \in [FundTokens -> Nat] /\ FundsAddUp

\* The inductive invariant of the sign-ups.
MintInv ==
  /\ platform_acct \in PoeAccts \cup {NoOne} /\ registrar \in PoeAccts \cup {NoOne}
  /\ max_issued \in Nat /\ sing_issued \in Nat /\ cisum_issued \in Nat
  /\ clock \in Nat /\ signups \in Nat
  /\ IssuesAccounted

\* The inductive invariant of the two contracts.
PohInv == FundsInv /\ MintInv /\ PoeInv

\* A deposit to one fund keeps the funds backed: its token rises by as much on
\* either side.
LEMMA PurseRises ==
  ASSUME FundsInv, NEW t \in FundTokens, NEW q \in Nat, NEW x, x[2] = t,
         IsFunds(funds'), purse' = [purse EXCEPT ![t] = @ + q],
         \A u \in FundTokens : Rises(funds, funds', u, x, IF u = t THEN q ELSE 0)
  PROVE  FundsInv'
<1>1. purse' \in [FundTokens -> Nat]
  BY DEF FundsInv
<1>2. ASSUME NEW u \in FundTokens
      PROVE  purse'[u] = FundTotal(funds', u)
  <2>1. purse[u] = FundTotal(funds, u) /\ purse[u] \in Nat
    BY DEF FundsInv, FundsAddUp, FundTotal
  <2>2. PICK d \in Int : d = IF u = t THEN q ELSE 0
    OBVIOUS
  <2>3. Rises(funds, funds', u, x, d)
    BY <2>2
  <2>4. FundTotal(funds', u) = FundTotal(funds, u) + d
    BY <2>3, FundRises DEF FundsInv
  <2>5. purse'[u] = purse[u] + d
    BY <2>2 DEF FundsInv
  <2> QED
    BY <2>1, <2>4, <2>5
<1> QED
  BY <1>1, <1>2 DEF FundsInv, FundsAddUp, FundTotal

\* A deposit to a fund, new or merged into the old one.
LEMMA RefuelStep ==
  ASSUME FundsInv, NEW i \in Inviters, NEW t \in FundTokens, NEW q \in Amounts,
         \/ RefuelOnly(i, t, q)
         \/ \E r \in Amounts, w \in Windows : RefuelWithTerms(i, t, q, r, w)
  PROVE  FundsInv'
<1> DEFINE x == <<i, t>>
<1>1. q \in Nat \ {0} /\ \A r \in Amounts : r \in Nat \ {0}
  BY PohAssumption DEF PohAssumption
<1>2. x[2] = t /\ purse' = [purse EXCEPT ![t] = @ + q]
  BY DEF RefuelOnly, RefuelWithTerms
<1>3. \A k \in DOMAIN funds : funds[k] \in Fund /\ k \in Inviters \X FundTokens
  BY DEF FundsInv, IsFunds
<1>4. \A k \in DOMAIN funds : funds[k].available \in Nat \ {0}
  BY <1>3 DEF Fund
<1>5. CASE RefuelOnly(i, t, q)
  <2>1. x \in DOMAIN funds /\ funds' = [funds EXCEPT ![x].available = @ + q]
    BY <1>5 DEF RefuelOnly, Merged
  <2>2. funds[x].available + q \in Nat \ {0}
    BY <1>1, <1>4, <2>1
  <2>3. /\ DOMAIN funds' = DOMAIN funds
        /\ funds'[x] = [funds[x] EXCEPT !.available = funds[x].available + q]
        /\ \A k \in DOMAIN funds \ {x} : funds'[k] = funds[k]
        /\ funds' = [k \in DOMAIN funds |-> funds'[k]]
    BY <2>1
  <2>4. funds'[x] \in Fund /\ funds'[x].available = funds[x].available + q
    BY <1>3, <2>1, <2>2, <2>3 DEF Fund
  <2>5. IsFunds(funds')
    BY <2>3, <2>4 DEF FundsInv, IsFunds
  <2>6. ASSUME NEW u \in FundTokens
        PROVE  Rises(funds, funds', u, x, IF u = t THEN q ELSE 0)
    BY <1>2, <2>1, <2>3, <2>4 DEF Rises
  <2> HIDE DEF x
  <2> QED
    BY <1>1, <1>2, <2>5, <2>6, PurseRises
<1>6. CASE \E r \in Amounts, w \in Windows : RefuelWithTerms(i, t, q, r, w)
  <2>1. PICK r \in Amounts, w \in Windows : RefuelWithTerms(i, t, q, r, w)
    BY <1>6
  <2> DEFINE old == IF x \in DOMAIN funds THEN funds[x].available ELSE 0
             row == [available |-> old + q, reward |-> r, start |-> w[1], end |-> w[2]]
  <2>2. funds' = Put(funds, x, row)
    BY <2>1 DEF RefuelWithTerms, Merged
  <2>3. old \in Nat /\ w[1] \in Nat /\ w[2] \in Nat
    BY <1>4, PohAssumption DEF PohAssumption
  <2>4. old + q \in Nat \ {0}
    BY <1>1, <2>3
  <2>5. row \in Fund /\ row.available = old + q
    BY <1>1, <2>3, <2>4 DEF Fund
  <2> HIDE DEF row
  <2>6. /\ DOMAIN funds' = DOMAIN funds \cup {x} /\ funds'[x] = row
        /\ \A k \in DOMAIN funds \ {x} : funds'[k] = funds[k]
        /\ funds' = [k \in DOMAIN funds' |-> funds'[k]]
    BY <2>2 DEF Put
  <2>7. IsFiniteSet(DOMAIN funds')
    BY <2>6, FS_AddElement DEF FundsInv, IsFunds
  <2>8. IsFunds(funds')
    BY <1>3, <2>5, <2>6, <2>7 DEF IsFunds
  <2>9. ASSUME NEW u \in FundTokens
        PROVE  Rises(funds, funds', u, x, IF u = t THEN q ELSE 0)
    BY <1>2, <1>1, <2>3, <2>5, <2>6 DEF Rises
  <2> HIDE DEF x
  <2> QED
    BY <1>1, <1>2, <2>8, <2>9, PurseRises
<1> QED
  BY <1>5, <1>6

\* Changing the rule of a fund moves no money.
LEMMA SetInfoStep ==
  ASSUME FundsInv, NEW s, NEW i \in Inviters, NEW t \in FundTokens,
         NEW a \in {{}} \cup Singles(0..MaxNow), NEW e \in {{}} \cup Singles(0..MaxNow),
         SetFundInfo(s, i, t, a, e)
  PROVE  FundsInv'
<1> DEFINE x == <<i, t>>
<1>1. x \in DOMAIN funds /\ purse' = purse
  BY DEF SetFundInfo
<1>2. funds[x] \in Fund
  BY <1>1 DEF FundsInv, IsFunds
<1>3. PICK from \in Nat, to \in Nat :
        funds' = [funds EXCEPT ![x].start = from, ![x].end = to]
  <2>1. \A n \in 0..MaxNow : n \in Nat
    BY PohAssumption DEF PohAssumption
  <2>2. funds[x].start \in Nat /\ funds[x].end \in Nat
    BY <1>2 DEF Fund
  <2>3. PICK from \in (IF a # {} THEN a ELSE {funds[x].start}),
             to \in (IF e # {} THEN e ELSE {funds[x].end}) :
          funds' = [funds EXCEPT ![x].start = from, ![x].end = to]
    BY DEF SetFundInfo
  <2>4. (\A n \in a : n \in Nat) /\ \A n \in e : n \in Nat
    BY <2>1 DEF Singles
  <2>5. from \in Nat /\ to \in Nat
    BY <2>2, <2>3, <2>4
  <2> QED
    BY <2>3, <2>5
<1>4. /\ DOMAIN funds' = DOMAIN funds
      /\ funds'[x] = [funds[x] EXCEPT !.start = from, !.end = to]
      /\ \A k \in DOMAIN funds \ {x} : funds'[k] = funds[k]
      /\ funds' = [k \in DOMAIN funds |-> funds'[k]]
  BY <1>1, <1>3
<1>5. funds'[x] \in Fund /\ funds'[x].available = funds[x].available
  BY <1>2, <1>4 DEF Fund
<1>6. IsFunds(funds')
  BY <1>4, <1>5 DEF FundsInv, IsFunds
<1>7. \A k \in DOMAIN funds : funds'[k].available = funds[k].available
  BY <1>4, <1>5
<1>8. \A u : FundTotal(funds', u) = FundTotal(funds, u)
  BY <1>4, <1>7 DEF FundTotal
<1> QED
  BY <1>1, <1>6, <1>8 DEF FundsInv, FundsAddUp, FundTotal

\* A payout to one inviter, in several tokens at once, keeps the funds backed.
LEMMA PurseFalls ==
  ASSUME FundsInv, IsFunds(funds'), NEW i, NEW lost \in [FundTokens -> Nat],
         purse' = [t \in FundTokens |-> purse[t] - lost[t]],
         \A t \in FundTokens : lost[t] <= purse[t] /\ Falls(funds, funds', t, <<i, t>>, lost[t])
  PROVE  FundsInv'
<1>1. purse' \in [FundTokens -> Nat]
  <2>1. \A t \in FundTokens : purse[t] \in Nat /\ lost[t] \in Nat /\ lost[t] <= purse[t]
    BY DEF FundsInv
  <2>2. \A t \in FundTokens : purse[t] - lost[t] \in Nat
    BY <2>1
  <2> QED
    BY <2>2
<1>2. ASSUME NEW t \in FundTokens
      PROVE  purse'[t] = FundTotal(funds', t)
  <2>1. purse[t] = FundTotal(funds, t) /\ purse[t] \in Nat
    BY DEF FundsInv, FundsAddUp, FundTotal
  <2>2. PICK d \in Int : d = lost[t]
    OBVIOUS
  <2>3. Falls(funds, funds', t, <<i, t>>, d)
    BY <2>2
  <2>4. FundTotal(funds', t) = FundTotal(funds, t) - d
    BY <2>3, FundFalls DEF FundsInv
  <2>5. purse'[t] = purse[t] - d
    BY <2>2
  <2> QED
    BY <2>1, <2>4, <2>5
<1> QED
  BY <1>1, <1>2 DEF FundsInv, FundsAddUp, FundTotal

\* What is known of a fund in the table.
LEMMA FundKeys ==
  ASSUME FundsInv, NEW i, NEW k \in DOMAIN funds
  PROVE  /\ k \in Inviters \X FundTokens /\ funds[k] \in Fund
         /\ funds[k].available \in Nat \ {0} /\ funds[k].reward \in Nat \ {0}
         /\ k[1] = i => k = <<i, k[2]>>
<1>1. k \in Inviters \X FundTokens /\ funds[k] \in Fund
  BY DEF FundsInv, IsFunds
<1> QED
  BY <1>1 DEF Fund

\* An inviter takes all that is left of the funds.
LEMMA RedeemStep ==
  ASSUME FundsInv, NEW s, NEW i, RedeemFund(s, i)
  PROVE  FundsInv'
<1> DEFINE mine == FundsOf(i)
           lost == [t \in FundTokens |-> IF <<i, t>> \in mine THEN funds[<<i, t>>].available ELSE 0]
<1>1. /\ \A k \in mine : funds[k].available <= purse[k[2]]
      /\ funds' = [k \in DOMAIN funds \ mine |-> funds[k]]
      /\ purse' = [t \in FundTokens |-> purse[t] - lost[t]]
  BY DEF RedeemFund, Refund
<1>2. \A k : k \in mine <=> k \in DOMAIN funds /\ k[1] = i
  BY DEF FundsOf
<1>3. purse \in [FundTokens -> Nat]
  BY DEF FundsInv
<1>4. \A t \in FundTokens : lost[t] \in Nat /\ lost[t] <= purse[t]
  BY <1>1, <1>2, <1>3, FundKeys
<1>5. lost \in [FundTokens -> Nat]
  BY <1>4
<1>6. IsFunds(funds')
  <2>1. IsFiniteSet(DOMAIN funds \ mine)
    BY FS_Subset DEF FundsInv, IsFunds
  <2> QED
    BY <1>1, <2>1 DEF FundsInv, IsFunds
<1>7. ASSUME NEW t \in FundTokens
      PROVE  Falls(funds, funds', t, <<i, t>>, lost[t])
  <2>1. \A k \in DOMAIN funds \ {<<i, t>>} : k[2] = t => k \notin mine
    BY <1>2, FundKeys
  <2>2. <<i, t>> \in DOMAIN funds => <<i, t>> \in mine /\ lost[t] = funds[<<i, t>>].available
    BY <1>2
  <2>3. <<i, t>> \notin DOMAIN funds => lost[t] = 0
    BY <1>2
  <2>4. <<i, t>> \in DOMAIN funds => funds[<<i, t>>].available \in Nat
    BY FundKeys
  <2>5. DOMAIN funds' = DOMAIN funds \ mine /\ \A k \in DOMAIN funds' : funds'[k] = funds[k]
    BY <1>1
  <2> HIDE DEF mine, lost
  <2> QED
    BY <2>1, <2>2, <2>3, <2>4, <2>5 DEF Falls
<1> HIDE DEF lost, mine
<1> QED
  BY <1>1, <1>4, <1>5, <1>6, <1>7, PurseFalls

\* A sign-up pays the inviter from every fund that is open, and closes those it
\* empties.
LEMMA PayInviterStep ==
  ASSUME FundsInv, NEW i, SendInviterFund(i)
  PROVE  FundsInv'
<1> DEFINE paying == {k \in FundsOf(i) : Open(k)}
           lost == [t \in FundTokens |-> IF <<i, t>> \in paying THEN Payout(<<i, t>>) ELSE 0]
<1>1. /\ \A k \in paying : Payout(k) <= purse[k[2]]
      /\ funds' = [k \in DOMAIN funds \ Exhausted(paying) |->
                     IF k \in paying THEN [funds[k] EXCEPT !.available = @ - Payout(k)] ELSE funds[k]]
      /\ purse' = [t \in FundTokens |-> purse[t] - lost[t]]
  BY DEF SendInviterFund
<1>2. \A k \in paying : k \in DOMAIN funds /\ k[1] = i
  BY DEF FundsOf
<1> HIDE DEF paying
<1>3. purse \in [FundTokens -> Nat]
  BY DEF FundsInv
<1>4. \A k \in paying : Payout(k) \in Nat /\ Payout(k) <= purse[k[2]]
  BY <1>1, <1>2, FundKeys DEF Payout
<1>5. \A t \in FundTokens : lost[t] \in Nat /\ lost[t] <= purse[t]
  BY <1>3, <1>4
<1>6. lost \in [FundTokens -> Nat]
  BY <1>5
<1>7. /\ DOMAIN funds' = DOMAIN funds \ Exhausted(paying)
      /\ \A k \in DOMAIN funds' \ paying : funds'[k] = funds[k]
      /\ \A k \in DOMAIN funds' \cap paying :
           funds'[k] = [funds[k] EXCEPT !.available = @ - Payout(k)]
      /\ funds' = [k \in DOMAIN funds' |-> funds'[k]]
  BY <1>1
<1>8. \A k \in Exhausted(paying) : k \in paying /\ Payout(k) = funds[k].available
  BY <1>2, FundKeys DEF Exhausted, Payout
<1>9. ASSUME NEW k \in DOMAIN funds' \cap paying
      PROVE  /\ funds[k].available - Payout(k) \in Nat \ {0}
             /\ funds'[k] \in Fund /\ funds'[k].available = funds[k].available - Payout(k)
  <2>1. k \notin Exhausted(paying) /\ k \in DOMAIN funds
    BY <1>2, <1>7
  <2>2. funds[k].available - Payout(k) \in Nat \ {0}
    BY <2>1, FundKeys DEF Exhausted, Payout
  <2>3. funds[k] \in Fund
    BY <2>1, FundKeys
  <2> QED
    BY <1>7, <2>2, <2>3 DEF Fund
<1>10. IsFunds(funds')
  <2>1. IsFiniteSet(DOMAIN funds \ Exhausted(paying))
    BY FS_Subset DEF FundsInv, IsFunds
  <2>2. \A k \in DOMAIN funds' : funds'[k] \in Fund /\ k \in Inviters \X FundTokens
    BY <1>7, <1>9, FundKeys
  <2> QED
    BY <1>7, <2>1, <2>2 DEF IsFunds
<1>11. ASSUME NEW t \in FundTokens
       PROVE  Falls(funds, funds', t, <<i, t>>, lost[t])
  <2> DEFINE x == <<i, t>>
  <2>1. \A k \in DOMAIN funds \ {x} : k[2] = t => k \notin paying
    BY <1>2, FundKeys
  <2>2. \A k \in DOMAIN funds \ {x} :
          k[2] = t => k \in DOMAIN funds' /\ funds'[k] = funds[k]
    BY <1>7, <1>8, <2>1
  <2>3. x[2] = t
    OBVIOUS
  <2>4. (IF x \in DOMAIN funds' THEN funds'[x].available ELSE 0)
          = (IF x \in DOMAIN funds THEN funds[x].available ELSE 0) - lost[t]
    <3>1. CASE x \in paying
      <4>1. lost[t] = Payout(x) /\ x \in DOMAIN funds
        BY <1>2, <3>1
      <4>2. funds[x].available \in Nat
        BY <4>1, FundKeys
      <4>3. CASE x \in DOMAIN funds'
        BY <1>9, <3>1, <4>1, <4>3
      <4>4. CASE x \notin DOMAIN funds'
        <5>1. Payout(x) = funds[x].available
          BY <1>7, <1>8, <4>1, <4>4
        <5> HIDE DEF lost, x
        <5> QED
          BY <4>1, <4>2, <4>4, <5>1
      <4> QED
        BY <4>3, <4>4
    <3>2. CASE x \notin paying
      <4>1. lost[t] = 0
        BY <3>2
      <4>2. x \in DOMAIN funds' <=> x \in DOMAIN funds
        BY <1>7, <1>8, <3>2
      <4>3. x \in DOMAIN funds' => funds'[x] = funds[x] /\ funds[x].available \in Nat
        BY <1>7, <3>2, <4>2, FundKeys
      <4> HIDE DEF lost, x
      <4> QED
        BY <4>1, <4>2, <4>3
    <3> QED
      BY <3>1, <3>2
  <2> HIDE DEF x, lost
  <2>5. Falls(funds, funds', t, x, lost[t])
    BY <1>7, <2>2, <2>3, <2>4 DEF Falls
  <2> QED
    BY <2>5 DEF x
<1> HIDE DEF lost
<1> QED
  BY <1>1, <1>5, <1>6, <1>10, <1>11, PurseFalls

\* Configuration of poh.cisum.
LEMMA PohAdminStep ==
  ASSUME PohInv, PohAdmin, UNCHANGED poeVars
  PROVE  PohInv'
<1>1. /\ \A r \in Registrars : r \in PoeAccts
      /\ \A m \in SingCaps : m \in Nat
  BY PohAssumption DEF PohAssumption, PoeAccts
<1>2. /\ UNCHANGED <<sing_issued, cisum_issued, funds, purse, clock, signups>>
      /\ platform_acct' \in PoeAccts \cup {NoOne} /\ registrar' \in PoeAccts \cup {NoOne}
      /\ max_issued' \in Nat
      /\ max_issued' = max_issued \/ max_issued' >= sing_issued
  BY <1>1 DEF PohAdmin, PohConfigure, SetMaxIssued, SetPlatform, SetRegistrar, CapFits,
              PohInv, MintInv
<1>3. FundsInv'
  BY <1>2 DEF PohInv, FundsInv, FundsAddUp
<1>4. MintInv'
  BY <1>2 DEF PohInv, MintInv, IssuesAccounted, SignupBudget, InvitesAccounted, poeVars
<1>5. PoeInv'
  BY PoeStep DEF PohInv
<1> QED
  BY <1>3, <1>4, <1>5 DEF PohInv

\* Issuing SING stays within the cap.
LEMMA IssueSingStep ==
  ASSUME MintInv, NEW q \in Nat, IssueSing(q), UNCHANGED max_issued
  PROVE  sing_issued' \in Nat /\ sing_issued' <= max_issued'
BY DEF IssueSing, CanIssueSing, MintInv, IssuesAccounted, SignupBudget

\* A newcomer nobody invited.
LEMMA AloneStep ==
  ASSUME PohInv, NEW n, NEW q \in Nat, RegisterAlone(n, q)
  PROVE  PohInv'
<1>1. Bonus \in Nat
  BY PohAssumption DEF PohAssumption
<1>2. sing_issued' \in Nat /\ sing_issued' <= max_issued'
  BY IssueSingStep DEF PohInv, RegisterAlone
<1>3. Bonus * (signups + 1) = Bonus * signups + Bonus /\ Bonus * signups \in Nat
  BY <1>1 DEF PohInv, MintInv
<1>4. consumed[POH] \in Nat
  BY DEF PohInv, PoeInv, PoeTypeOK, PoeAccts
<1>5. MintInv'
  BY <1>1, <1>2, <1>3, <1>4
  DEF RegisterAlone, PohInv, MintInv, IssuesAccounted, SignupBudget, InvitesAccounted, poeVars
<1>6. FundsInv'
  BY DEF RegisterAlone, PohInv, FundsInv, FundsAddUp
<1>7. PoeInv'
  BY PoeStep DEF RegisterAlone, PohInv
<1> QED
  BY <1>5, <1>6, <1>7 DEF PohInv

\* The bonus, the points and the rewards of an invited newcomer.
LEMMA InvitedStep ==
  ASSUME PohInv, NEW i, NEW n, NEW q \in Nat, RegisterInvited(i, n, q)
  PROVE  PohInv'
<1> DEFINE bonus == rewardacts[Invite]
<1>1. Bonus \in Nat
  BY PohAssumption DEF PohAssumption
<1>2. bonus \in Nat
  BY PoeAssumption DEF RegisterInvited, PohInv, PoeInv, PoeTypeOK, PoeAssumption
<1>3. /\ ConsumeAct(POH, POH, Invite, bonus) /\ SendInviterFund(i)
      /\ cisum_issued' = cisum_issued + Bonus + bonus /\ signups' = signups + 1
      /\ IssueSing(q) /\ UNCHANGED <<platform_acct, registrar, max_issued, clock>>
  BY DEF RegisterInvited, TakeInvitePoints
<1> HIDE DEF bonus
<1>4. sing_issued' \in Nat /\ sing_issued' <= max_issued'
  BY <1>3, IssueSingStep DEF PohInv
<1>5. POH \in PoeAccts
  BY DEF PoeAccts
<1>6. PoeInv'
  BY <1>2, <1>3, <1>5, ConsumeStep DEF PohInv
<1>7. consumed[POH] \in Nat /\ consumed'[POH] = consumed[POH] + bonus
  BY <1>3, <1>5 DEF ConsumeAct, PohInv, PoeInv, PoeTypeOK
<1>8. Bonus * (signups + 1) = Bonus * signups + Bonus /\ Bonus * signups \in Nat
  BY <1>1 DEF PohInv, MintInv
<1>9. MintInv'
  <2>1. cisum_issued = Bonus * signups + consumed[POH] /\ cisum_issued \in Nat /\ signups \in Nat
    BY DEF PohInv, MintInv, IssuesAccounted, InvitesAccounted
  <2>2. cisum_issued' = Bonus * signups' + consumed'[POH]
    BY <1>1, <1>2, <1>3, <1>7, <1>8, <2>1
  <2>3. cisum_issued' \in Nat /\ signups' \in Nat
    BY <1>1, <1>2, <1>3, <2>1
  <2> QED
    BY <1>3, <1>4, <2>2, <2>3 DEF PohInv, MintInv, IssuesAccounted, SignupBudget, InvitesAccounted
<1>10. FundsInv'
  BY <1>3, PayInviterStep DEF PohInv
<1> QED
  BY <1>6, <1>9, <1>10 DEF PohInv

\* Every step of the two contracts.
LEMMA PohStep ==
  ASSUME PohInv, PohNext \/ UNCHANGED pohWorld
  PROVE  PohInv'
<1>1. CASE PohAdmin /\ UNCHANGED poeVars
  BY <1>1, PohAdminStep
<1>2. CASE (FundMoves \/ PohTick) /\ UNCHANGED poeVars
  <2>1. FundsInv'
    <3>1. CASE FundMoves
      BY <3>1, RefuelStep, SetInfoStep, RedeemStep DEF FundMoves, PohInv
    <3>2. CASE PohTick
      BY <3>2 DEF PohTick, PohInv, FundsInv, FundsAddUp
    <3> QED
      BY <1>2, <3>1, <3>2
  <2>2. /\ UNCHANGED <<pohGlobal, signups>>
        /\ clock' = clock \/ clock' = clock + 1
    <3>1. \A x, i, t, q, r, w, a, e :
            \/ RefuelOnly(i, t, q) \/ RefuelWithTerms(i, t, q, r, w)
            \/ SetFundInfo(x, i, t, a, e) \/ RedeemFund(x, i)
            => UNCHANGED <<pohGlobal, clock, signups>>
      BY DEF RefuelOnly, RefuelWithTerms, SetFundInfo, RedeemFund
    <3>2. FundMoves => UNCHANGED <<pohGlobal, clock, signups>>
      BY <3>1 DEF FundMoves
    <3>3. PohTick => UNCHANGED <<pohGlobal, signups>> /\ clock' = clock + 1
      BY DEF PohTick
    <3> QED
      BY <1>2, <3>2, <3>3
  <2>3. MintInv'
    BY <1>2, <2>2 DEF PohInv, MintInv, IssuesAccounted, SignupBudget, InvitesAccounted,
                      poeVars, pohGlobal
  <2>4. PoeInv'
    BY <1>2, PoeStep DEF PohInv
  <2> QED
    BY <2>1, <2>3, <2>4 DEF PohInv
<1>3. CASE SignUp
  <2>1. \A q \in SingRewards : q \in Nat
    BY PohAssumption DEF PohAssumption
  <2> QED
    BY <1>3, <2>1, AloneStep, InvitedStep DEF SignUp, RegistReward
<1>4. CASE PoeNext /\ UNCHANGED pohVars
  <2>1. PoeInv'
    BY <1>4, PoeStep DEF PohInv
  <2>2. consumed'[POH] = consumed[POH]
    <3>1. CASE PoeAdmin
      BY <3>1 DEF PoeAdmin, AddRewardAct, DelRewardAct, AddOperator, DelOperator, SetOperators
    <3>2. CASE \E a \in PoeAccts :
                 \/ \E cs \in ClaimLists : BatchClaim(a, cs)
                 \/ \E ds \in DropLists : BatchAirdrop(a, ds)
      BY <3>2 DEF BatchClaim, BatchAirdrop
    <3>3. CASE \E a \in PoeAccts, s \in PoeAccts \ {POH}, c \in Codes, q \in PointSums :
                 ConsumeAct(s, a, c, q)
      BY <3>3 DEF ConsumeAct, PohInv, PoeInv, PoeTypeOK
    <3>4. CASE \E q \in Deposits : OnDeposit(q)
      BY <3>4 DEF OnDeposit
    <3> QED
      BY <1>4, <3>1, <3>2, <3>3, <3>4 DEF PoeNext
  <2>3. MintInv'
    BY <1>4, <2>2 DEF PohInv, MintInv, IssuesAccounted, SignupBudget, InvitesAccounted,
                      pohVars, pohGlobal
  <2>4. FundsInv'
    BY <1>4 DEF PohInv, FundsInv, FundsAddUp, pohVars
  <2> QED
    BY <2>1, <2>3, <2>4 DEF PohInv
<1>5. CASE UNCHANGED pohWorld
  <2>1. UNCHANGED pohVars /\ UNCHANGED poeVars
    BY <1>5 DEF pohWorld
  <2>2. PoeInv'
    BY <2>1, PoeStep DEF PohInv
  <2>3. MintInv'
    BY <2>1 DEF PohInv, MintInv, IssuesAccounted, SignupBudget, InvitesAccounted,
                      pohVars, pohGlobal, poeVars
  <2>4. FundsInv'
    BY <2>1 DEF PohInv, FundsInv, FundsAddUp, pohVars
  <2> QED
    BY <2>2, <2>3, <2>4 DEF PohInv
<1> QED
  BY <1>1, <1>2, <1>3, <1>4, <1>5 DEF PohNext

\* The invariant holds when both contracts are deployed.
LEMMA PohStart == PohInit /\ PoeInit => PohInv
<1> SUFFICES ASSUME PohInit, PoeInit
             PROVE  PohInv
  OBVIOUS
<1>1. PoeInv
  BY PoeStart
<1>2. DOMAIN funds = {} /\ IsFunds(funds) /\ purse \in [FundTokens -> Nat]
  BY FS_EmptySet DEF PohInit, EmptyTable, IsFunds
<1>3. FundsAddUp
  <2> SUFFICES ASSUME NEW t \in FundTokens
               PROVE  FundTotal(funds, t) = 0
    BY DEF FundsAddUp, FundTotal, PohInit
  <2> DEFINE f == [k \in DOMAIN funds |-> IF k[2] = t THEN funds[k].available ELSE 0]
  <2>1. DOMAIN f = {}
    BY <1>2
  <2> HIDE DEF f
  <2>2. SumFunction(f) = 0
    BY <2>1, SumOfNone
  <2> QED
    BY <2>2 DEF f, FundTotal
<1>4. MintInv
  <2>1. Bonus * 0 = 0
    BY PohAssumption DEF PohAssumption
  <2>2. consumed[POH] = 0
    BY DEF PoeInit, PoeAccts
  <2> QED
    BY <2>1, <2>2 DEF PohInit, MintInv, IssuesAccounted, SignupBudget, InvitesAccounted
<1> QED
  BY <1>1, <1>2, <1>3, <1>4 DEF PohInv, FundsInv

\* Inductive
LEMMA PohAlways == PohSpec => []PohInv
<1>1. PohInv /\ [PohNext]_pohWorld => PohInv'
  BY PohStep
<1> QED
  BY <1>1, PohStart, PTL DEF PohSpec

\* For any inviters, tokens and rules: for each token the funds of all inviters
\* have left exactly what poh.cisum holds, through merged deposits, rewards
\* that empty a fund and redemptions.
THEOREM FundsAreKept == PohSpec => []FundsAddUp
<1>1. PohInv => FundsAddUp
  BY DEF PohInv, FundsInv
<1> QED
  BY <1>1, PohAlways, PTL

\* Nothing is minted for a sign-up that the books of poh.cisum and poe.cisum do
\* not show, whatever limits are set between sign-ups.
THEOREM SignupsAreAccounted == PohSpec => []IssuesAccounted
<1>1. PohInv => IssuesAccounted
  BY DEF PohInv, MintInv
<1> QED
  BY <1>1, PohAlways, PTL

\* The points of poe.cisum stay backed when poh.cisum takes them off its books
\* for sign-ups.
THEOREM PointsStayBackedAcross == PohSpec => []PointsBacked
<1>1. PohInv => PointsBacked
  BY DEF PohInv, PoeInv
<1> QED
  BY <1>1, PohAlways, PTL

\* What the invariant says of the types of the state.
LEMMA PohInvTypes == PohInv => PohTypeOK /\ PoeTypeOK
BY DEF PohInv, PoeInv, MintInv, FundsInv, IsFunds, PohTypeOK

\* The state of both contracts has its types, the amounts are never negative.
THEOREM FundTypes == PohSpec => [](PohTypeOK /\ PoeTypeOK)
BY PohInvTypes, PohAlways, PTL

-----------------------------------------------------------------------------
(***************************************************************************)
(* pos.cisum.                                                              *)
(***************************************************************************)

\* Products and quotients of numbers are numbers: facts the arithmetic of the
\* solver does not instantiate by itself.
LEMMA NatTimes == \A a, b \in Nat : a * b \in Nat
OBVIOUS
\* Products of integers.
LEMMA IntTimes == \A a, b \in Int : a * b \in Int
OBVIOUS
\* Products of positive numbers.
LEMMA PositiveTimes == \A a, b \in Nat \ {0} : a * b \in Nat \ {0}
OBVIOUS
\* Quotients of natural numbers.
LEMMA NatDiv == \A a \in Nat, b \in Nat \ {0} : a \div b \in Nat
OBVIOUS
\* Quotients of integers.
LEMMA IntDiv == \A a \in Int, b \in Nat \ {0} : a \div b \in Int
OBVIOUS

\* The roundings of safemath.
LEMMA MulDownNat ==
  ASSUME NEW a \in Nat, NEW b \in Nat, NEW p \in Nat \ {0}
  PROVE  MulDown(a, b, p) \in Nat
<1>1. a * b \in Nat
  BY NatTimes
<1> QED
  BY <1>1, NatDiv DEF MulDown

\* The same for a duration that may be negative.
LEMMA MulDownInt ==
  ASSUME NEW a \in Int, NEW b \in Int, NEW p \in Nat \ {0}
  PROVE  MulDown(a, b, p) \in Int
<1>1. a * b \in Int
  BY IntTimes
<1> QED
  BY <1>1, IntDiv DEF MulDown

\* Rounding half up gives an integer.
LEMMA MulUpInt ==
  ASSUME NEW a \in Int, NEW b \in Int, NEW p \in Nat \ {0}
  PROVE  MulUp(a, b, p) \in Int
<1>1. 10 * a \in Int
  OBVIOUS
<1>2. 10 * a * b \in Int
  BY <1>1, IntTimes
<1>3. (10 * a * b) \div p \in Int
  BY <1>2, IntDiv
<1> DEFINE e == (10 * a * b) \div p
<1> HIDE DEF e
<1>4. (e + 5) \div 10 \in Int
  BY <1>3, IntDiv DEF e
<1> QED
  BY <1>4 DEF MulUp, e

\* The terms of a plan.
LEMMA ConfFields ==
  ASSUME NEW c \in Confs
  PROVE  /\ c.days \in Nat /\ c.fine \in Nat /\ c.from \in Nat /\ c.to \in Nat
         /\ c.music \in Nat /\ c.token \in Tokens /\ c.scheme \in DOMAIN Rates
         /\ c.pool \in {"cisumapr", "nestpont"}
<1>1. c \in [type : {"term", "demand"}, pool : {"cisumapr", "nestpont"},
             scheme : DOMAIN Rates, days : Nat, allow : BOOLEAN, fine : Nat,
             from : Nat, to : Nat, token : Tokens, music : Nat]
  BY PosAssumption DEF PosAssumption
<1> QED
  BY <1>1

\* What the assumption says of the amounts and of the three tokens.
LEMMA PosNumbers ==
  /\ PctBoost \in Nat \ {0} /\ YearDays \in Nat \ {0} /\ Day \in Nat \ {0}
  /\ PctBoost * 100 \in Nat \ {0} /\ YearDays * Day \in Nat \ {0}
  /\ Principal \in Tokens /\ Music \in Tokens /\ CisumCoin \in Tokens
  /\ SymOf(Principal) # SymOf(Music) /\ SymOf(Principal) # SymOf(CisumCoin)
  /\ SymOf(Music) # SymOf(CisumCoin)
  /\ \A t \in Tokens : UnitOf[t] \in Nat \ {0}
  /\ \A q \in Sums : q \in Nat \ {0}
<1>1. PctBoost \in Nat \ {0} /\ YearDays \in Nat \ {0} /\ Day \in Nat \ {0}
  BY PosAssumption DEF PosAssumption
<1>2. PctBoost * 100 \in Nat \ {0} /\ YearDays * Day \in Nat \ {0}
  BY <1>1, PositiveTimes
<1> QED
  BY <1>1, <1>2, PosAssumption DEF PosAssumption, SymOf

\* The rate of a deposit in a scheme is a number.
LEMMA RateNat ==
  ASSUME NEW s \in DOMAIN Rates, NEW q
  PROVE  InterestRate(s, q) \in Nat
BY PosAssumption DEF PosAssumption, InterestRate

\* The interest of a term is a number.
LEMMA TermInterestNat ==
  ASSUME NEW rate \in Nat, NEW q \in Nat, NEW d \in Nat
  PROVE  TermInterest(rate, q, d) \in Nat
<1>1. rate * 100 \in Nat
  OBVIOUS
<1>2. MulDown(rate * 100, d, YearDays * Day) \in Nat
  BY <1>1, PosNumbers, MulDownNat
<1>3. MulDown(MulDown(rate * 100, d, YearDays * Day), q, PctBoost * 100) \in Nat
  BY <1>2, PosNumbers, MulDownNat
<1> QED
  BY <1>3 DEF TermInterest

\* The interest to date is an integer, even before the save was opened.
LEMMA TermInterestInt ==
  ASSUME NEW rate \in Nat, NEW q \in Nat, NEW d \in Int
  PROVE  TermInterest(rate, q, d) \in Int
<1>1. rate * 100 \in Int
  OBVIOUS
<1>2. MulDown(rate * 100, d, YearDays * Day) \in Int
  BY <1>1, PosNumbers, MulDownInt
<1>3. MulDown(MulDown(rate * 100, d, YearDays * Day), q, PctBoost * 100) \in Int
  BY <1>2, PosNumbers, MulDownInt
<1> QED
  BY <1>3 DEF TermInterest

\* The MUSIC lent for a deposit is a number.
LEMMA RewardNat ==
  ASSUME NEW c \in Confs, NEW q \in Nat
  PROVE  MusicReward(c, q) \in Nat
<1>1. c.music \in Nat /\ UnitOf[Music] \in Nat /\ UnitOf[Principal] \in Nat \ {0}
  BY ConfFields, PosNumbers
<1>2. q * UnitOf[Music] \in Nat
  BY <1>1, NatTimes
<1>3. (q * UnitOf[Music]) \div UnitOf[Principal] \in Nat
  BY <1>1, <1>2, NatDiv
<1>4. ((q * UnitOf[Music]) \div UnitOf[Principal]) * c.music \in Nat
  BY <1>1, <1>3, NatTimes
<1>5. (((q * UnitOf[Music]) \div UnitOf[Principal]) * c.music) \div PctBoost \in Nat
  BY <1>4, PosNumbers, NatDiv
<1> QED
  BY <1>5 DEF MusicReward

\* The points paid for a deposit are a number.
LEMMA PointsNat ==
  ASSUME NEW c \in Confs, NEW q \in Nat
  PROVE  PointsDue(c, q) \in Nat
<1>1. c.days \in Nat /\ UnitOf[c.token] \in Nat /\ UnitOf[Principal] \in Nat \ {0}
  BY ConfFields, PosNumbers
<1>2. q * UnitOf[c.token] \in Nat
  BY <1>1, NatTimes
<1> DEFINE a == (q * UnitOf[c.token]) \div UnitOf[Principal]
           r == InterestRate(c.scheme, q)
<1>3. a \in Nat
  BY <1>1, <1>2, NatDiv
<1>4. r \in Nat
  BY ConfFields, RateNat
<1> HIDE DEF a, r
<1>5. a * r \in Nat
  BY <1>3, <1>4, NatTimes
<1>6. a * r * c.days \in Nat
  BY <1>1, <1>5, NatTimes
<1>7. (a * r * c.days) \div PctBoost \in Nat
  BY <1>6, PosNumbers, NatDiv
<1>8. ((a * r * c.days) \div PctBoost) \div YearDays \in Nat
  BY <1>7, PosNumbers, NatDiv
<1> QED
  BY <1>8 DEF PointsDue, Points, a, r

-----------------------------------------------------------------------------
\* A well-formed table of saves, finite, in which no more MUSIC came back than
\* was lent and no more interest was collected than the term is worth.
IsSaves(sv) ==
  /\ IsFiniteSet(DOMAIN sv) /\ DOMAIN sv \subseteq Savers \X (1..MaxSaves)
  /\ sv \in [DOMAIN sv -> Save]
  /\ \A k \in DOMAIN sv : sv[k].returned <= sv[k].reward /\ sv[k].collected <= sv[k].term

\* A well-formed table of plans: a plan with a term has a number of days, and
\* interest is only kept in a token whose symbol can be refuelled.
IsPlans(pl) ==
  /\ IsFiniteSet(DOMAIN pl) /\ DOMAIN pl \subseteq PlanIds
  /\ pl \in [DOMAIN pl -> Plan]
  /\ \A p \in DOMAIN pl :
       /\ pl[p].conf.type = "term" => pl[p].conf.days > 0
       /\ pl[p].interest > 0 => SymOf(pl[p].conf.token) \in {SymOf(Principal), SymOf(CisumCoin)}

\* sums over a table
DepositsIn(sv) == SumFunction([k \in DOMAIN sv |-> sv[k].deposit])
\* Of one plan.
DepositsFor(sv, p) == SumFunction([k \in DOMAIN sv |-> IF sv[k].plan = p THEN sv[k].deposit ELSE 0])
\* The MUSIC on loan to the saves of a table.
LoanIn(sv) == SumFunction([k \in DOMAIN sv |-> sv[k].reward - sv[k].returned])
\* The interest a plan keeps in the principal token.
KeptOf(row) == IF SymOf(row.conf.token) = SymOf(Principal) THEN row.interest ELSE 0
\* What the plans of a table keep of it.
KeptIn(pl) == SumFunction([p \in DOMAIN pl |-> KeptOf(pl[p])])

\* The fields of a save.
LEMMA SaveFields ==
  ASSUME NEW row \in Save
  PROVE  /\ row.plan \in PlanIds /\ row.rate \in Nat /\ row.deposit \in Nat
         /\ row.term \in Nat /\ row.collected \in Nat /\ row.reward \in Nat
         /\ row.returned \in Nat /\ row.at \in Nat /\ row.last \in Nat
BY DEF Save

\* The fields of a plan.
LEMMA PlanFields ==
  ASSUME NEW row \in Plan
  PROVE  /\ row.conf \in Confs /\ row.deposit \in Nat /\ row.interest \in Nat
         /\ row.paid \in BOOLEAN /\ KeptOf(row) \in Nat
BY DEF Plan, KeptOf

\* The sums of a table of saves are numbers.
LEMMA SumsOfSaves ==
  ASSUME NEW sv, IsSaves(sv), NEW p
  PROVE  DepositsIn(sv) \in Nat /\ DepositsFor(sv, p) \in Nat /\ LoanIn(sv) \in Nat
<1> DEFINE D == DOMAIN sv
           f == [k \in D |-> sv[k].deposit]
           g == [k \in D |-> IF sv[k].plan = p THEN sv[k].deposit ELSE 0]
           h == [k \in D |-> sv[k].reward - sv[k].returned]
<1>1. \A k \in D : sv[k].deposit \in Nat /\ sv[k].reward - sv[k].returned \in Nat
  BY SaveFields DEF IsSaves
<1>2. f \in [D -> Nat] /\ g \in [D -> Nat] /\ h \in [D -> Nat] /\ IsFiniteSet(D)
  BY <1>1 DEF IsSaves
<1> HIDE DEF f, g, h, D
<1>3. SumFunction(f) \in Nat
  BY <1>2, SumIsNat
<1>4. SumFunction(g) \in Nat
  BY <1>2, SumIsNat
<1>5. SumFunction(h) \in Nat
  BY <1>2, SumIsNat
<1> QED
  BY <1>3, <1>4, <1>5 DEF DepositsIn, DepositsFor, LoanIn, f, g, h, D

\* What the plans keep is a number.
LEMMA SumOfPlans ==
  ASSUME NEW pl, IsPlans(pl)
  PROVE  KeptIn(pl) \in Nat
<1> DEFINE f == [p \in DOMAIN pl |-> KeptOf(pl[p])]
<1>1. f \in [DOMAIN pl -> Nat] /\ IsFiniteSet(DOMAIN pl)
  BY PlanFields DEF IsPlans
<1> HIDE DEF f
<1>2. SumFunction(f) \in Nat
  BY <1>1, SumIsNat
<1> QED
  BY <1>2 DEF KeptIn, f

\* A save is opened.
LEMMA SaveAdded ==
  ASSUME NEW sv, IsSaves(sv), NEW k \in Savers \X (1..MaxSaves), k \notin DOMAIN sv,
         NEW row \in Save, row.returned <= row.reward, row.collected <= row.term
  PROVE  /\ IsSaves(Put(sv, k, row))
         /\ DepositsIn(Put(sv, k, row)) = DepositsIn(sv) + row.deposit
         /\ \A p \in PlanIds : DepositsFor(Put(sv, k, row), p) =
              DepositsFor(sv, p) + (IF row.plan = p THEN row.deposit ELSE 0)
         /\ LoanIn(Put(sv, k, row)) = LoanIn(sv) + (row.reward - row.returned)
<1> DEFINE sw == Put(sv, k, row)
           D == DOMAIN sv
<1>1. DOMAIN sw = D \cup {k} /\ sw[k] = row /\ \A x \in D : sw[x] = sv[x]
  BY DEF Put
<1>2. IsFiniteSet(D) /\ IsFiniteSet(D \cup {k})
  BY FS_AddElement DEF IsSaves
<1>3. \A x \in D : sv[x] \in Save
  BY DEF IsSaves
<1>4. IsSaves(sw)
  BY <1>1, <1>2 DEF IsSaves, Put
<1>5. \A x \in D \cup {k} : sw[x] \in Save
  BY <1>1, <1>3
<1> HIDE DEF sw, D
<1>6. DepositsIn(sw) = DepositsIn(sv) + row.deposit
  <2> DEFINE f == [x \in D |-> sv[x].deposit]
             g == [x \in D \cup {k} |-> sw[x].deposit]
  <2>1. f \in [D -> Int] /\ g \in [D \cup {k} -> Int] /\ g[k] = row.deposit
    BY <1>1, <1>3, <1>5, SaveFields
  <2>2. \A x \in D : g[x] = f[x]
    BY <1>1
  <2>3. DepositsIn(sv) = SumFunction(f) /\ DepositsIn(sw) = SumFunction(g)
    BY <1>1 DEF DepositsIn, D
  <2>4. k \notin D
    BY DEF D
  <2> HIDE DEF f, g
  <2>5. SumFunction(g) = SumFunction(f) + g[k]
    <3>1. IsFiniteSet(D) /\ f \in [D -> Int] /\ k \notin D
      BY <1>2, <2>1, <2>4
    <3>2. g \in [D \cup {k} -> Int] /\ \A x \in D : g[x] = f[x]
      BY <2>1, <2>2
    <3> DEFINE E == D \cup {k}
    <3>3. E = D \cup {k} /\ g \in [E -> Int]
      BY <3>2
    <3> HIDE DEF E
    <3> QED
      BY <3>1, <3>2, <3>3, SumGrows
  <2> QED
    BY <2>1, <2>3, <2>5
<1>7. ASSUME NEW p \in PlanIds
      PROVE  DepositsFor(sw, p) =
               DepositsFor(sv, p) + (IF row.plan = p THEN row.deposit ELSE 0)
  <2> DEFINE f == [x \in D |-> IF sv[x].plan = p THEN sv[x].deposit ELSE 0]
             g == [x \in D \cup {k} |-> IF sw[x].plan = p THEN sw[x].deposit ELSE 0]
  <2>1. f \in [D -> Int] /\ g \in [D \cup {k} -> Int]
    BY <1>1, <1>3, <1>5, SaveFields
  <2>6. g[k] = IF row.plan = p THEN row.deposit ELSE 0
    BY <1>1
  <2>2. \A x \in D : g[x] = f[x]
    BY <1>1
  <2>3. DepositsFor(sv, p) = SumFunction(f) /\ DepositsFor(sw, p) = SumFunction(g)
    BY <1>1 DEF DepositsFor, D
  <2>4. k \notin D
    BY DEF D
  <2> HIDE DEF f, g
  <2>5. SumFunction(g) = SumFunction(f) + g[k]
    <3>1. IsFiniteSet(D) /\ f \in [D -> Int] /\ k \notin D
      BY <1>2, <2>1, <2>4
    <3>2. g \in [D \cup {k} -> Int] /\ \A x \in D : g[x] = f[x]
      BY <2>1, <2>2
    <3> DEFINE E == D \cup {k}
    <3>3. E = D \cup {k} /\ g \in [E -> Int]
      BY <3>2
    <3> HIDE DEF E
    <3> QED
      BY <3>1, <3>2, <3>3, SumGrows
  <2> QED
    BY <2>3, <2>5, <2>6
<1>8. LoanIn(sw) = LoanIn(sv) + (row.reward - row.returned)
  <2> DEFINE f == [x \in D |-> sv[x].reward - sv[x].returned]
             g == [x \in D \cup {k} |-> sw[x].reward - sw[x].returned]
  <2>1. f \in [D -> Int] /\ g \in [D \cup {k} -> Int]
    BY <1>1, <1>3, <1>5, SaveFields
  <2>6. g[k] = row.reward - row.returned
    BY <1>1
  <2>2. \A x \in D : g[x] = f[x]
    BY <1>1
  <2>3. LoanIn(sv) = SumFunction(f) /\ LoanIn(sw) = SumFunction(g)
    BY <1>1 DEF LoanIn, D
  <2>4. k \notin D
    BY DEF D
  <2> HIDE DEF f, g
  <2>5. SumFunction(g) = SumFunction(f) + g[k]
    <3>1. IsFiniteSet(D) /\ f \in [D -> Int] /\ k \notin D
      BY <1>2, <2>1, <2>4
    <3>2. g \in [D \cup {k} -> Int] /\ \A x \in D : g[x] = f[x]
      BY <2>1, <2>2
    <3> DEFINE E == D \cup {k}
    <3>3. E = D \cup {k} /\ g \in [E -> Int]
      BY <3>2
    <3> HIDE DEF E
    <3> QED
      BY <3>1, <3>2, <3>3, SumGrows
  <2> QED
    BY <2>3, <2>5, <2>6
<1> QED
  BY <1>4, <1>6, <1>7, <1>8 DEF sw

\* A save keeps its plan and its deposit for good; MUSIC comes back to it and
\* interest is collected from it.
LEMMA SaveRewritten ==
  ASSUME NEW sv, IsSaves(sv), NEW k \in DOMAIN sv, NEW row \in Save,
         row.plan = sv[k].plan, row.deposit = sv[k].deposit,
         row.returned <= row.reward, row.collected <= row.term
  PROVE  /\ IsSaves([sv EXCEPT ![k] = row])
         /\ DepositsIn([sv EXCEPT ![k] = row]) = DepositsIn(sv)
         /\ \A p \in PlanIds : DepositsFor([sv EXCEPT ![k] = row], p) = DepositsFor(sv, p)
         /\ LoanIn([sv EXCEPT ![k] = row]) =
              LoanIn(sv) - (sv[k].reward - sv[k].returned) + (row.reward - row.returned)
<1> DEFINE sw == [sv EXCEPT ![k] = row]
           D == DOMAIN sv
<1>0. sv \in [D -> Save]
  BY DEF IsSaves
<1>1. DOMAIN sw = D /\ sw[k] = row /\ (\A x \in D \ {k} : sw[x] = sv[x]) /\ k \in D
  BY <1>0
<1>2. IsFiniteSet(D)
  BY DEF IsSaves
<1>3. \A x \in D : sv[x] \in Save
  BY DEF IsSaves
<1>4. IsSaves(sw)
  BY <1>1, <1>2 DEF IsSaves
<1>5. \A x \in D : sw[x] \in Save
  BY <1>1, <1>3
<1>6. DepositsIn(sw) = DepositsIn(sv)
  BY <1>0, <1>1 DEF DepositsIn
<1>7. \A p \in PlanIds : DepositsFor(sw, p) = DepositsFor(sv, p)
  BY <1>0, <1>1 DEF DepositsFor
<1> HIDE DEF sw, D
<1>8. LoanIn(sw) =
        LoanIn(sv) - (sv[k].reward - sv[k].returned) + (row.reward - row.returned)
  <2> DEFINE f == [x \in D |-> sv[x].reward - sv[x].returned]
             g == [x \in D |-> sw[x].reward - sw[x].returned]
  <2>1. f \in [D -> Int] /\ g \in [D -> Int]
    BY <1>1, <1>3, <1>5, SaveFields
  <2>6. g[k] = row.reward - row.returned /\ f[k] = sv[k].reward - sv[k].returned
    BY <1>1
  <2>2. \A x \in D \ {k} : g[x] = f[x]
    BY <1>1
  <2>3. LoanIn(sv) = SumFunction(f) /\ LoanIn(sw) = SumFunction(g)
    BY <1>1 DEF LoanIn, D
  <2> HIDE DEF f, g
  <2>5. SumFunction(g) = SumFunction(f) - f[k] + g[k]
    BY <2>1, <2>2, <1>1, <1>2, SumChangeKey
  <2> QED
    BY <2>3, <2>5, <2>6
<1> QED
  BY <1>4, <1>6, <1>7, <1>8 DEF sw

\* A save is closed.
LEMMA SaveDropped ==
  ASSUME NEW sv, IsSaves(sv), NEW k \in DOMAIN sv
  PROVE  /\ IsSaves(Drop(sv, k))
         /\ DepositsIn(Drop(sv, k)) = DepositsIn(sv) - sv[k].deposit
         /\ \A p \in PlanIds : DepositsFor(Drop(sv, k), p) =
              DepositsFor(sv, p) - (IF sv[k].plan = p THEN sv[k].deposit ELSE 0)
         /\ LoanIn(Drop(sv, k)) = LoanIn(sv) - (sv[k].reward - sv[k].returned)
<1> DEFINE sw == Drop(sv, k)
           D == DOMAIN sv
<1>1. DOMAIN sw = D \ {k} /\ (\A x \in D \ {k} : sw[x] = sv[x]) /\ k \in D
  BY DEF Drop
<1>2. IsFiniteSet(D) /\ IsFiniteSet(D \ {k})
  BY FS_RemoveElement DEF IsSaves
<1>3. \A x \in D : sv[x] \in Save
  BY DEF IsSaves
<1>4. IsSaves(sw)
  BY <1>1, <1>2 DEF IsSaves, Drop
<1>5. \A x \in D \ {k} : sw[x] \in Save
  BY <1>1, <1>3
<1> HIDE DEF sw, D
<1>6. DepositsIn(sw) = DepositsIn(sv) - sv[k].deposit
  <2> DEFINE f == [x \in D |-> sv[x].deposit]
             g == [x \in D \ {k} |-> sw[x].deposit]
  <2>1. f \in [D -> Int] /\ g \in [D \ {k} -> Int] /\ f[k] = sv[k].deposit
    BY <1>1, <1>3, <1>5, SaveFields
  <2>2. \A x \in D \ {k} : g[x] = f[x]
    BY <1>1
  <2>3. DepositsIn(sv) = SumFunction(f) /\ DepositsIn(sw) = SumFunction(g)
    BY <1>1 DEF DepositsIn, D
  <2> HIDE DEF f, g
  <2>5. SumFunction(g) = SumFunction(f) - f[k]
    BY <2>1, <2>2, <1>1, <1>2, SumDropKey
  <2> QED
    BY <2>1, <2>3, <2>5
<1>7. ASSUME NEW p \in PlanIds
      PROVE  DepositsFor(sw, p) =
               DepositsFor(sv, p) - (IF sv[k].plan = p THEN sv[k].deposit ELSE 0)
  <2> DEFINE f == [x \in D |-> IF sv[x].plan = p THEN sv[x].deposit ELSE 0]
             g == [x \in D \ {k} |-> IF sw[x].plan = p THEN sw[x].deposit ELSE 0]
  <2>1. f \in [D -> Int] /\ g \in [D \ {k} -> Int]
    BY <1>1, <1>3, <1>5, SaveFields
  <2>6. f[k] = IF sv[k].plan = p THEN sv[k].deposit ELSE 0
    BY <1>1
  <2>2. \A x \in D \ {k} : g[x] = f[x]
    BY <1>1
  <2>3. DepositsFor(sv, p) = SumFunction(f) /\ DepositsFor(sw, p) = SumFunction(g)
    BY <1>1 DEF DepositsFor, D
  <2> HIDE DEF f, g
  <2>5. SumFunction(g) = SumFunction(f) - f[k]
    BY <2>1, <2>2, <1>1, <1>2, SumDropKey
  <2> QED
    BY <2>3, <2>5, <2>6
<1>8. LoanIn(sw) = LoanIn(sv) - (sv[k].reward - sv[k].returned)
  <2> DEFINE f == [x \in D |-> sv[x].reward - sv[x].returned]
             g == [x \in D \ {k} |-> sw[x].reward - sw[x].returned]
  <2>1. f \in [D -> Int] /\ g \in [D \ {k} -> Int]
    BY <1>1, <1>3, <1>5, SaveFields
  <2>6. f[k] = sv[k].reward - sv[k].returned
    BY <1>1
  <2>2. \A x \in D \ {k} : g[x] = f[x]
    BY <1>1
  <2>3. LoanIn(sv) = SumFunction(f) /\ LoanIn(sw) = SumFunction(g)
    BY <1>1 DEF LoanIn, D
  <2> HIDE DEF f, g
  <2>5. SumFunction(g) = SumFunction(f) - f[k]
    BY <2>1, <2>2, <1>1, <1>2, SumDropKey
  <2> QED
    BY <2>3, <2>5, <2>6
<1> QED
  BY <1>4, <1>6, <1>7, <1>8 DEF sw

\* A plan is made or rewritten.
LEMMA PlanPut ==
  ASSUME NEW pl, IsPlans(pl), NEW p \in PlanIds, NEW row \in Plan,
         row.conf.type = "term" => row.conf.days > 0,
         row.interest > 0 => SymOf(row.conf.token) \in {SymOf(Principal), SymOf(CisumCoin)}
  PROVE  /\ IsPlans(Put(pl, p, row))
         /\ p \in DOMAIN pl =>
              KeptIn(Put(pl, p, row)) = KeptIn(pl) - KeptOf(pl[p]) + KeptOf(row)
         /\ p \notin DOMAIN pl => KeptIn(Put(pl, p, row)) = KeptIn(pl) + KeptOf(row)
<1> DEFINE pw == Put(pl, p, row)
           D == DOMAIN pl
           f == [x \in D |-> KeptOf(pl[x])]
           g == [x \in D \cup {p} |-> KeptOf(pw[x])]
<1>1. DOMAIN pw = D \cup {p} /\ pw[p] = row /\ \A x \in D \ {p} : pw[x] = pl[x]
  BY DEF Put
<1>2. IsFiniteSet(D) /\ IsFiniteSet(D \cup {p})
  BY FS_AddElement DEF IsPlans
<1>3. \A x \in D : pl[x] \in Plan
  BY DEF IsPlans
<1>4. IsPlans(pw)
  BY <1>1, <1>2 DEF IsPlans, Put
<1>5. \A x \in D \cup {p} : pw[x] \in Plan
  BY <1>1, <1>3
<1> HIDE DEF pw, D
<1>6. f \in [D -> Int] /\ g \in [D \cup {p} -> Int] /\ g[p] = KeptOf(row)
  BY <1>1, <1>3, <1>5, PlanFields
<1>7. \A x \in D \ {p} : g[x] = f[x]
  BY <1>1
<1>8. KeptIn(pl) = SumFunction(f) /\ KeptIn(pw) = SumFunction(g)
  BY <1>1 DEF KeptIn, D
<1>9. p \in D => f[p] = KeptOf(pl[p])
  OBVIOUS
<1> HIDE DEF f, g
<1>10. ASSUME p \in D PROVE SumFunction(g) = SumFunction(f) - f[p] + g[p]
  <2>1. D \cup {p} = D
    BY <1>10
  <2>2. g \in [D -> Int]
    BY <1>6, <2>1
  <2> QED
    BY <1>10, <1>2, <1>6, <1>7, <2>2, SumChangeKey
<1>11. ASSUME p \notin D PROVE SumFunction(g) = SumFunction(f) + g[p]
  <2>1. \A x \in D : g[x] = f[x]
    BY <1>7, <1>11
  <2>2. IsFiniteSet(D) /\ f \in [D -> Int] /\ p \notin D
    BY <1>2, <1>6, <1>11
  <2>3. g \in [D \cup {p} -> Int]
    BY <1>6
  <2> DEFINE E == D \cup {p}
  <2>4. E = D \cup {p} /\ g \in [E -> Int]
    BY <2>3
  <2> HIDE DEF E
  <2> QED
    BY <2>1, <2>2, <2>4, SumGrows
<1> QED
  BY <1>4, <1>6, <1>8, <1>9, <1>10, <1>11 DEF pw, D

\* A plan in the table is rewritten.
LEMMA PlanRewritten ==
  ASSUME NEW pl, IsPlans(pl), NEW p \in DOMAIN pl, NEW row
  PROVE  [pl EXCEPT ![p] = row] = Put(pl, p, row)
<1>1. pl \in [DOMAIN pl -> Plan]
  BY DEF IsPlans
<1> QED
  BY <1>1 DEF Put

\* A plan is deleted.
LEMMA PlanDropped ==
  ASSUME NEW pl, IsPlans(pl), NEW p \in DOMAIN pl
  PROVE  IsPlans(Drop(pl, p)) /\ KeptIn(Drop(pl, p)) = KeptIn(pl) - KeptOf(pl[p])
<1> DEFINE pw == Drop(pl, p)
           D == DOMAIN pl
           f == [x \in D |-> KeptOf(pl[x])]
           g == [x \in D \ {p} |-> KeptOf(pw[x])]
<1>1. DOMAIN pw = D \ {p} /\ (\A x \in D \ {p} : pw[x] = pl[x]) /\ p \in D
  BY DEF Drop
<1>2. IsFiniteSet(D) /\ IsFiniteSet(D \ {p})
  BY FS_RemoveElement DEF IsPlans
<1>3. \A x \in D : pl[x] \in Plan
  BY DEF IsPlans
<1>4. IsPlans(pw)
  BY <1>1, <1>2 DEF IsPlans, Drop
<1> HIDE DEF pw, D
<1>6. f \in [D -> Int] /\ g \in [D \ {p} -> Int] /\ f[p] = KeptOf(pl[p])
  BY <1>1, <1>3, PlanFields
<1>7. \A x \in D \ {p} : g[x] = f[x]
  BY <1>1
<1>8. KeptIn(pl) = SumFunction(f) /\ KeptIn(pw) = SumFunction(g)
  BY <1>1 DEF KeptIn, D
<1> HIDE DEF f, g
<1>9. SumFunction(g) = SumFunction(f) - f[p]
  BY <1>1, <1>2, <1>6, <1>7, SumDropKey
<1> QED
  BY <1>4, <1>6, <1>8, <1>9 DEF pw

-----------------------------------------------------------------------------
\* The types of what is not a table.
PosScalars ==
  /\ mini_deposit_amount \in Nat /\ last_save_id \in Nat /\ music_treasury \in Nat
  /\ held \in [Tokens -> Nat] /\ now \in Nat /\ orphaned \in [PlanIds -> Nat]

\* What a plan counts as deposited; one that is gone counts nothing.
DepositAt(pl, p) == IF p \in DOMAIN pl THEN pl[p].deposit ELSE 0

\* The balance in the principal token covers saves and interest.
Covered(sv, pl, balances) == balances[Principal] >= DepositsIn(sv) + KeptIn(pl)

\* The balance in MUSIC is the treasury less what is on loan.
Balanced(sv, treasury, balances) == balances[Music] = treasury - LoanIn(sv)

\* Plans and deleted plans account for the saves.
Accounted(sv, pl, orphans) ==
  \A p \in PlanIds : DepositsFor(sv, p) = orphans[p] + DepositAt(pl, p)

\* The inductive invariant of pos.cisum. Beyond the properties it needs the
\* bounds of each save and the tokens a plan's interest can be in: points and
\* interest paid to a saver then leave the balances of the principal and of
\* MUSIC only with what the plan kept in them.
PosInv ==
  /\ PosScalars /\ IsSaves(saves) /\ IsPlans(plans)
  /\ Covered(saves, plans, held)
  /\ Balanced(saves, music_treasury, held)
  /\ Accounted(saves, plans, orphaned)

\* A second init moves nothing.
LEMMA PosInitStep ==
  ASSUME PosInv, NEW m \in Minis, PosInit(m)
  PROVE  PosInv'
<1>1. m \in Nat
  BY PosAssumption DEF PosAssumption
<1> QED
  BY <1>1 DEF PosInv, PosInit, PosScalars

\* New terms for a plan keep what it holds: the interest token changes only for
\* one of the same symbol, or when the plan never had interest.
LEMMA SetPlanStep ==
  ASSUME PosInv, NEW pid \in PlanIds, NEW c \in Confs, SetPlan(pid, c)
  PROVE  PosInv'
<1> DEFINE row == IF pid \in DOMAIN plans
                    THEN [plans[pid] EXCEPT !.conf = c]
                    ELSE [conf |-> c, deposit |-> 0, interest |-> 0, paid |-> FALSE]
           old == plans[pid]
<1>1. plans' = Put(plans, pid, row)
  BY DEF SetPlan
<1>2. UNCHANGED <<posGlobal, saves, held, now, orphaned>>
  BY DEF SetPlan
<1>3. IsPlans(plans)
  BY DEF PosInv
<1>4. pid \in DOMAIN plans => old \in Plan
  BY <1>3 DEF IsPlans
<1>5. /\ row \in Plan /\ row.conf = c
      /\ pid \in DOMAIN plans => row.deposit = old.deposit /\ row.interest = old.interest
      /\ pid \notin DOMAIN plans => row.deposit = 0 /\ row.interest = 0
  BY <1>4 DEF Plan
<1>6. /\ c.type = "term" => c.days > 0
      /\ pid \in DOMAIN plans /\ old.interest # 0 => SymOf(c.token) = SymOf(old.conf.token)
  BY DEF SetPlan
<1> HIDE DEF row
<1>7. row.interest > 0 => SymOf(row.conf.token) \in {SymOf(Principal), SymOf(CisumCoin)}
  BY <1>3, <1>5, <1>6 DEF IsPlans
<1>8. /\ pid \in DOMAIN plans => KeptOf(row) = KeptOf(old)
      /\ pid \notin DOMAIN plans => KeptOf(row) = 0
  BY <1>4, <1>5, <1>6, PlanFields DEF KeptOf
<1>9. /\ IsPlans(plans')
      /\ pid \in DOMAIN plans => KeptIn(plans') = KeptIn(plans) - KeptOf(old) + KeptOf(row)
      /\ pid \notin DOMAIN plans => KeptIn(plans') = KeptIn(plans) + KeptOf(row)
  BY <1>1, <1>3, <1>5, <1>6, <1>7, PlanPut
<1>10. KeptIn(plans') = KeptIn(plans)
  BY <1>3, <1>4, <1>8, <1>9, SumOfPlans, PlanFields
<1>11. \A p \in PlanIds : DepositAt(plans', p) = DepositAt(plans, p)
  BY <1>1, <1>5 DEF DepositAt, Put
<1>12. Covered(saves', plans', held')
  BY <1>2, <1>10 DEF PosInv, Covered
<1>13. Accounted(saves', plans', orphaned')
  BY <1>2, <1>11 DEF PosInv, Accounted
<1> QED
  BY <1>2, <1>9, <1>12, <1>13 DEF PosInv, PosScalars, posGlobal

\* A deleted plan leaves its interest to nobody and its deposits to the
\* history.
LEMMA DelPlanStep ==
  ASSUME PosInv, NEW pid \in PlanIds, DelPlan(pid)
  PROVE  PosInv'
<1>1. /\ pid \in DOMAIN plans /\ plans' = Drop(plans, pid)
      /\ orphaned' = [orphaned EXCEPT ![pid] = @ + plans[pid].deposit]
      /\ UNCHANGED <<posGlobal, saves, held, now>>
  BY DEF DelPlan
<1>2. IsPlans(plans) /\ orphaned \in [PlanIds -> Nat] /\ plans[pid] \in Plan
  BY <1>1 DEF PosInv, PosScalars, IsPlans
<1>3. IsPlans(plans') /\ KeptIn(plans') = KeptIn(plans) - KeptOf(plans[pid])
  BY <1>1, <1>2, PlanDropped
<1>4. KeptIn(plans) \in Nat /\ KeptOf(plans[pid]) \in Nat /\ plans[pid].deposit \in Nat
  BY <1>2, SumOfPlans, PlanFields
<1>5. \A p \in PlanIds :
        orphaned'[p] + DepositAt(plans', p) = orphaned[p] + DepositAt(plans, p)
  BY <1>1, <1>2, <1>4 DEF DepositAt, Drop
<1>6. orphaned' \in [PlanIds -> Nat]
  BY <1>1, <1>2, <1>4
<1>7. Covered(saves', plans', held')
  <2>1. DepositsIn(saves) \in Nat /\ held[Principal] \in Nat
    BY SumsOfSaves, PosNumbers DEF PosInv, PosScalars
  <2> QED
    BY <2>1, <1>1, <1>3, <1>4 DEF PosInv, Covered
<1>8. Accounted(saves', plans', orphaned')
  BY <1>1, <1>5 DEF PosInv, Accounted
<1> QED
  BY <1>1, <1>3, <1>6, <1>7, <1>8 DEF PosInv, PosScalars, posGlobal

\* Refuelled interest comes with its tokens.
LEMMA PosRefuelStep ==
  ASSUME PosInv, NEW q \in Sums, NEW t \in Tokens, NEW pid \in PlanIds, Refuel(t, pid, q)
  PROVE  PosInv'
<1> DEFINE old == plans[pid]
           row == [old EXCEPT !.interest = @ + q]
<1>1. /\ t \in {Principal, CisumCoin} /\ pid \in DOMAIN plans /\ old.conf.token = t
      /\ plans' = [plans EXCEPT ![pid] = row]
      /\ held' = [held EXCEPT ![t] = @ + q]
      /\ UNCHANGED <<posGlobal, saves, now, orphaned>>
  BY DEF Refuel
<1>2. IsPlans(plans) /\ old \in Plan /\ held \in [Tokens -> Nat] /\ q \in Nat
  BY <1>1, PosNumbers DEF PosInv, PosScalars, IsPlans
<1>3. /\ row \in Plan /\ row.conf = old.conf /\ row.deposit = old.deposit
      /\ row.interest = old.interest + q
  BY <1>2 DEF Plan
<1>4. old.conf.type = "term" => old.conf.days > 0
  BY <1>1, <1>2 DEF IsPlans
<1> HIDE DEF row, old
<1>5. /\ IsPlans(plans')
      /\ KeptIn(plans') = KeptIn(plans) - KeptOf(old) + KeptOf(row)
  <2>1. SymOf(row.conf.token) \in {SymOf(Principal), SymOf(CisumCoin)}
    BY <1>1, <1>3
  <2>2. plans' = Put(plans, pid, row)
    BY <1>1, <1>2, PlanRewritten
  <2>3. /\ row.conf.type = "term" => row.conf.days > 0
        /\ row.interest > 0 => SymOf(row.conf.token) \in {SymOf(Principal), SymOf(CisumCoin)}
    BY <1>3, <1>4, <2>1
  <2>4. IsPlans(plans) /\ row \in Plan /\ pid \in DOMAIN plans /\ old = plans[pid]
    BY <1>1, <1>2, <1>3 DEF old
  <2> QED
    BY <2>2, <2>3, <2>4, PlanPut
<1>6. KeptOf(row) = KeptOf(old) + (IF t = Principal THEN q ELSE 0)
  BY <1>1, <1>2, <1>3, PosNumbers, PlanFields DEF KeptOf
<1>7. /\ held' \in [Tokens -> Nat] /\ held'[Music] = held[Music]
      /\ held'[Principal] = held[Principal] + (IF t = Principal THEN q ELSE 0)
  BY <1>1, <1>2, PosNumbers
<1>8. \A p \in PlanIds : DepositAt(plans', p) = DepositAt(plans, p)
  BY <1>1, <1>2, <1>3 DEF DepositAt, IsPlans, old
<1>9. Covered(saves', plans', held')
  <2>1. DepositsIn(saves) \in Nat /\ held[Principal] \in Nat /\ KeptIn(plans) \in Nat
    BY SumsOfSaves, SumOfPlans, PosNumbers DEF PosInv, PosScalars
  <2>2. KeptOf(old) \in Nat
    BY <1>2, PlanFields
  <2>3. held[Principal] >= DepositsIn(saves) + KeptIn(plans) /\ saves' = saves
    BY <1>1 DEF PosInv, Covered
  <2>4. held'[Principal] >= DepositsIn(saves) + KeptIn(plans')
    BY <2>1, <2>2, <2>3, <1>2, <1>5, <1>6, <1>7
  <2> QED
    BY <2>3, <2>4 DEF Covered
<1>10. Balanced(saves', music_treasury', held')
  BY <1>1, <1>7 DEF PosInv, Balanced, posGlobal
<1>11. Accounted(saves', plans', orphaned')
  BY <1>1, <1>8 DEF PosInv, Accounted
<1> QED
  BY <1>1, <1>5, <1>7, <1>9, <1>10, <1>11 DEF PosInv, PosScalars, posGlobal

\* MUSIC for the treasury.
LEMMA RefuelMusicStep ==
  ASSUME PosInv, NEW q \in Sums, RefuelMusic(q)
  PROVE  PosInv'
<1>1. /\ music_treasury' = music_treasury + q
      /\ held' = [held EXCEPT ![Music] = @ + q]
      /\ UNCHANGED <<mini_deposit_amount, last_save_id, plans, saves, now, orphaned>>
  BY DEF RefuelMusic
<1>2. held \in [Tokens -> Nat] /\ q \in Nat /\ music_treasury \in Nat
  BY PosNumbers DEF PosInv, PosScalars
<1>3. /\ held' \in [Tokens -> Nat] /\ held'[Music] = held[Music] + q
      /\ held'[Principal] = held[Principal]
  BY <1>1, <1>2, PosNumbers
<1>4. Covered(saves', plans', held')
  BY <1>1, <1>3 DEF PosInv, Covered
<1>5. LoanIn(saves) \in Nat
  BY SumsOfSaves DEF PosInv
<1>6. Balanced(saves', music_treasury', held')
  BY <1>1, <1>2, <1>3, <1>5 DEF PosInv, Balanced
<1> QED
  BY <1>1, <1>2, <1>3, <1>4, <1>6 DEF PosInv, PosScalars, Accounted

\* MUSIC that comes back is off the loans.
LEMMA ReturnMusicStep ==
  ASSUME PosInv, NEW k \in DOMAIN saves, NEW q \in Sums, ReturnMusic(k, q)
  PROVE  PosInv'
<1> DEFINE old == saves[k]
           row == [old EXCEPT !.returned = @ + q]
<1>1. /\ old.returned + q <= old.reward /\ saves' = [saves EXCEPT ![k] = row]
      /\ held' = [held EXCEPT ![Music] = @ + q]
      /\ UNCHANGED <<mini_deposit_amount, last_save_id, music_treasury, plans, now, orphaned>>
  BY DEF ReturnMusic, MusicBack
<1>2. /\ IsSaves(saves) /\ old \in Save /\ old.collected <= old.term
      /\ held \in [Tokens -> Nat] /\ q \in Nat /\ music_treasury \in Nat
  BY PosNumbers DEF PosInv, PosScalars, IsSaves
<1>3. /\ row \in Save /\ row.plan = old.plan /\ row.deposit = old.deposit
      /\ row.reward = old.reward /\ row.returned = old.returned + q
      /\ row.collected = old.collected /\ row.term = old.term
  BY <1>2 DEF Save
<1> HIDE DEF row
<1>4. /\ IsSaves(saves') /\ DepositsIn(saves') = DepositsIn(saves)
      /\ \A p \in PlanIds : DepositsFor(saves', p) = DepositsFor(saves, p)
      /\ LoanIn(saves') = LoanIn(saves) - (old.reward - old.returned)
                            + (row.reward - row.returned)
  BY <1>1, <1>2, <1>3, SaveRewritten
<1>5. /\ held' \in [Tokens -> Nat] /\ held'[Music] = held[Music] + q
      /\ held'[Principal] = held[Principal]
  BY <1>1, <1>2, PosNumbers
<1>6. Covered(saves', plans', held')
  BY <1>1, <1>4, <1>5 DEF PosInv, Covered
<1>7. Balanced(saves', music_treasury', held')
  <2>1. LoanIn(saves) \in Nat /\ old.reward \in Nat /\ old.returned \in Nat
    BY <1>2, SumsOfSaves, SaveFields
  <2>2. LoanIn(saves') = LoanIn(saves) - q
    BY <2>1, <1>2, <1>3, <1>4
  <2>3. held[Music] = music_treasury - LoanIn(saves)
    BY DEF PosInv, Balanced
  <2> QED
    BY <2>1, <2>2, <2>3, <1>1, <1>2, <1>5 DEF Balanced
<1>8. Accounted(saves', plans', orphaned')
  BY <1>1, <1>4 DEF PosInv, Accounted
<1> QED
  BY <1>1, <1>4, <1>5, <1>6, <1>7, <1>8 DEF PosInv, PosScalars

\* A deposit brings its principal; the points it earns come out of the plan's
\* interest, the MUSIC it is lent goes on loan.
LEMMA PosDepositStep ==
  ASSUME PosInv, NEW owner \in Savers, NEW pid \in DOMAIN plans, NEW q \in Sums,
         Deposit(owner, pid, q)
  PROVE  PosInv'
<1> DEFINE old == plans[pid]
           conf == old.conf
           id == last_save_id + 1
           k == <<owner, id>>
           rate == InterestRate(conf.scheme, q)
           earned == PointsDue(conf, q)
           reward == MusicReward(conf, q)
           term == IF conf.pool = "cisumapr" THEN TermInterest(rate, q, conf.days * Day) ELSE 0
           row == [plan |-> pid, rate |-> rate, deposit |-> q, term |-> term,
                   collected |-> 0, sym |-> SymOf(conf.token), reward |-> reward,
                   returned |-> 0, at |-> now, last |-> now]
           paid == old.paid \/ earned > 0
           plan == [old EXCEPT !.deposit = old.deposit + q,
                               !.interest = old.interest - earned, !.paid = paid]
<1>1. /\ conf.pool = "nestpont" => earned > 0 /\ earned <= old.interest
      /\ k \notin DOMAIN saves /\ id <= MaxSaves
      /\ Payable(AfterDeposit(conf, q))
      /\ plans' = [plans EXCEPT ![pid] = plan]
      /\ saves' = Put(saves, k, row)
      /\ last_save_id' = id
      /\ held' = AfterDeposit(conf, q)
      /\ UNCHANGED <<mini_deposit_amount, music_treasury, now, orphaned>>
  BY DEF Deposit
<1>2. /\ IsSaves(saves) /\ IsPlans(plans) /\ held \in [Tokens -> Nat] /\ q \in Nat
      /\ music_treasury \in Nat /\ last_save_id \in Nat /\ now \in Nat
      /\ orphaned \in [PlanIds -> Nat]
  BY PosNumbers DEF PosInv, PosScalars
<1>3. pid \in PlanIds /\ old \in Plan /\ conf \in Confs /\ old.interest \in Nat /\ old.deposit \in Nat
  BY <1>2, PlanFields DEF IsPlans
<1>4. earned \in Nat /\ reward \in Nat /\ rate \in Nat /\ term \in Nat
  <2>1. earned \in Nat /\ reward \in Nat
    BY <1>2, <1>3, PointsNat, RewardNat
  <2>2. rate \in Nat
    BY <1>3, ConfFields, RateNat
  <2>3. conf.days * Day \in Nat
    BY <1>3, ConfFields, PosNumbers, NatTimes
  <2> HIDE DEF earned, reward, rate
  <2>4. TermInterest(rate, q, conf.days * Day) \in Nat
    BY <1>2, <2>2, <2>3, TermInterestNat
  <2> QED
    BY <2>1, <2>2, <2>4
<1>5. conf.token \in Tokens /\ conf.pool \in {"cisumapr", "nestpont"}
  BY <1>3, ConfFields
<1>6. earned <= old.interest
  BY <1>1, <1>3, <1>4, <1>5 DEF PointsDue
<1>7. earned > 0 => SymOf(conf.token) \in {SymOf(Principal), SymOf(CisumCoin)}
  BY <1>2, <1>3, <1>4, <1>6 DEF IsPlans
<1>8. conf.token = Music => earned = 0
  BY <1>4, <1>7, PosNumbers
<1>9. k \in Savers \X (1..MaxSaves)
  <2>1. id \in 1..MaxSaves
    BY <1>1, <1>2, PosAssumption DEF PosAssumption
  <2> QED
    BY <2>1
<1> HIDE DEF earned, reward, rate, term, k, id
<1>10. row \in Save
  BY <1>2, <1>3, <1>4, <1>5 DEF Save, SymOf
<1>11. row.plan = pid /\ row.deposit = q /\ row.returned = 0 /\ row.reward = reward
       /\ row.collected = 0 /\ row.term = term
  OBVIOUS
<1>12. /\ old.deposit + q \in Nat /\ old.interest - earned \in Nat /\ paid \in BOOLEAN
  BY <1>2, <1>3, <1>4, <1>6
<1> HIDE DEF paid
<1>13. plan \in Plan /\ plan.conf = conf /\ plan.deposit = old.deposit + q
       /\ plan.interest = old.interest - earned
  <2> DEFINE d == old.deposit + q
             i == old.interest - earned
  <2>1. /\ d \in Nat /\ i \in Nat /\ paid \in BOOLEAN
        /\ plan = [old EXCEPT !.deposit = d, !.interest = i, !.paid = paid]
    BY <1>12
  <2>2. old \in Plan
    BY <1>3
  <2> HIDE DEF d, i, plan, old
  <2>3. plan \in Plan /\ plan.conf = old.conf /\ plan.deposit = d /\ plan.interest = i
    BY <2>1, <2>2 DEF Plan
  <2> QED
    BY <2>3 DEF d, i
<1> HIDE DEF row, plan
<1>14. /\ IsSaves(saves') /\ DepositsIn(saves') = DepositsIn(saves) + q
       /\ \A p \in PlanIds : DepositsFor(saves', p) =
            DepositsFor(saves, p) + (IF pid = p THEN q ELSE 0)
       /\ LoanIn(saves') = LoanIn(saves) + reward
  <2>1. row.returned <= row.reward /\ row.collected <= row.term
    BY <1>4, <1>11
  <2>2. saves' = Put(saves, k, row) /\ k \notin DOMAIN saves
    BY <1>1
  <2>3. reward - 0 = reward
    BY <1>4
  <2> QED
    BY <1>2, <1>9, <1>10, <1>11, <2>1, <2>2, <2>3, SaveAdded
<1>15. /\ IsPlans(plans') /\ KeptIn(plans') = KeptIn(plans) - KeptOf(old) + KeptOf(plan)
  <2>1. /\ plan.conf.type = "term" => plan.conf.days > 0
        /\ plan.interest > 0 => SymOf(plan.conf.token) \in {SymOf(Principal), SymOf(CisumCoin)}
    BY <1>2, <1>3, <1>4, <1>13 DEF IsPlans
  <2>2. plans' = Put(plans, pid, plan)
    BY <1>1, <1>2, PlanRewritten
  <2>3. IsPlans(plans) /\ plan \in Plan
    BY <1>2, <1>13
  <2> QED
    BY <1>3, <2>1, <2>2, <2>3, PlanPut
<1>16. KeptOf(plan) =
         KeptOf(old) - (IF SymOf(conf.token) = SymOf(Principal) THEN earned ELSE 0)
  BY <1>3, <1>4, <1>13 DEF KeptOf
<1>17. /\ held' \in [Tokens -> Nat] /\ held'[Music] = held[Music] - reward
       /\ held'[Principal] = held[Principal] + q
                              - (IF conf.token = Principal THEN earned ELSE 0)
  <2> DEFINE in == [held EXCEPT ![Principal] = @ + q]
             lent == [in EXCEPT ![Music] = @ - reward]
             after == [lent EXCEPT ![conf.token] = @ - earned]
  <2>1. AfterDeposit(conf, q) = after
    BY DEF AfterDeposit, earned, reward
  <2>2. /\ in \in [Tokens -> Nat] /\ in[Principal] = held[Principal] + q
        /\ in[Music] = held[Music]
    BY <1>2, PosNumbers
  <2> HIDE DEF in
  <2>3. /\ lent \in [Tokens -> Int] /\ lent[Principal] = held[Principal] + q
        /\ lent[Music] = held[Music] - reward
    BY <2>2, <1>2, <1>4, PosNumbers
  <2> HIDE DEF lent
  <2>4. /\ after \in [Tokens -> Int]
        /\ after[Principal] = held[Principal] + q - (IF conf.token = Principal THEN earned ELSE 0)
    BY <2>3, <1>2, <1>4, <1>5, PosNumbers
  <2>5. after[Music] = held[Music] - reward
    <3>1. lent[Music] - 0 = lent[Music]
      BY <2>3, PosNumbers
    <3> QED
      BY <2>3, <3>1, <1>4, <1>5, <1>8, PosNumbers
  <2> HIDE DEF after
  <2>6. \A t \in Tokens : after[t] >= 0
    BY <1>1, <2>1 DEF Payable
  <2>7. after \in [Tokens -> Nat]
    BY <2>4, <2>6
  <2> QED
    BY <1>1, <2>1, <2>4, <2>5, <2>7
<1>18. \A p \in PlanIds :
         DepositAt(plans', p) = DepositAt(plans, p) + (IF pid = p THEN q ELSE 0)
  <2>1. /\ DOMAIN plans' = DOMAIN plans /\ plans'[pid] = plan
        /\ \A p \in DOMAIN plans \ {pid} : plans'[p] = plans[p]
    BY <1>1, <1>2 DEF IsPlans
  <2>2. \A p \in DOMAIN plans : plans[p].deposit \in Nat
    BY <1>2, PlanFields DEF IsPlans
  <2> QED
    BY <2>1, <2>2, <1>2, <1>13 DEF DepositAt
<1>19. Covered(saves', plans', held')
  <2>1. DepositsIn(saves) \in Nat /\ held[Principal] \in Nat /\ KeptIn(plans) \in Nat
    BY <1>2, SumsOfSaves, SumOfPlans, PosNumbers
  <2>2. KeptOf(old) \in Nat
    BY <1>3, PlanFields
  <2>3. held[Principal] >= DepositsIn(saves) + KeptIn(plans)
    BY DEF PosInv, Covered
  <2>4. held'[Principal] >= DepositsIn(saves') + KeptIn(plans')
    BY <2>1, <2>2, <2>3, <1>2, <1>4, <1>14, <1>15, <1>16, <1>17
  <2> QED
    BY <2>4 DEF Covered
<1>20. Balanced(saves', music_treasury', held')
  <2>1. held[Music] = music_treasury - LoanIn(saves) /\ music_treasury' = music_treasury
    BY <1>1 DEF PosInv, Balanced
  <2>2. LoanIn(saves) \in Nat
    BY <1>2, SumsOfSaves
  <2> QED
    BY <2>1, <2>2, <1>2, <1>4, <1>14, <1>17 DEF Balanced
<1>21. Accounted(saves', plans', orphaned')
  <2>1. \A p \in PlanIds : DepositsFor(saves, p) = orphaned[p] + DepositAt(plans, p)
    BY DEF PosInv, Accounted
  <2>2. \A p \in PlanIds : DepositAt(plans, p) \in Nat /\ orphaned[p] \in Nat
    BY <1>2, PlanFields DEF DepositAt, IsPlans
  <2>3. orphaned' = orphaned
    BY <1>1
  <2> QED
    BY <2>1, <2>2, <2>3, <1>2, <1>14, <1>18 DEF Accounted
<1>22. PosScalars'
  BY <1>1, <1>2, <1>17 DEF PosInv, PosScalars, id
<1> QED
  BY <1>14, <1>15, <1>19, <1>20, <1>21, <1>22 DEF PosInv

\* Interest collected comes out of the plan's interest.
LEMMA CollectIntStep ==
  ASSUME PosInv, NEW signer, NEW k \in DOMAIN saves, CollectInt(signer, k)
  PROVE  PosInv'
<1> DEFINE s == saves[k]
           pid == s.plan
           old == plans[pid]
           token == old.conf.token
           due == InterestDue(k)
           collected == s.collected + due
           row == [s EXCEPT !.collected = collected, !.last = now]
           interest == old.interest - due
           plan == [old EXCEPT !.interest = interest, !.paid = TRUE]
<1>1. /\ pid \in DOMAIN plans
      /\ due > 0 /\ due <= old.interest /\ due <= held[token]
      /\ held' = [held EXCEPT ![token] = @ - due]
      /\ saves' = [saves EXCEPT ![k] = row]
      /\ plans' = [plans EXCEPT ![pid] = plan]
      /\ UNCHANGED <<posGlobal, now, orphaned>>
  BY DEF CollectInt
<1>2. /\ IsSaves(saves) /\ IsPlans(plans) /\ held \in [Tokens -> Nat]
      /\ now \in Nat /\ orphaned \in [PlanIds -> Nat]
  BY DEF PosInv, PosScalars
<1>3. /\ s \in Save /\ s.returned <= s.reward /\ s.collected <= s.term
      /\ pid \in PlanIds /\ old \in Plan
      /\ old.interest > 0 => SymOf(token) \in {SymOf(Principal), SymOf(CisumCoin)}
      /\ old.conf.type = "term" => old.conf.days > 0
  BY <1>1, <1>2 DEF IsSaves, IsPlans
<1>4. due \in Int /\ collected <= s.term
  <2>1. /\ s.rate \in Nat /\ s.deposit \in Nat /\ s.at \in Nat /\ s.term \in Nat
        /\ s.collected \in Nat
    BY <1>3, SaveFields
  <2>2. now - s.at \in Int
    BY <2>1, <1>2
  <2>3. TermInterest(s.rate, s.deposit, now - s.at) \in Int
    BY <2>1, <2>2, TermInterestInt
  <2>4. Accrued(k) \in Int /\ Accrued(k) <= s.term
    BY <2>1, <2>3 DEF Accrued
  <2> QED
    BY <2>1, <2>4 DEF InterestDue
<1>5. old.interest \in Nat /\ token \in Tokens /\ KeptOf(old) \in Nat
  BY <1>3, PlanFields, ConfFields
<1> HIDE DEF due
<1>6. token # Music
  BY <1>1, <1>3, <1>4, <1>5, PosNumbers
<1>7. interest \in Nat /\ collected \in Nat
  BY <1>1, <1>3, <1>4, <1>5, SaveFields
<1> HIDE DEF interest, collected
<1>8. /\ row \in Save /\ row.plan = s.plan /\ row.deposit = s.deposit
      /\ row.reward = s.reward /\ row.returned = s.returned
      /\ row.collected = collected /\ row.term = s.term
  BY <1>2, <1>3, <1>7 DEF Save
<1>9. plan \in Plan /\ plan.conf = old.conf /\ plan.deposit = old.deposit
      /\ plan.interest = interest
  BY <1>3, <1>7 DEF Plan
<1> HIDE DEF row, plan
<1>10. /\ IsSaves(saves') /\ DepositsIn(saves') = DepositsIn(saves)
       /\ \A p \in PlanIds : DepositsFor(saves', p) = DepositsFor(saves, p)
       /\ LoanIn(saves') = LoanIn(saves)
  <2>1. row.returned <= row.reward /\ row.collected <= row.term
    BY <1>3, <1>4, <1>8
  <2>2. /\ IsSaves(saves') /\ DepositsIn(saves') = DepositsIn(saves)
        /\ \A p \in PlanIds : DepositsFor(saves', p) = DepositsFor(saves, p)
        /\ LoanIn(saves') = LoanIn(saves) - (s.reward - s.returned)
                              + (row.reward - row.returned)
    BY <1>1, <1>2, <1>8, <2>1, SaveRewritten
  <2>3. LoanIn(saves) \in Nat /\ s.reward \in Nat /\ s.returned \in Nat
    BY <1>2, <1>3, SumsOfSaves, SaveFields
  <2> QED
    BY <2>2, <2>3, <1>8
<1>11. IsPlans(plans') /\ KeptIn(plans') = KeptIn(plans) - KeptOf(old) + KeptOf(plan)
  <2>1. /\ plan.conf.type = "term" => plan.conf.days > 0
        /\ plan.interest > 0 => SymOf(plan.conf.token) \in {SymOf(Principal), SymOf(CisumCoin)}
    BY <1>1, <1>3, <1>4, <1>5, <1>9
  <2>2. plans' = Put(plans, pid, plan)
    BY <1>1, <1>2, PlanRewritten
  <2>3. IsPlans(plans) /\ plan \in Plan /\ pid \in DOMAIN plans /\ pid \in PlanIds
    BY <1>1, <1>2, <1>3, <1>9
  <2> QED
    BY <2>1, <2>2, <2>3, PlanPut
<1>12. KeptOf(plan) =
         KeptOf(old) - (IF SymOf(token) = SymOf(Principal) THEN due ELSE 0)
  BY <1>4, <1>5, <1>9 DEF KeptOf, interest
<1>13. /\ held' \in [Tokens -> Nat] /\ held'[Music] = held[Music]
       /\ held'[Principal] = held[Principal] - (IF token = Principal THEN due ELSE 0)
  <2>1. held[token] - due \in Nat
    BY <1>1, <1>2, <1>4, <1>5
  <2> QED
    BY <2>1, <1>1, <1>2, <1>4, <1>5, <1>6, PosNumbers
<1>14. \A p \in PlanIds : DepositAt(plans', p) = DepositAt(plans, p)
  <2>1. /\ DOMAIN plans' = DOMAIN plans /\ plans'[pid] = plan
        /\ \A p \in DOMAIN plans \ {pid} : plans'[p] = plans[p]
    BY <1>1, <1>2 DEF IsPlans
  <2> QED
    BY <2>1, <1>9 DEF DepositAt
<1>15. Covered(saves', plans', held')
  <2>1. DepositsIn(saves) \in Nat /\ held[Principal] \in Nat /\ KeptIn(plans) \in Nat
    BY <1>2, SumsOfSaves, SumOfPlans, PosNumbers
  <2>2. held[Principal] >= DepositsIn(saves) + KeptIn(plans)
    BY DEF PosInv, Covered
  <2>3. held'[Principal] >= DepositsIn(saves') + KeptIn(plans')
    BY <2>1, <2>2, <1>1, <1>4, <1>5, <1>10, <1>11, <1>12, <1>13
  <2> QED
    BY <2>3 DEF Covered
<1>16. Balanced(saves', music_treasury', held')
  BY <1>1, <1>10, <1>13 DEF PosInv, Balanced, posGlobal
<1>17. Accounted(saves', plans', orphaned')
  BY <1>1, <1>10, <1>14 DEF PosInv, Accounted
<1> QED
  BY <1>1, <1>10, <1>11, <1>13, <1>15, <1>16, <1>17 DEF PosInv, PosScalars, posGlobal

\* The fine is a number: a plan with a term has a number of days.
LEMMA PenaltyInt ==
  ASSUME PosInv, NEW k \in DOMAIN saves, saves[k].plan \in DOMAIN plans
  PROVE  Penalty(k) \in Int
<1> DEFINE conf == ConfOf(k)
           max == conf.fine
<1>1. /\ saves[k] \in Save /\ plans[saves[k].plan] \in Plan
      /\ conf.type = "term" => conf.days > 0
  BY DEF PosInv, IsSaves, IsPlans, ConfOf
<1>2. saves[k].deposit \in Nat /\ saves[k].at \in Nat /\ conf \in Confs
  BY <1>1, SaveFields, PlanFields DEF ConfOf
<1>3. max \in Nat /\ conf.days \in Nat
  BY <1>2, ConfFields
<1>4. CASE conf.type # "term"
  BY <1>4 DEF Penalty, Premature
<1>5. CASE conf.type = "term"
  <2>1. TermSeconds(k) \in Nat \ {0}
    <3>1. conf.days \in Nat \ {0}
      BY <1>1, <1>3, <1>5
    <3> QED
      BY <3>1, PositiveTimes, PosNumbers DEF TermSeconds
  <2>2. Remaining(k) \in Int
    BY <1>2, <2>1 DEF Remaining, PosInv, PosScalars
  <2>3. MulUp(max, Remaining(k), TermSeconds(k)) \in Int
    <3> DEFINE r == Remaining(k)  t == TermSeconds(k)
    <3>1. max \in Int /\ r \in Int /\ t \in Nat \ {0}
      BY <1>3, <2>1, <2>2
    <3> HIDE DEF max, r, t
    <3>2. MulUp(max, r, t) \in Int
      BY <3>1, MulUpInt
    <3> QED
      BY <3>2 DEF r, t
  <2>4. FineRate(k) \in Int
    BY <1>3, <2>3 DEF FineRate
  <2>5. MulUp(saves[k].deposit, FineRate(k), PctBoost) \in Int
    <3> DEFINE a == saves[k].deposit  b == FineRate(k)
    <3>1. a \in Int /\ b \in Int /\ PctBoost \in Nat \ {0}
      BY <1>2, <2>4, PosNumbers
    <3> HIDE DEF a, b
    <3>2. MulUp(a, b, PctBoost) \in Int
      BY <3>1, MulUpInt
    <3> QED
      BY <3>2 DEF a, b
  <2> QED
    BY <2>5 DEF Penalty
<1> QED
  BY <1>4, <1>5

\* Fine and redemption together are the deposit, and the MUSIC of the save is
\* back.
LEMMA WithdrawStep ==
  ASSUME PosInv, NEW signer, NEW k \in DOMAIN saves, Withdraw(signer, k)
  PROVE  PosInv'
<1> DEFINE s == saves[k]
           pid == s.plan
           old == plans[pid]
           d == s.deposit
           deposit == old.deposit - d
           plan == [old EXCEPT !.deposit = deposit]
<1>1. /\ pid \in DOMAIN plans /\ s.returned >= s.reward /\ old.deposit >= d
      /\ Penalty(k) + Redeemable(k) <= held[Principal]
      /\ plans' = [plans EXCEPT ![pid] = plan]
      /\ saves' = Drop(saves, k)
      /\ held' = [held EXCEPT ![Principal] = @ - (Penalty(k) + Redeemable(k))]
      /\ UNCHANGED <<posGlobal, now, orphaned>>
  BY DEF Withdraw, CanWithdraw, PlanCovers, Settled
<1>2. /\ IsSaves(saves) /\ IsPlans(plans) /\ held \in [Tokens -> Nat]
      /\ now \in Nat /\ orphaned \in [PlanIds -> Nat]
  BY DEF PosInv, PosScalars
<1>3. /\ s \in Save /\ s.returned <= s.reward
      /\ pid \in PlanIds /\ old \in Plan
      /\ old.interest > 0 => SymOf(old.conf.token) \in {SymOf(Principal), SymOf(CisumCoin)}
      /\ old.conf.type = "term" => old.conf.days > 0
  BY <1>1, <1>2 DEF IsSaves, IsPlans
<1>4. /\ d \in Nat /\ s.reward \in Nat /\ s.returned \in Nat /\ s.reward - s.returned = 0
      /\ old.deposit \in Nat
  BY <1>1, <1>3, SaveFields, PlanFields
<1>5. Penalty(k) + Redeemable(k) = d
  BY <1>1, <1>4, PenaltyInt DEF Redeemable
<1>6. deposit \in Nat
  BY <1>1, <1>4
<1> HIDE DEF deposit
<1>7. plan \in Plan /\ plan.conf = old.conf /\ plan.deposit = deposit
      /\ plan.interest = old.interest
  BY <1>3, <1>6 DEF Plan
<1> HIDE DEF plan
<1>8. /\ IsSaves(saves') /\ DepositsIn(saves') = DepositsIn(saves) - d
      /\ \A p \in PlanIds : DepositsFor(saves', p) =
           DepositsFor(saves, p) - (IF pid = p THEN d ELSE 0)
      /\ LoanIn(saves') = LoanIn(saves) - (s.reward - s.returned)
  BY <1>1, <1>2, SaveDropped
<1>9. IsPlans(plans') /\ KeptIn(plans') = KeptIn(plans) - KeptOf(old) + KeptOf(plan)
  <2>1. /\ plan.conf.type = "term" => plan.conf.days > 0
        /\ plan.interest > 0 => SymOf(plan.conf.token) \in {SymOf(Principal), SymOf(CisumCoin)}
    BY <1>3, <1>7
  <2>2. plans' = Put(plans, pid, plan)
    BY <1>1, <1>2, PlanRewritten
  <2>3. IsPlans(plans) /\ plan \in Plan /\ pid \in DOMAIN plans /\ pid \in PlanIds
    BY <1>1, <1>2, <1>3, <1>7
  <2> QED
    BY <2>1, <2>2, <2>3, PlanPut
<1>10. KeptOf(plan) = KeptOf(old) /\ KeptOf(old) \in Nat
  BY <1>3, <1>7, PlanFields DEF KeptOf
<1>11. /\ held' \in [Tokens -> Nat] /\ held'[Music] = held[Music]
       /\ held'[Principal] = held[Principal] - d
  <2>1. held[Principal] - d \in Nat
    BY <1>1, <1>2, <1>4, <1>5, PosNumbers
  <2> QED
    BY <2>1, <1>1, <1>2, <1>5, PosNumbers
<1>12. \A p \in PlanIds :
         DepositAt(plans', p) = DepositAt(plans, p) - (IF pid = p THEN d ELSE 0)
  <2>1. /\ DOMAIN plans' = DOMAIN plans /\ plans'[pid] = plan
        /\ \A p \in DOMAIN plans \ {pid} : plans'[p] = plans[p]
    BY <1>1, <1>2 DEF IsPlans
  <2>2. \A p \in DOMAIN plans : plans[p].deposit \in Nat
    BY <1>2, PlanFields DEF IsPlans
  <2> QED
    BY <2>1, <2>2, <1>1, <1>7 DEF DepositAt, deposit
<1>13. Covered(saves', plans', held')
  <2>1. DepositsIn(saves) \in Nat /\ held[Principal] \in Nat /\ KeptIn(plans) \in Nat
    BY <1>2, SumsOfSaves, SumOfPlans, PosNumbers
  <2>2. held[Principal] >= DepositsIn(saves) + KeptIn(plans)
    BY DEF PosInv, Covered
  <2>3. held'[Principal] >= DepositsIn(saves') + KeptIn(plans')
    BY <2>1, <2>2, <1>4, <1>8, <1>9, <1>10, <1>11
  <2> QED
    BY <2>3 DEF Covered
<1>14. Balanced(saves', music_treasury', held')
  <2>1. LoanIn(saves) \in Nat
    BY <1>2, SumsOfSaves
  <2>2. LoanIn(saves') = LoanIn(saves)
    BY <2>1, <1>4, <1>8
  <2> QED
    BY <2>2, <1>1, <1>11 DEF PosInv, Balanced, posGlobal
<1>15. Accounted(saves', plans', orphaned')
  <2>1. \A p \in PlanIds : DepositsFor(saves, p) = orphaned[p] + DepositAt(plans, p)
    BY DEF PosInv, Accounted
  <2>2. \A p \in PlanIds : DepositAt(plans, p) \in Nat /\ orphaned[p] \in Nat
    BY <1>2, PlanFields DEF DepositAt, IsPlans
  <2>3. orphaned' = orphaned
    BY <1>1
  <2> QED
    BY <2>1, <2>2, <2>3, <1>4, <1>8, <1>12 DEF Accounted
<1> QED
  BY <1>1, <1>8, <1>9, <1>11, <1>13, <1>14, <1>15 DEF PosInv, PosScalars, posGlobal

\* Every step keeps the invariant.
LEMMA PosStep ==
  ASSUME PosInv, [PosNext]_posVars
  PROVE  PosInv'
<1>1. CASE PosAdmin
  BY <1>1, PosInitStep, DelPlanStep, SetPlanStep DEF PosAdmin
<1>2. CASE Funding
  BY <1>2, PosRefuelStep, RefuelMusicStep DEF Funding
<1>3. CASE Staking
  BY <1>3, PosDepositStep, ReturnMusicStep, CollectIntStep, WithdrawStep DEF Staking
<1>4. CASE Tick
  BY <1>4 DEF Tick, PosInv, PosScalars, posGlobal
<1>5. CASE UNCHANGED posVars
  BY <1>5 DEF PosInv, PosScalars, posVars, posGlobal
<1> QED
  BY <1>1, <1>2, <1>3, <1>4, <1>5 DEF PosNext

\* And it holds after the first init.
LEMMA PosStart ==
  ASSUME NEW mini \in Nat, NEW music \in Nat, PosDeployed(mini, music)
  PROVE  PosInv
<1>1. /\ mini_deposit_amount = mini /\ last_save_id = 0 /\ music_treasury = music
      /\ plans = EmptyTable /\ saves = EmptyTable
      /\ held = [t \in Tokens |-> IF t = Music THEN music ELSE 0]
      /\ now = 0 /\ orphaned = [p \in PlanIds |-> 0]
  BY DEF PosDeployed
<1>2. DOMAIN saves = {} /\ DOMAIN plans = {}
  BY <1>1 DEF EmptyTable
<1>3. PosScalars
  BY <1>1 DEF PosScalars
<1>4. IsSaves(saves) /\ IsPlans(plans)
  BY <1>1, <1>2, FS_EmptySet DEF IsSaves, IsPlans, EmptyTable
<1>5. DepositsIn(saves) = 0 /\ LoanIn(saves) = 0 /\ KeptIn(plans) = 0
  BY <1>2, SumOfNone DEF DepositsIn, LoanIn, KeptIn
<1>6. \A p \in PlanIds : DepositsFor(saves, p) = 0
  BY <1>2, SumOfNone DEF DepositsFor
<1>7. held[Principal] = 0 /\ held[Music] = music
  BY <1>1, PosNumbers
<1> QED
  BY <1>1, <1>2, <1>3, <1>4, <1>5, <1>6, <1>7
  DEF PosInv, Covered, Balanced, Accounted, DepositAt

\* So it always holds.
LEMMA PosAlways == PosSpec => []PosInv
<1>1. (\E mini, music \in Nat : PosDeployed(mini, music)) => PosInv
  BY PosStart
<1>2. PosInv /\ [PosNext]_posVars => PosInv'
  BY PosStep
<1> QED
  BY <1>1, <1>2, PTL DEF PosSpec

\* What the invariant says in the terms of the checked properties.
LEMMA PosInvMeans == PosInv => BalancesCovered /\ DepositsAccounted /\ InterestWithinTerm
<1>1. PosInv => BalancesCovered
  BY DEF PosInv, Covered, Balanced, BalancesCovered, PrincipalCovered, MusicBalanced,
         DepositsIn, KeptIn, KeptOf, LoanIn, DepositsInAll, InterestKept, OnLoan
<1>2. PosInv => DepositsAccounted
  BY DEF PosInv, Accounted, DepositAt, DepositsFor, DepositsAccounted, DepositsOf
<1>3. PosInv => InterestWithinTerm
  BY DEF PosInv, IsSaves, InterestWithinTerm
<1> QED
  BY <1>1, <1>2, <1>3

\* For any savers, plans, rates and amounts: the balance in the principal token
\* covers every save and the interest kept in that token, and the MUSIC at hand
\* is the treasury less what savers have on loan, however plans were changed or
\* deleted.
THEOREM StakesAreCovered == PosSpec => []BalancesCovered
BY PosInvMeans, PosAlways, PTL

\* A plan accounts for the deposits of all its saves, less those that deleted
\* rows of the plan had counted: only delplan strands a save.
THEOREM PlansAccountForSaves == PosSpec => []DepositsAccounted
BY PosInvMeans, PosAlways, PTL

\* No save ever collects more interest than its term was worth when it was
\* opened, whatever setplan did since.
THEOREM InterestStaysWithinTerm == PosSpec => []InterestWithinTerm
BY PosInvMeans, PosAlways, PTL

\* What the invariant says of the types of the state.
LEMMA PosInvTypes == PosInv => PosTypeOK
BY DEF PosInv, PosScalars, IsSaves, IsPlans, PosTypeOK

\* The state of pos.cisum has its types: no balance, no interest and no deposit
\* is ever negative.
THEOREM PosTypes == PosSpec => []PosTypeOK
BY PosInvTypes, PosAlways, PTL
=============================================================================
