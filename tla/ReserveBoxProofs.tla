-------------------------- MODULE ReserveBoxProofs --------------------------
(***************************************************************************)
(* Proofs about cisumreserve and blindboxgame.  The reserve: an order is   *)
(* rounded in its favour, and the orders tell what came in and went out.   *)
(* The booths: what a booth counts, what its map of boxes says and what    *)
(* the NFT ledger keeps move together.  Last, the five contracts that hold *)
(* deposits as MCFunds runs them, from its scenes of points at hand.       *)
(***************************************************************************)
EXTENDS MCFunds, FundsProofs, SumTheorems, SequenceTheorems

-----------------------------------------------------------------------------
(***************************************************************************)
(* cisumreserve.                                                           *)
(***************************************************************************)

\* Facts of arithmetic the solver does not instantiate by itself.
LEMMA DivBounds ==
  \A a \in Nat, b \in Nat \ {0} :
    a \div b \in Nat /\ (a \div b) * b <= a /\ a < (a \div b) * b + b
OBVIOUS
\* Products stay in their domains.
LEMMA TimesNat == \A a, b \in Nat : a * b \in Nat
OBVIOUS
\* Products of integers are integers.
LEMMA TimesInt == \A a, b \in Int : a * b \in Int
OBVIOUS
\* A factor that is not negative keeps the order,
LEMMA TimesMonotone == \A a, b \in Int, c \in Nat : a <= b => a * c <= b * c
OBVIOUS
\* and a positive one keeps it strict.
LEMMA TimesStrict == \A a, b \in Int, c \in Nat \ {0} : a < b => a * c < b * c
OBVIOUS
\* Factors change places.
LEMMA TimesSwap == \A a, b, c \in Int : (a * b) * c = (a * c) * b
OBVIOUS
\* Products distribute over differences.
LEMMA TimesMinus == \A a, b, c \in Int : (a - b) * c = a * c - b * c /\ c * (a - b) = c * a - c * b
OBVIOUS

\* The rounding of one order.
LEMMA FairOrder ==
  ASSUME NEW u \in Nat \ {0}, NEW p \in Nat \ {0}, NEW fee \in 0..Bps,
         NEW gross, gross = Exchanged(u, p),
         NEW out, out = gross - (gross * fee) \div Bps
  PROVE  /\ out \in Int
         /\ out * p <= u * SingUnits
         /\ (out - 1) * Bps * p < u * SingUnits * (Bps - fee)
<1> DEFINE paid == u * SingUnits
           cut == (gross * fee) \div Bps
           rest == Bps - fee
<1>1. SingUnits \in Nat \ {0} /\ Bps \in Nat \ {0} /\ fee \in Nat /\ fee <= Bps
  BY ReserveAssumption DEF ReserveAssumption
<1>2. paid \in Nat
  BY <1>1, TimesNat
<1>3. gross = paid \div p
  BY DEF Exchanged
<1> HIDE DEF paid
<1>4. gross \in Nat /\ gross * p <= paid
  BY <1>2, <1>3, DivBounds
<1>5. gross * fee \in Nat
  BY <1>1, <1>4, TimesNat
<1>6. cut \in Nat /\ gross * fee < cut * Bps + Bps
  BY <1>1, <1>5, DivBounds
<1> HIDE DEF cut
<1>7. out = gross - cut /\ out \in Int /\ out <= gross
  BY <1>4, <1>6 DEF cut
<1>8. out * p <= paid
  <2>1. out * p <= gross * p
    BY <1>4, <1>7, TimesMonotone
  <2>2. out * p \in Int /\ gross * p \in Int
    BY <1>4, <1>7, TimesInt
  <2> QED
    BY <2>1, <2>2, <1>2, <1>4
<1>9. (out - 1) * Bps * p < paid * rest
  <2>1. (out - 1) * Bps = gross * Bps - cut * Bps - Bps
    <3>1. (out - 1) * Bps = out * Bps - 1 * Bps
      BY <1>1, <1>7, TimesMinus
    <3>2. out * Bps = gross * Bps - cut * Bps
      BY <1>1, <1>4, <1>6, <1>7, TimesMinus
    <3>3. 1 * Bps = Bps
      BY <1>1
    <3> QED
      BY <3>1, <3>2, <3>3
  <2>2. gross * rest = gross * Bps - gross * fee
    BY <1>1, <1>4, TimesMinus
  <2>3. rest \in Nat
    BY <1>1
  <2> HIDE DEF rest
  <2>4. gross * Bps \in Int /\ cut * Bps \in Int /\ gross * fee \in Int
        /\ (out - 1) * Bps \in Int /\ gross * rest \in Int
    <3>1. out - 1 \in Int
      BY <1>7
    <3> QED
      BY <3>1, <1>1, <1>4, <1>6, <2>3, TimesInt
  <2>5. (out - 1) * Bps < gross * rest
    BY <2>1, <2>2, <2>4, <1>1, <1>6
  <2> DEFINE a == (out - 1) * Bps
             b == gross * rest
  <2>6. a \in Int /\ b \in Int /\ a < b
    BY <2>4, <2>5
  <2>7. b * p = (gross * p) * rest
    BY <1>4, <2>3, TimesSwap
  <2> HIDE DEF a, b
  <2>8. a * p < b * p /\ a * p \in Int /\ b * p \in Int
    BY <2>6, TimesStrict, TimesInt
  <2>9. gross * p \in Int
    BY <1>4, TimesInt
  <2>10. (gross * p) * rest <= paid * rest /\ paid * rest \in Int
    BY <1>2, <1>4, <2>3, <2>9, TimesMonotone, TimesInt
  <2>11. a * p < paid * rest
    BY <2>7, <2>8, <2>10
  <2> QED
    BY <2>11 DEF a
<1> QED
  BY <1>7, <1>8, <1>9 DEF paid

\* The inductive invariant of the reserve.
ReserveInv ==
  /\ ReserveTypeOK /\ IsFiniteSet(DOMAIN orders)
  /\ OrdersAccount /\ FairOrders

\* A reserve without orders accounts for nothing.
LEMMA ReserveStart == ReserveInit => ReserveInv
<1> SUFFICES ASSUME ReserveInit PROVE ReserveInv
  OBVIOUS
<1>1. DOMAIN orders = {} /\ IsFiniteSet(DOMAIN orders)
  BY FS_EmptySet DEF ReserveInit, EmptyTable
<1>2. ReserveTypeOK
  BY <1>1, ReserveAssumption DEF ReserveInit, ReserveTypeOK, ReserveAssumption, EmptyTable
<1>3. OrdersAccount
  <2>1. /\ SumFunction([i \in DOMAIN orders |-> orders[i].usdt_in]) = 0
        /\ SumFunction([i \in DOMAIN orders |-> orders[i].token_out]) = 0
    BY <1>1, SumOfNone
  <2> QED
    BY <2>1, ReserveAssumption DEF ReserveInit, OrdersAccount, ReserveAssumption
<1> QED
  BY <1>1, <1>2, <1>3 DEF ReserveInv, FairOrders

\* An order adds to both sums what it adds to the reserves.
LEMMA OrderStep ==
  ASSUME ReserveInv, NEW u \in Usdts, NEW p \in SwapPrices, OnUsdtTransfer(u, p)
  PROVE  ReserveInv'
<1> DEFINE id == last_order_id + 1
           out == TokenOut(u, p)
           row == [usdt_in |-> u, token_out |-> out, price |-> p, fee_bps |-> fee_bps]
           D == DOMAIN orders
<1>1. /\ id <= MaxOrders /\ id \notin D
      /\ out > 0 /\ out <= reserves.sing /\ last_order_id' = id
      /\ orders' = Put(orders, id, row)
      /\ reserves' = [usdt |-> reserves.usdt + u, sing |-> reserves.sing - out]
      /\ UNCHANGED <<reserve_admin, fee_bps>>
  BY DEF OnUsdtTransfer
<1>2. /\ u \in Nat \ {0} /\ p \in Nat \ {0} /\ fee_bps \in 0..Bps /\ Bps \in Nat
      /\ last_order_id \in Nat /\ IsFiniteSet(D) /\ Stocked \in Nat
      /\ reserves.usdt \in Nat /\ reserves.sing \in Nat
      /\ \A i \in D : orders[i] \in Order
  BY ReserveAssumption DEF ReserveInv, ReserveTypeOK, ReserveAssumption
<1>3. /\ out \in Int /\ out * p <= u * SingUnits
      /\ (out - 1) * Bps * p < u * SingUnits * (Bps - fee_bps)
  BY <1>2, FairOrder DEF TokenOut
<1> HIDE DEF out, id, D
<1>4. row \in Order
  BY <1>1, <1>2, <1>3 DEF Order
<1>5. /\ DOMAIN orders' = D \cup {id} /\ orders'[id] = row
      /\ \A i \in D : orders'[i] = orders[i]
  BY <1>1 DEF Put, D
<1>6. IsFiniteSet(DOMAIN orders')
  BY <1>2, <1>5, FS_AddElement
<1>7. \A i \in DOMAIN orders' : orders'[i] \in Order
  BY <1>2, <1>4, <1>5
<1>8. ReserveTypeOK'
  <2>1. id \in Nat /\ id \in 1..MaxOrders
    BY <1>1, <1>2 DEF id
  <2>2. DOMAIN orders' \subseteq 1..MaxOrders
    BY <1>5, <2>1 DEF ReserveInv, ReserveTypeOK, D
  <2>3. orders' \in [DOMAIN orders' -> Order]
    BY <1>1, <1>7 DEF Put
  <2>4. reserves' \in [usdt : Nat, sing : Nat]
    BY <1>1, <1>2, <1>3
  <2> QED
    BY <1>1, <2>1, <2>2, <2>3, <2>4 DEF ReserveInv, ReserveTypeOK
<1>9. OrdersAccount'
  <2> DEFINE f == [i \in D |-> orders[i].usdt_in]
             g == [i \in D \cup {id} |-> orders'[i].usdt_in]
             h == [i \in D |-> orders[i].token_out]
             j == [i \in D \cup {id} |-> orders'[i].token_out]
             E == D \cup {id}
  <2>1. \A o \in Order : o.usdt_in \in Nat /\ o.token_out \in Nat
    BY ReserveAssumption DEF Order, ReserveAssumption
  <2>2. f \in [D -> Int] /\ h \in [D -> Int]
    BY <1>2, <2>1
  <2>3. g \in [E -> Int] /\ j \in [E -> Int] /\ g[id] = u /\ j[id] = out
    BY <1>5, <1>7, <2>1
  <2>4. \A i \in D : g[i] = f[i] /\ j[i] = h[i]
    BY <1>5
  <2>5. E = D \cup {id} /\ id \notin D /\ IsFiniteSet(D)
    BY <1>1, <1>2
  <2>6. /\ reserves.usdt = SumFunction(f) /\ Stocked - reserves.sing = SumFunction(h)
    BY DEF ReserveInv, OrdersAccount, D
  <2>10. /\ SumFunction([i \in DOMAIN orders' |-> orders'[i].usdt_in]) = SumFunction(g)
         /\ SumFunction([i \in DOMAIN orders' |-> orders'[i].token_out]) = SumFunction(j)
    BY <1>5
  <2> HIDE DEF f, g, h, j, E
  <2>7. SumFunction(g) = SumFunction(f) + g[id]
    BY <2>2, <2>3, <2>4, <2>5, SumGrows
  <2>8. SumFunction(j) = SumFunction(h) + j[id]
    BY <2>2, <2>3, <2>4, <2>5, SumGrows
  <2>9. reserves'.usdt = SumFunction(g) /\ Stocked - reserves'.sing = SumFunction(j)
    BY <2>3, <2>6, <2>7, <2>8, <1>1, <1>2, <1>3
  <2> QED
    BY <2>9, <2>10 DEF OrdersAccount
<1>10. FairOrders'
  <2>1. \A i \in D : LET o == orders'[i]
                     IN  /\ o.token_out * o.price <= o.usdt_in * SingUnits
                         /\ (o.token_out - 1) * Bps * o.price
                              < o.usdt_in * SingUnits * (Bps - o.fee_bps)
    BY <1>5 DEF ReserveInv, FairOrders, D
  <2>2. /\ row.token_out * row.price <= row.usdt_in * SingUnits
        /\ (row.token_out - 1) * Bps * row.price
             < row.usdt_in * SingUnits * (Bps - row.fee_bps)
    BY <1>3
  <2> HIDE DEF row
  <2> QED
    BY <1>5, <2>1, <2>2 DEF FairOrders
<1> QED
  BY <1>6, <1>8, <1>9, <1>10 DEF ReserveInv

\* Settings leave orders and reserves alone; on_usdt_transfer is OrderStep.
LEMMA ReserveStep == ReserveInv /\ [ReserveNext]_reserveVars => ReserveInv'
<1> SUFFICES ASSUME ReserveInv, [ReserveNext]_reserveVars PROVE ReserveInv'
  OBVIOUS
<1>1. \A f \in Fees : f \in Nat
  BY ReserveAssumption DEF ReserveAssumption
<1>2. ASSUME NEW a \in ReserveAdmins, NEW f \in Fees, InitReserve(a, f) PROVE ReserveInv'
  BY <1>1, <1>2, ReserveAssumption
  DEF InitReserve, FeeInRange, ReserveInv, ReserveTypeOK, OrdersAccount, FairOrders, ReserveAssumption
<1>3. ASSUME NEW a \in ReserveAdmins, NEW f \in Fees, SetFee(a, f) PROVE ReserveInv'
  BY <1>1, <1>3, ReserveAssumption
  DEF SetFee, FeeInRange, ReserveInv, ReserveTypeOK, OrdersAccount, FairOrders, ReserveAssumption
<1>4. ASSUME NEW s, NEW a \in ReserveAdmins, SetReserveAdmin(s, a) PROVE ReserveInv'
  BY <1>4 DEF SetReserveAdmin, ReserveInv, ReserveTypeOK, OrdersAccount, FairOrders
<1>5. CASE UNCHANGED reserveVars
  BY <1>5 DEF reserveVars, ReserveInv, ReserveTypeOK, OrdersAccount, FairOrders
<1> QED
  BY <1>2, <1>3, <1>4, <1>5, OrderStep DEF ReserveNext

\* For any prices, fees and payments: the orders account for all USDT that came
\* in and all SING that went out (on_usdt_transfer), and none is worth more than
\* was paid for it, nor less than that by the fee and one unit.
THEOREM ReserveKeepsAccounts == ReserveSpec => []ReserveAccounts
<1>1. ReserveInv => ReserveAccounts
  BY DEF ReserveInv, ReserveAccounts
<1> QED
  BY <1>1, ReserveStart, ReserveStep, PTL DEF ReserveSpec

\* The tables of cisumreserve stay well formed under every action: the fee in
\* its range, the orders with amounts that are counts.
THEOREM ReserveTypes == ReserveSpec => []ReserveTypeOK
<1>1. ReserveInv => ReserveTypeOK
  BY DEF ReserveInv
<1> QED
  BY <1>1, ReserveStart, ReserveStep, PTL DEF ReserveSpec

-----------------------------------------------------------------------------
(***************************************************************************)
(* blindboxgame: the draws.                                                *)
(***************************************************************************)

\* Finite sets of numbers have a least and a greatest element.
LEMMA Extremes ==
  ASSUME NEW S \in SUBSET Int, IsFiniteSet(S), S # {}
  PROVE  /\ \E m \in S : \A x \in S : m <= x
         /\ \E m \in S : \A x \in S : x <= m
<1> DEFINE Has(T) == /\ \E m \in T : \A x \in T : m <= x
                     /\ \E m \in T : \A x \in T : x <= m
           Q == {T \in SUBSET S : T # {} => Has(T)}
<1>1. ASSUME NEW T \in SUBSET S, \A U \in SUBSET T : U # T => U \in Q
      PROVE  T \in Q
  <2>1. SUFFICES ASSUME T # {} PROVE Has(T)
    OBVIOUS
  <2>2. PICK y \in T : TRUE
    BY <2>1
  <2> DEFINE U == T \ {y}
  <2>3. U \in Q
    BY <1>1, <2>2
  <2>4. y \in Int /\ \A x \in T : x \in Int
    OBVIOUS
  <2>5. CASE U = {}
    <3>1. T = {y}
      BY <2>2, <2>5
    <3> QED
      BY <2>4, <3>1
  <2>6. CASE U # {}
    <3>1. Has(U)
      BY <2>3, <2>6
    <3>2. PICK m \in U : \A x \in U : m <= x
      BY <3>1
    <3>3. PICK n \in U : \A x \in U : x <= n
      BY <3>1
    <3>4. m \in Int /\ n \in Int /\ T = U \cup {y}
      BY <2>2, <2>4
    <3>5. \E z \in T : \A x \in T : z <= x
      <4>1. CASE m <= y
        BY <3>2, <3>4, <4>1
      <4>2. CASE y < m
        BY <2>2, <2>4, <3>2, <3>4, <4>2
      <4> QED
        BY <2>4, <3>4, <4>1, <4>2
    <3>6. \E z \in T : \A x \in T : x <= z
      <4>1. CASE y <= n
        BY <3>3, <3>4, <4>1
      <4>2. CASE n < y
        BY <2>2, <2>4, <3>3, <3>4, <4>2
      <4> QED
        BY <2>4, <3>4, <4>1, <4>2
    <3> QED
      BY <3>5, <3>6
  <2> QED
    BY <2>5, <2>6
<1> HIDE DEF Q
<1>2. S \in Q
  BY <1>1, SetInduction
<1> QED
  BY <1>2 DEF Q

\* The boxes of a booth.
IsContent(c) ==
  IsFiniteSet(DOMAIN c) /\ DOMAIN c \subseteq Kinds /\ c \in [DOMAIN c -> Nat]

\* A booth never draws from a negative number of NFTs.
LEMMA AmountIsNat == \A c : IsContent(c) => AmountOf(c) \in Nat
BY SumIsNat DEF IsContent, AmountOf

\* A draw falls into a box that is not empty.
LEMMA DrawHits ==
  ASSUME NEW c, IsContent(c), NEW r \in Nat \ {0}, Reached(c, r) # {}
  PROVE  BoxOf(c, r) \in DOMAIN c /\ c[BoxOf(c, r)] \in Nat \ {0}
<1> DEFINE D == DOMAIN c
           k == BoxOf(c, r)
           T == {j \in D : j <= k}
           U == T \ {k}
<1>1. IsFiniteSet(D) /\ D \in SUBSET Int /\ \A j \in D : c[j] \in Nat
  BY BoxAssumption DEF IsContent, BoxAssumption
<1>2. k \in Reached(c, r) /\ \A j \in Reached(c, r) : k <= j
  <2>1. IsFiniteSet(Reached(c, r)) /\ Reached(c, r) \in SUBSET Int
    BY <1>1, FS_Subset DEF Reached
  <2>2. \E m \in Reached(c, r) : \A x \in Reached(c, r) : m <= x
    BY <2>1, Extremes
  <2> QED
    BY <2>2 DEF BoxOf, Min
<1>3. k \in D /\ r <= SumFunctionOnSet(c, T)
  BY <1>2 DEF Reached, UpTo
<1> HIDE DEF k
<1>4. IsFiniteSet(T) /\ k \in T /\ IsFiniteSet(U)
  <2>1. T \in SUBSET D /\ U \in SUBSET D
    OBVIOUS
  <2> QED
    BY <1>1, <1>3, <2>1, FS_Subset
<1>5. SUFFICES ASSUME c[k] = 0 PROVE FALSE
  BY <1>1, <1>3 DEF k
<1>6. SumFunctionOnSet(c, T) = c[k] + SumFunctionOnSet(c, U)
  <2>1. \A y \in T : c[y] \in Int
    BY <1>1
  <2> QED
    BY <1>4, <2>1, SumOnSplit
<1>7. SumFunctionOnSet(c, U) \in Int
  <2>1. \A y \in U : c[y] \in Int
    BY <1>1
  <2> QED
    BY <1>4, <2>1, SumOnIsInt
<1>8. r <= SumFunctionOnSet(c, U)
  BY <1>3, <1>5, <1>6, <1>7
<1>9. U # {}
  BY <1>8, SumOfNothing
<1>10. PICK m \in U : \A x \in U : x <= m
  BY <1>1, <1>4, <1>9, Extremes
<1>11. {j \in D : j <= m} = U
  BY <1>1, <1>3, <1>10
<1>12. m \in Reached(c, r)
  BY <1>8, <1>10, <1>11 DEF Reached, UpTo
<1>13. m < k
  BY <1>1, <1>3, <1>10
<1> QED
  BY <1>1, <1>2, <1>3, <1>10, <1>12, <1>13

\* What a draw leaves.
LEMMA OneLessLeft ==
  ASSUME NEW c, IsContent(c), NEW k \in DOMAIN c, c[k] \in Nat \ {0}
  PROVE  /\ IsContent(OneLess(c, k)) /\ DOMAIN OneLess(c, k) \subseteq DOMAIN c
         /\ AmountOf(OneLess(c, k)) = AmountOf(c) - 1
<1> DEFINE D == DOMAIN c
           d == OneLess(c, k)
<1>1. IsFiniteSet(D) /\ D \subseteq Kinds /\ c \in [D -> Nat] /\ c \in [D -> Int]
  BY DEF IsContent
<1>2. CASE c[k] = 1
  <2>1. d = [j \in D \ {k} |-> c[j]]
    BY <1>2 DEF OneLess, Drop
  <2>2. /\ IsFiniteSet(D \ {k}) /\ d \in [D \ {k} -> Int] /\ d \in [D \ {k} -> Nat]
        /\ DOMAIN d = D \ {k} /\ \A y \in D \ {k} : d[y] = c[y]
    BY <1>1, <2>1, FS_RemoveElement
  <2> HIDE DEF d
  <2>3. SumFunction(d) = SumFunction(c) - c[k]
    BY <1>1, <2>2, SumDropKey
  <2> QED
    BY <1>1, <1>2, <2>2, <2>3 DEF IsContent, AmountOf, d
<1>3. CASE c[k] # 1
  <2>1. d = [c EXCEPT ![k] = @ - 1]
    BY <1>3 DEF OneLess
  <2>2. /\ d \in [D -> Nat] /\ d \in [D -> Int] /\ d[k] = c[k] + (0 - 1)
        /\ \A y \in D \ {k} : d[y] = c[y]
    BY <1>1, <2>1
  <2> HIDE DEF d
  <2>3. SumFunction(d) = SumFunction(c) + (0 - 1)
    <3>1. 0 - 1 \in Int
      OBVIOUS
    <3> QED
      BY <1>1, <2>2, <3>1, SumMoves
  <2>4. SumFunction(c) \in Int
    BY <1>1, SumIsInt
  <2> QED
    BY <1>1, <2>2, <2>3, <2>4 DEF IsContent, AmountOf, d
<1> QED
  BY <1>2, <1>3

\* The boxes after each draw.
LEMMA AfterDef ==
  ASSUME NEW content, NEW draws, Len(draws) \in Nat
  PROVE  /\ After(content, draws)[0] = content
         /\ \A i \in 1..Len(draws) :
              After(content, draws)[i] =
                OneLess(After(content, draws)[i - 1],
                        BoxOf(After(content, draws)[i - 1], draws[i]))
<1> DEFINE Is(n, h) ==
             h = [i \in 0..n |-> IF i = 0 THEN content
                                  ELSE OneLess(h[i - 1], BoxOf(h[i - 1], draws[i]))]
           Q == {n \in Nat : \E h : Is(n, h)}
           N == Len(draws)
<1>1. 0 \in Q
  <2> DEFINE h == [i \in 0..0 |-> content]
  <2>1. Is(0, h)
    OBVIOUS
  <2> QED
    BY <2>1
<1>2. ASSUME NEW n \in Nat, n \in Q PROVE n + 1 \in Q
  <2>1. PICK h : Is(n, h)
    BY <1>2
  <2> DEFINE g == [i \in 0..(n + 1) |->
                     IF i <= n THEN h[i] ELSE OneLess(h[n], BoxOf(h[n], draws[n + 1]))]
  <2>2. \A i \in 0..n : h[i] = IF i = 0 THEN content
                               ELSE OneLess(h[i - 1], BoxOf(h[i - 1], draws[i]))
    BY <2>1
  <2>3. ASSUME NEW i \in 0..(n + 1)
        PROVE  g[i] = IF i = 0 THEN content ELSE OneLess(g[i - 1], BoxOf(g[i - 1], draws[i]))
    <3>1. CASE i = 0
      BY <2>2, <3>1
    <3>2. CASE i # 0 /\ i <= n
      <4>1. i \in 0..n /\ i - 1 \in 0..n /\ i - 1 \in 0..(n + 1) /\ i - 1 <= n
        BY <3>2
      <4>2. g[i] = h[i] /\ g[i - 1] = h[i - 1]
        BY <3>2, <4>1
      <4> QED
        BY <2>2, <3>2, <4>1, <4>2
    <3>3. CASE i = n + 1
      <4>1. n \in 0..(n + 1) /\ i - 1 = n /\ ~ (i <= n) /\ i # 0
        BY <3>3
      <4>2. g[n] = h[n]
        BY <4>1
      <4> QED
        BY <3>3, <4>1, <4>2
    <3> QED
      BY <3>1, <3>2, <3>3
  <2>4. Is(n + 1, g)
    <3> DEFINE f == [i \in 0..(n + 1) |-> IF i = 0 THEN content
                                  ELSE OneLess(g[i - 1], BoxOf(g[i - 1], draws[i]))]
    <3>1. DOMAIN g = 0..(n + 1) /\ DOMAIN f = 0..(n + 1) /\ \A i \in 0..(n + 1) : g[i] = f[i]
      BY <2>3
    <3>2. g = [i \in 0..(n + 1) |-> g[i]] /\ f = [i \in 0..(n + 1) |-> f[i]]
      OBVIOUS
    <3> HIDE DEF f, g
    <3>3. g = f
      BY <3>1, <3>2
    <3> QED
      BY <3>3 DEF f
  <2> HIDE DEF g, Is
  <2> QED
    BY <2>4
<1> HIDE DEF Q
<1>3. Nat \subseteq Q
  BY <1>1, <1>2, NaturalInduction
<1>4. \E h : Is(N, h)
  BY <1>3 DEF Q
<1> DEFINE a == CHOOSE h : Is(N, h)
<1>5. Is(N, a)
  BY <1>4
<1>6. After(content, draws) = a
  BY DEF After
<1> HIDE DEF a
<1>7. \A i \in 0..N : a[i] = IF i = 0 THEN content
                             ELSE OneLess(a[i - 1], BoxOf(a[i - 1], draws[i]))
  BY <1>5
<1>8. a[0] = content /\ \A i \in 1..N : a[i] = OneLess(a[i - 1], BoxOf(a[i - 1], draws[i]))
  BY <1>7
<1> QED
  BY <1>6, <1>8

\* Draws within the boxes take one NFT each.
LEMMA DrawsTake ==
  ASSUME NEW c, IsContent(c), NEW draws, Len(draws) \in Nat, DOMAIN draws = 1..Len(draws),
         \A i \in DOMAIN draws : draws[i] \in Nat \ {0}, InRange(c, draws)
  PROVE  LET left == After(c, draws)[Len(draws)]
         IN  /\ IsContent(left) /\ DOMAIN left \subseteq DOMAIN c
             /\ AmountOf(left) = AmountOf(c) - Len(draws)
<1> DEFINE N == Len(draws)
           a == After(c, draws)
           Good(i) == /\ IsContent(a[i]) /\ DOMAIN a[i] \subseteq DOMAIN c
                      /\ AmountOf(a[i]) = AmountOf(c) - i
           Q == {i \in Nat : i <= N => Good(i)}
<1>1. a[0] = c /\ \A i \in 1..N : a[i] = OneLess(a[i - 1], BoxOf(a[i - 1], draws[i]))
  BY AfterDef
<1>2. \A i \in 1..N : Reached(a[i - 1], draws[i]) # {}
  BY DEF InRange
<1> HIDE DEF a
<1>3. AmountOf(c) \in Nat
  BY AmountIsNat
<1>4. 0 \in Q
  BY <1>1, <1>3
<1>5. ASSUME NEW n \in Nat, n \in Q PROVE n + 1 \in Q
  <2>1. SUFFICES ASSUME n + 1 <= N PROVE Good(n + 1)
    OBVIOUS
  <2>2. IsContent(a[n]) /\ DOMAIN a[n] \subseteq DOMAIN c /\ AmountOf(a[n]) = AmountOf(c) - n
    BY <1>5, <2>1
  <2>3. n + 1 \in 1..N /\ (n + 1) - 1 = n
    BY <2>1
  <2> DEFINE r == draws[n + 1]
             k == BoxOf(a[n], r)
  <2>4. r \in Nat \ {0} /\ Reached(a[n], r) # {} /\ a[n + 1] = OneLess(a[n], k)
    BY <1>1, <1>2, <2>3
  <2>5. k \in DOMAIN a[n] /\ a[n][k] \in Nat \ {0}
    BY <2>2, <2>4, DrawHits
  <2> HIDE DEF k, r
  <2>6. /\ IsContent(OneLess(a[n], k)) /\ DOMAIN OneLess(a[n], k) \subseteq DOMAIN a[n]
        /\ AmountOf(OneLess(a[n], k)) = AmountOf(a[n]) - 1
    BY <2>2, <2>5, OneLessLeft
  <2> QED
    BY <1>3, <2>2, <2>4, <2>6
<1> HIDE DEF Q
<1>6. N \in Q
  BY <1>4, <1>5, NaturalInduction
<1> QED
  BY <1>6 DEF Q, a

-----------------------------------------------------------------------------
(***************************************************************************)
(* blindboxgame: the boxes of one booth and of all.                        *)
(***************************************************************************)

\* The amount of one kind, 0 where there is no box of it.
AtKind(c, k) == IF k \in DOMAIN c THEN c[k] ELSE 0

\* What a batch brings of each kind.
LEMMA Sent ==
  ASSUME NEW batch \in Batches
  PROVE  /\ KindsOf(batch) \subseteq Kinds /\ IsFiniteSet(KindsOf(batch))
         /\ \A k : SentOf(batch, k) \in Nat
         /\ \A k : k \notin KindsOf(batch) => SentOf(batch, k) = 0
<1> DEFINE I == DOMAIN batch
           Row == [kind : Kinds, amount : Nat \ {0}]
<1>1. batch \in Seq(Row)
  BY BoxAssumption DEF BoxAssumption
<1> HIDE DEF Row
<1>2. PICK n \in Nat : batch \in [1..n -> Row]
  BY <1>1, SeqDef
<1>3. IsFiniteSet(I) /\ I = 1..n /\ \A i \in I : batch[i] \in Row
  BY <1>2, FS_Interval
<1>4. \A i \in I : batch[i].kind \in Kinds /\ batch[i].amount \in Nat
  BY <1>3 DEF Row
<1>5. KindsOf(batch) \subseteq Kinds
  BY <1>4 DEF KindsOf
<1>6. IsFiniteSet(KindsOf(batch))
  <2> DEFINE f == [i \in I |-> batch[i].kind]
  <2>1. f \in Surjection(I, KindsOf(batch))
    BY DEF Surjection, KindsOf
  <2> QED
    BY <1>3, <2>1, FS_Surjection
<1>7. ASSUME NEW k
      PROVE  /\ SentOf(batch, k) \in Nat
             /\ k \notin KindsOf(batch) => SentOf(batch, k) = 0
  <2> DEFINE f == [i \in I |-> IF batch[i].kind = k THEN batch[i].amount ELSE 0]
  <2>1. f \in [I -> Nat] /\ f \in [I -> Int]
    BY <1>4
  <2>2. k \notin KindsOf(batch) => \A i \in I : f[i] = 0
    BY DEF KindsOf
  <2>3. SentOf(batch, k) = SumFunction(f)
    BY DEF SentOf
  <2> HIDE DEF f, I
  <2>4. SumFunction(f) \in Nat
    BY <1>3, <2>1, SumIsNat
  <2>5. k \notin KindsOf(batch) => SumFunction(f) = 0
    BY <1>3, <2>1, <2>2, SumOfZeros
  <2> QED
    BY <2>3, <2>4, <2>5
<1> QED
  BY <1>5, <1>6, <1>7

\* A batch adds to a booth what it brings, in NFTs and in kinds.
LEMMA FilledUp ==
  ASSUME NEW c, IsContent(c), NEW batch \in Batches
  PROVE  LET new == Filled(c, batch)
             added == SumFunction([k \in KindsOf(batch) |-> SentOf(batch, k)])
         IN  /\ IsContent(new) /\ added \in Nat /\ AmountOf(new) = AmountOf(c) + added
             /\ Cardinality(DOMAIN new) =
                  Cardinality(DOMAIN c) + Cardinality(KindsOf(batch) \ DOMAIN c)
             /\ \A k : AtKind(new, k) = AtKind(c, k) + SentOf(batch, k)
<1> DEFINE D == DOMAIN c
           K == KindsOf(batch)
           E == D \cup K
           new == Filled(c, batch)
           f == [k \in K |-> SentOf(batch, k)]
           s == [k \in E |-> SentOf(batch, k)]
           o == [k \in E |-> AtKind(c, k)]
<1>1. IsFiniteSet(D) /\ D \subseteq Kinds /\ c \in [D -> Nat] /\ c \in [D -> Int]
  BY DEF IsContent
<1>2. IsFiniteSet(K) /\ K \subseteq Kinds
  BY Sent
<1>3. IsFiniteSet(E) /\ Cardinality(E) = Cardinality(D) + Cardinality(K \ D)
  <2>1. IsFiniteSet(K \ D) /\ E = D \cup (K \ D) /\ D \cap (K \ D) = {}
    BY <1>2, FS_Difference
  <2>2. Cardinality(D) \in Nat /\ Cardinality(K \ D) \in Nat /\ Cardinality({}) = 0
    BY <1>1, <2>1, FS_CardinalityType, FS_EmptySet
  <2> DEFINE W == D \cap (K \ D)
             U == D \cup (K \ D)
  <2>4. Cardinality(W) = 0
    BY <2>1, <2>2
  <2> HIDE DEF D, K
  <2>3. IsFiniteSet(U) /\ Cardinality(U) = Cardinality(D) + Cardinality(K \ D) - Cardinality(W)
    BY <1>1, <2>1, FS_Union
  <2> HIDE DEF U, W, E
  <2>5. E = U
    BY <2>1 DEF U
  <2> QED
    BY <2>2, <2>3, <2>4, <2>5
<1>4. /\ DOMAIN new = E /\ new = [k \in E |-> o[k] + s[k]]
      /\ o \in [E -> Int] /\ s \in [E -> Int] /\ f \in [K -> Nat] /\ f \in [K -> Int]
      /\ \A k \in E : o[k] \in Nat /\ s[k] \in Nat
  <2>1. \A k \in E : AtKind(c, k) \in Nat /\ SentOf(batch, k) \in Nat
    BY <1>1, Sent DEF AtKind
  <2> QED
    BY <2>1 DEF Filled, AtKind
<1>5. ASSUME NEW k PROVE AtKind(new, k) = AtKind(c, k) + SentOf(batch, k)
  <2>1. CASE k \in E
    BY <2>1, <1>4 DEF AtKind
  <2>2. CASE k \notin E
    BY <2>2, <1>4, Sent DEF AtKind
  <2> QED
    BY <2>1, <2>2
<1>6. IsContent(new)
  <2>1. new \in [E -> Nat]
    BY <1>4
  <2> QED
    BY <1>1, <1>2, <1>3, <1>4, <2>1 DEF IsContent
<1>7. /\ K \in SUBSET E /\ D \in SUBSET E
      /\ \A k \in K : f[k] = s[k]
      /\ \A k \in E \ K : s[k] = 0
      /\ \A k \in D : c[k] = o[k]
      /\ \A k \in E \ D : o[k] = 0
  BY Sent DEF AtKind
<1>8. new \in [E -> Int] /\ \A k \in E : new[k] = o[k] + s[k]
  BY <1>4
<1> HIDE DEF f, s, o, new, E, K, D
<1>9. SumFunction(new) = SumFunction(o) + SumFunction(s)
  BY <1>3, <1>4, <1>8, SumPlus
<1>10. SumFunction(f) = SumFunction(s)
  <2>1. /\ IsFiniteSet(E) /\ K \in SUBSET E /\ s \in [E -> Int] /\ f \in [K -> Int]
        /\ (\A k \in K : f[k] = s[k]) /\ \A k \in E \ K : s[k] = 0
    BY <1>3, <1>4, <1>7
  <2> QED
    BY <2>1, SumIgnoresZeros
<1>11. SumFunction(c) = SumFunction(o)
  <2>1. /\ IsFiniteSet(E) /\ D \in SUBSET E /\ o \in [E -> Int] /\ c \in [D -> Int]
        /\ (\A k \in D : c[k] = o[k]) /\ \A k \in E \ D : o[k] = 0
    BY <1>1, <1>3, <1>4, <1>7
  <2> QED
    BY <2>1, SumIgnoresZeros
<1>12. SumFunction(f) \in Nat
  BY <1>2, <1>4, SumIsNat
<1>13. AmountOf(new) = AmountOf(c) + SumFunction(f)
  BY <1>9, <1>10, <1>11 DEF AmountOf
<1> QED
  BY <1>3, <1>4, <1>5, <1>6, <1>12, <1>13 DEF new, f, K, D

\* Well-formed boxes of all booths.
IsBoxes(bx) == IsFiniteSet(DOMAIN bx) /\ \A b \in DOMAIN bx : IsContent(bx[b])

\* What the boxes of booth b say of ledger and kind n, summed over all booths
\* below (a copy of the sum in BoxesBacked, with the state as parameters).
HeldFor(bs, bx, b, n) ==
  IF bs[b].nft_contract = n[1] /\ n[2] \in DOMAIN bx[b] THEN bx[b][n[2]] ELSE 0
HeldInAll(bs, bx, n) == SumFunction([b \in DOMAIN bx |-> HeldFor(bs, bx, b, n)])

\* The booths that have boxes keep their NFT ledgers.
SameLedgers(bs, new, bx) == \A b \in DOMAIN bx : new[b].nft_contract = bs[b].nft_contract

\* Content, with the state as a parameter.
ContentIn(bx, b) == IF b \in DOMAIN bx THEN bx[b] ELSE EmptyTable

\* The boxes of one booth change.
LEMMA BoxesPut ==
  ASSUME NEW bs, NEW new, NEW bx, IsBoxes(bx), NEW b, NEW c, IsContent(c),
         SameLedgers(bs, new, bx), NEW n
  PROVE  /\ IsBoxes(Put(bx, b, c))
         /\ HeldInAll(new, Put(bx, b, c), n) =
              HeldInAll(bs, bx, n)
                + (IF new[b].nft_contract = n[1]
                     THEN AtKind(c, n[2]) - AtKind(ContentIn(bx, b), n[2]) ELSE 0)
<1> DEFINE by == Put(bx, b, c)
           D == DOMAIN bx
           E == D \cup {b}
           f == [x \in D |-> HeldFor(bs, bx, x, n)]
           g == [x \in E |-> HeldFor(new, by, x, n)]
<1>1. DOMAIN by = E /\ by[b] = c /\ \A x \in D \ {b} : by[x] = bx[x]
  BY DEF Put
<1>2. IsFiniteSet(D) /\ IsFiniteSet(E) /\ \A x \in D : IsContent(bx[x])
  BY FS_AddElement DEF IsBoxes
<1>3. \A x \in E : IsContent(by[x])
  BY <1>1, <1>2
<1>4. IsBoxes(by)
  BY <1>1, <1>2, <1>3 DEF IsBoxes
<1> HIDE DEF by, D, E
<1>5. /\ f \in [D -> Nat] /\ f \in [D -> Int] /\ g \in [E -> Nat] /\ g \in [E -> Int]
  BY <1>2, <1>3 DEF IsContent, HeldFor
<1>6. \A x \in D \ {b} : g[x] = f[x]
  BY <1>1 DEF HeldFor, SameLedgers, D, E
<1>7. g[b] = IF new[b].nft_contract = n[1] THEN AtKind(c, n[2]) ELSE 0
  BY <1>1 DEF HeldFor, AtKind, E
<1>8. b \in D => f[b] = IF new[b].nft_contract = n[1] THEN AtKind(bx[b], n[2]) ELSE 0
  BY DEF HeldFor, AtKind, SameLedgers, D
<1>9. HeldInAll(bs, bx, n) = SumFunction(f) /\ HeldInAll(new, by, n) = SumFunction(g)
  BY <1>1 DEF HeldInAll, D
<1>10. AtKind(c, n[2]) \in Nat /\ (b \in D => AtKind(bx[b], n[2]) \in Nat)
  BY <1>2 DEF IsContent, AtKind
<1> HIDE DEF f, g
<1>11. SumFunction(f) \in Nat
  BY <1>2, <1>5, SumIsNat
<1>12. CASE b \in D
  <2>1. E = D
    BY <1>12 DEF E
  <2>2. g \in [D -> Int]
    BY <1>5, <2>1
  <2>3. SumFunction(g) = SumFunction(f) - f[b] + g[b]
    BY <1>2, <1>5, <1>6, <1>12, <2>2, SumChangeKey
  <2>4. ContentIn(bx, b) = bx[b]
    BY <1>12 DEF ContentIn, D
  <2>5. SumFunction(g) = SumFunction(f) + (IF new[b].nft_contract = n[1]
                     THEN AtKind(c, n[2]) - AtKind(bx[b], n[2]) ELSE 0)
    BY <1>7, <1>8, <1>10, <1>11, <1>12, <2>3
  <2> QED
    BY <1>4, <1>9, <2>4, <2>5 DEF by
<1>13. CASE b \notin D
  <2>1. \A x \in D : g[x] = f[x]
    BY <1>6, <1>13
  <2>2. E = D \cup {b} /\ IsFiniteSet(D)
    BY <1>2 DEF E
  <2>3. SumFunction(g) = SumFunction(f) + g[b]
    BY <1>5, <1>13, <2>1, <2>2, SumGrows
  <2>4. AtKind(ContentIn(bx, b), n[2]) = 0
    BY <1>13 DEF ContentIn, AtKind, EmptyTable, D
  <2>5. SumFunction(g) = SumFunction(f) + (IF new[b].nft_contract = n[1]
                     THEN AtKind(c, n[2]) - 0 ELSE 0)
    BY <1>7, <1>10, <1>11, <2>3
  <2> QED
    BY <1>4, <1>9, <2>4, <2>5 DEF by
<1> QED
  BY <1>12, <1>13

\* The other booths keep their NFT ledgers.
OthersStay(bs, new, bx, b) ==
  \A x \in DOMAIN bx \ {b} : new[x].nft_contract = bs[x].nft_contract

\* The boxes of one booth go.
LEMMA BoxesDropped ==
  ASSUME NEW bs, NEW new, NEW bx, IsBoxes(bx), NEW b \in DOMAIN bx,
         OthersStay(bs, new, bx, b), NEW n
  PROVE  /\ IsBoxes(Drop(bx, b))
         /\ HeldInAll(new, Drop(bx, b), n) =
              HeldInAll(bs, bx, n)
                - (IF bs[b].nft_contract = n[1] THEN AtKind(bx[b], n[2]) ELSE 0)
<1> DEFINE by == Drop(bx, b)
           D == DOMAIN bx
           f == [x \in D |-> HeldFor(bs, bx, x, n)]
           g == [x \in D \ {b} |-> HeldFor(new, by, x, n)]
<1>1. DOMAIN by = D \ {b} /\ (\A x \in D \ {b} : by[x] = bx[x]) /\ b \in D
  BY DEF Drop
<1>2. IsFiniteSet(D) /\ IsFiniteSet(D \ {b}) /\ \A x \in D : IsContent(bx[x])
  BY FS_RemoveElement DEF IsBoxes
<1>3. IsBoxes(by)
  BY <1>1, <1>2 DEF IsBoxes
<1>4. \A x \in D \ {b} : IsContent(by[x])
  BY <1>1, <1>2
<1> HIDE DEF by
<1>5. f \in [D -> Nat] /\ f \in [D -> Int] /\ g \in [D \ {b} -> Int]
  BY <1>2, <1>4 DEF IsContent, HeldFor
<1>6. \A x \in D \ {b} : g[x] = f[x]
  BY <1>1 DEF HeldFor, OthersStay
<1>7. f[b] = IF bs[b].nft_contract = n[1] THEN AtKind(bx[b], n[2]) ELSE 0
  BY DEF HeldFor, AtKind
<1>8. HeldInAll(bs, bx, n) = SumFunction(f) /\ HeldInAll(new, by, n) = SumFunction(g)
  BY <1>1 DEF HeldInAll
<1> DEFINE E == D \ {b}
<1>10. E = D \ {b} /\ g \in [E -> Int] /\ \A x \in E : g[x] = f[x]
  BY <1>5, <1>6
<1> HIDE DEF f, g, D, E
<1>11. IsFiniteSet(D) /\ b \in D /\ f \in [D -> Int]
  BY <1>1, <1>2, <1>5
<1>9. SumFunction(g) = SumFunction(f) - f[b]
  BY <1>10, <1>11, SumShrinks
<1> QED
  BY <1>3, <1>7, <1>8, <1>9 DEF by

\* Other fields of the booths change nothing of what is held for them.
LEMMA BoxesStay ==
  ASSUME NEW bs, NEW new, NEW bx, SameLedgers(bs, new, bx), NEW n
  PROVE  HeldInAll(new, bx, n) = HeldInAll(bs, bx, n)
BY DEF SameLedgers, HeldInAll, HeldFor


-----------------------------------------------------------------------------
(***************************************************************************)
(* blindboxgame: the inductive invariant.                                  *)
(***************************************************************************)

\* What the contract holds for the booths of one ledger and kind.
LEMMA HeldIsNat ==
  ASSUME NEW bs, NEW bx, IsBoxes(bx), NEW n
  PROVE  HeldInAll(bs, bx, n) \in Nat
<1> DEFINE f == [x \in DOMAIN bx |-> HeldFor(bs, bx, x, n)]
<1>1. f \in [DOMAIN bx -> Nat] /\ IsFiniteSet(DOMAIN bx)
  BY DEF IsBoxes, IsContent, HeldFor
<1> HIDE DEF f
<1>2. SumFunction(f) \in Nat
  BY <1>1, SumIsNat
<1> QED
  BY <1>2 DEF f, HeldInAll

\* A limit of 16 bits; by name, as the provers count literals up one by one.
Fits16(max) == max \in 0..(Width16 - 1)

\* The parts of the inductive invariant: the settings and the clock,
BoxScalars ==
  /\ box_admin \in Admins \cup {Nobody}
  /\ Fits16(max_booth_boxes) /\ last_booth_id \in Nat
  /\ time \in Nat /\ maintained \subseteq Nat

\* what the ledgers keep and what maintenance left behind,
LedgersTyped ==
  vault \in [NftContracts \X Kinds -> Nat] /\ stranded \in [NftContracts \X Kinds -> Int]

\* the booths,
BoothsTyped == DOMAIN booths \subseteq 1..last_booth_id /\ booths \in [DOMAIN booths -> Booth]
\* and their boxes, finitely many and of finitely many kinds.
BoxesTyped == IsBoxes(boxes) /\ DOMAIN boxes \subseteq DOMAIN booths

\* The counters of a booth are those of its boxes.
CountsOf(booth, c) == booth.nft_num = AmountOf(c) /\ booth.nft_box_num = Cardinality(DOMAIN c)
\* The booth was paid its price for each NFT it gave out.
Paid(booth) == booth.fund_recd = booth.price * (booth.nft_num_sum - booth.nft_num)

\* BoothsAddUp, booth by booth.
BooksKept ==
  \A b \in DOMAIN booths :
    Paid(booths[b]) /\ (b \notin maintained => CountsOf(booths[b], ContentIn(boxes, b)))

\* BoxesBacked, with the sum by name.
NftsKept ==
  \A n \in NftContracts \X Kinds : vault[n] = stranded[n] + HeldInAll(booths, boxes, n)

\* The invariant is inductive: buying relies on the counters to bound the
\* draws, on the types to divide, and on finite maps to sum.
BoxInv == BoxScalars /\ LedgersTyped /\ BoothsTyped /\ BoxesTyped /\ BooksKept /\ NftsKept

\* The types of the fields the books are made of.
LEMMA BoothFields ==
  ASSUME NEW booth \in Booth
  PROVE  /\ booth.price \in Nat \ {0} /\ booth.fund_recd \in Nat /\ booth.nft_num \in Nat
         /\ booth.nft_num_sum \in Nat /\ booth.nft_box_num \in Int
         /\ booth.nft_contract \in NftContracts
BY BoxAssumption DEF Booth, BoxAssumption

\* The books of two rows of a booth are the same.
SameBooks(old, new) ==
  /\ new.nft_contract = old.nft_contract /\ new.price = old.price
  /\ new.fund_recd = old.fund_recd /\ new.nft_num = old.nft_num
  /\ new.nft_num_sum = old.nft_num_sum /\ new.nft_box_num = old.nft_box_num

\* An edit of other fields of the booths keeps every book.
LEMMA BoothsEdited ==
  ASSUME BoxInv, UNCHANGED <<boxes, vault, stranded, maintained>>,
         DOMAIN booths' = DOMAIN booths,
         \A b \in DOMAIN booths : SameBooks(booths[b], booths'[b])
  PROVE  BooksKept' /\ NftsKept' /\ BoxesTyped' /\ LedgersTyped'
<1>1. SameLedgers(booths, booths', boxes)
  BY DEF SameLedgers, SameBooks, BoxInv, BoxesTyped
<1>2. \A n : HeldInAll(booths', boxes, n) = HeldInAll(booths, boxes, n)
  BY <1>1, BoxesStay
<1>3. NftsKept'
  BY <1>2 DEF NftsKept, BoxInv
<1>4. BooksKept'
  BY DEF BooksKept, BoxInv, SameBooks, Paid, CountsOf
<1> QED
  BY <1>3, <1>4 DEF BoxInv, BoxesTyped, LedgersTyped

\* A step that leaves booths, boxes and ledgers alone keeps their books.
LEMMA NothingOfBooths ==
  ASSUME BoxInv, UNCHANGED <<last_booth_id, booths, boxes, vault, stranded, maintained>>
  PROVE  LedgersTyped' /\ BoothsTyped' /\ BoxesTyped' /\ BooksKept' /\ NftsKept'
<1>1. LedgersTyped' /\ BoothsTyped' /\ BoxesTyped'
  BY DEF BoxInv, LedgersTyped, BoothsTyped, BoxesTyped
<1>2. BooksKept'
  BY DEF BoxInv, BooksKept
<1>3. NftsKept'
  BY DEF BoxInv, NftsKept
<1> QED
  BY <1>1, <1>2, <1>3

\* init keeps the invariant.
LEMMA ConfigureBoxStep ==
  ASSUME BoxInv, NEW a \in Admins, BoxConfigure(a)
  PROVE  BoxInv'
<1>1. UNCHANGED <<last_booth_id, booths, boxes, vault, stranded, maintained>>
  BY DEF BoxConfigure
<1>2. BoxScalars'
  BY DEF BoxConfigure, BoxInv, BoxScalars
<1> QED
  BY <1>1, <1>2, NothingOfBooths DEF BoxInv

\* setmaxbox narrows its argument, so the limit fits its 16 bits.
LEMMA SetMaxBoxStep ==
  ASSUME BoxInv, NEW m \in MaxBoxes, SetMaxBox(m)
  PROVE  BoxInv'
<1>1. m \in Nat
  BY BoxAssumption DEF BoxAssumption
<1>2. Fits16(Narrow(m))
  <2>1. Width16 \in Nat \ {0}
    BY DEF Width16
  <2> QED
    BY <1>1, <2>1 DEF Narrow, Fits16
<1>3. UNCHANGED <<last_booth_id, booths, boxes, vault, stranded, maintained>>
  BY DEF SetMaxBox
<1>4. BoxScalars'
  BY <1>2 DEF SetMaxBox, BoxInv, BoxScalars
<1> QED
  BY <1>3, <1>4, NothingOfBooths DEF BoxInv

\* The clock keeps the invariant.
LEMMA PassesStep ==
  ASSUME BoxInv, Passes
  PROVE  BoxInv'
<1>1. UNCHANGED <<last_booth_id, booths, boxes, vault, stranded, maintained>>
  BY DEF Passes, boxGlobal
<1>2. BoxScalars'
  BY DEF Passes, BoxInv, BoxScalars, boxGlobal
<1> QED
  BY <1>1, <1>2, NothingOfBooths DEF BoxInv


\* createbooth adds a booth without boxes under an id no booth or box has.
LEMMA CreateStep ==
  ASSUME BoxInv, NEW s, NEW o \in Owners, NEW ct \in NftContracts, NEW p \in BoxPrices,
         NEW t \in Opens, NEW d \in Durations, CreateBooth(s, o, ct, p, t, d)
  PROVE  BoxInv'
<1> DEFINE id == last_booth_id + 1
           row == [owner |-> o, nft_contract |-> ct, price |-> p, enabled |-> TRUE,
                   opened |-> t, closed |-> t + d, fund_recd |-> 0,
                   nft_num |-> 0, nft_num_sum |-> 0, nft_box_num |-> 0]
<1>1. /\ last_booth_id' = id /\ booths' = Put(booths, id, row)
      /\ UNCHANGED <<box_admin, max_booth_boxes, boxes, vault, time, stranded, maintained>>
  BY DEF CreateBooth
<1>2. /\ last_booth_id \in Nat /\ DOMAIN booths \subseteq 1..last_booth_id
      /\ booths \in [DOMAIN booths -> Booth] /\ DOMAIN boxes \subseteq DOMAIN booths
  BY DEF BoxInv, BoxScalars, BoothsTyped, BoxesTyped
<1>3. /\ id \notin DOMAIN booths /\ id \notin DOMAIN boxes
      /\ 1..last_booth_id \subseteq 1..id /\ id \in 1..id /\ id \in Nat
  BY <1>2
<1>4. row \in Booth
  BY BoxAssumption DEF BoxAssumption, Booth
<1>5. Paid(row) /\ CountsOf(row, EmptyTable)
  <2>1. p * (0 - 0) = 0
    BY BoxAssumption DEF BoxAssumption
  <2>2. DOMAIN EmptyTable = {}
    BY DEF EmptyTable
  <2>3. AmountOf(EmptyTable) = 0 /\ Cardinality(DOMAIN EmptyTable) = 0
    BY <2>2, SumOfNone, FS_EmptySet DEF AmountOf
  <2> QED
    BY <2>1, <2>3 DEF Paid, CountsOf
<1> HIDE DEF id, row
<1>6. /\ DOMAIN booths' = DOMAIN booths \cup {id} /\ booths'[id] = row
      /\ \A b \in DOMAIN booths : booths'[b] = booths[b]
  BY <1>1, <1>3 DEF Put
<1>7. BoothsTyped'
  <2>1. \A b \in DOMAIN booths' : booths'[b] \in Booth
    BY <1>2, <1>4, <1>6
  <2>2. booths' \in [DOMAIN booths' -> Booth]
    BY <1>1, <2>1 DEF Put
  <2>3. DOMAIN booths' \subseteq 1..last_booth_id'
    BY <1>1, <1>2, <1>3, <1>6
  <2> QED
    BY <2>2, <2>3 DEF BoothsTyped
<1>8. BooksKept'
  <2>1. ContentIn(boxes, id) = EmptyTable
    BY <1>3 DEF ContentIn
  <2>2. ASSUME NEW b \in DOMAIN booths'
        PROVE  /\ Paid(booths'[b])
               /\ b \notin maintained' => CountsOf(booths'[b], ContentIn(boxes', b))
    <3>1. CASE b = id
      BY <1>1, <1>5, <1>6, <2>1, <3>1
    <3>2. CASE b # id
      BY <1>1, <1>6, <3>2 DEF BoxInv, BooksKept
    <3> QED
      BY <3>1, <3>2
  <2> QED
    BY <2>2 DEF BooksKept
<1>9. NftsKept'
  <2>1. SameLedgers(booths, booths', boxes)
    BY <1>2, <1>6 DEF SameLedgers
  <2>2. \A n : HeldInAll(booths', boxes, n) = HeldInAll(booths, boxes, n)
    BY <2>1, BoxesStay
  <2> QED
    BY <1>1, <2>2 DEF NftsKept, BoxInv
<1>10. BoxScalars'
  BY <1>1, <1>3 DEF BoxInv, BoxScalars
<1>11. BoxesTyped' /\ LedgersTyped'
  BY <1>1, <1>6 DEF BoxInv, BoxesTyped, LedgersTyped
<1> QED
  BY <1>7, <1>8, <1>9, <1>10, <1>11 DEF BoxInv

\* enablebooth keeps the invariant.
LEMMA EnableStep ==
  ASSUME BoxInv, NEW s, NEW b, NEW e \in BOOLEAN, EnableBooth(s, b, e)
  PROVE  BoxInv'
<1>1. /\ b \in DOMAIN booths /\ booths' = [booths EXCEPT ![b].enabled = e]
      /\ UNCHANGED <<box_admin, max_booth_boxes, last_booth_id>>
      /\ UNCHANGED <<boxes, vault, time, stranded, maintained>>
  BY DEF EnableBooth, MayManage, boxGlobal
<1>2. booths \in [DOMAIN booths -> Booth] /\ DOMAIN booths \subseteq 1..last_booth_id
  BY DEF BoxInv, BoothsTyped
<1>3. /\ DOMAIN booths' = DOMAIN booths
      /\ \A x \in DOMAIN booths : SameBooks(booths[x], booths'[x])
  BY <1>1, <1>2 DEF SameBooks, Booth
<1>4. BoothsTyped'
  <2>1. booths' \in [DOMAIN booths -> Booth]
    BY <1>1, <1>2 DEF Booth
  <2> QED
    BY <1>1, <1>2, <1>3, <2>1 DEF BoothsTyped
<1>5. BooksKept' /\ NftsKept' /\ BoxesTyped' /\ LedgersTyped'
  BY <1>1, <1>3, BoothsEdited
<1>6. BoxScalars'
  BY <1>1 DEF BoxInv, BoxScalars
<1> QED
  BY <1>4, <1>5, <1>6 DEF BoxInv

\* setboothtime keeps the invariant.
LEMMA SetTimeStep ==
  ASSUME BoxInv, NEW s, NEW b, NEW o \in Nat, NEW c \in Nat, SetBoothTime(s, b, o, c)
  PROVE  BoxInv'
<1>1. /\ b \in DOMAIN booths /\ booths' = [booths EXCEPT ![b].opened = o, ![b].closed = c]
      /\ UNCHANGED <<box_admin, max_booth_boxes, last_booth_id>>
      /\ UNCHANGED <<boxes, vault, time, stranded, maintained>>
  BY DEF SetBoothTime, MayManage, boxGlobal
<1>2. booths \in [DOMAIN booths -> Booth] /\ DOMAIN booths \subseteq 1..last_booth_id
  BY DEF BoxInv, BoothsTyped
<1>3. /\ DOMAIN booths' = DOMAIN booths
      /\ \A x \in DOMAIN booths : SameBooks(booths[x], booths'[x])
  BY <1>1, <1>2 DEF SameBooks, Booth
<1>4. BoothsTyped'
  <2>1. booths' \in [DOMAIN booths -> Booth]
    BY <1>1, <1>2 DEF Booth
  <2> QED
    BY <1>1, <1>2, <1>3, <2>1 DEF BoothsTyped
<1>5. BooksKept' /\ NftsKept' /\ BoxesTyped' /\ LedgersTyped'
  BY <1>1, <1>3, BoothsEdited
<1>6. BoxScalars'
  BY <1>1 DEF BoxInv, BoxScalars
<1> QED
  BY <1>4, <1>5, <1>6 DEF BoxInv


\* One booth is rewritten, its boxes become c, the NFTs move accordingly.
Rebooked(b, c) ==
  /\ booths' \in [DOMAIN booths -> Booth]
  /\ \A x \in DOMAIN booths \ {b} : booths'[x] = booths[x]
  /\ booths'[b].nft_contract = booths[b].nft_contract
  /\ Paid(booths'[b]) /\ (b \notin maintained => CountsOf(booths'[b], c))
  /\ IsContent(c) /\ boxes' = Put(boxes, b, c)
  /\ vault' \in [NftContracts \X Kinds -> Nat]
  /\ \A n \in NftContracts \X Kinds :
       vault'[n] = vault[n]
         + (IF booths[b].nft_contract = n[1]
              THEN AtKind(c, n[2]) - AtKind(ContentIn(boxes, b), n[2]) ELSE 0)
  /\ UNCHANGED <<box_admin, max_booth_boxes, last_booth_id, time, stranded, maintained>>

\* A booth rewritten together with its boxes and its ledger keeps the
\* invariant: filling and buying are such steps.
LEMMA Rebooks ==
  ASSUME BoxInv, NEW b \in DOMAIN booths, NEW c, Rebooked(b, c)
  PROVE  BoxInv'
<1>1. /\ IsBoxes(boxes) /\ DOMAIN boxes \subseteq DOMAIN booths /\ IsContent(c)
      /\ vault \in [NftContracts \X Kinds -> Nat]
      /\ stranded \in [NftContracts \X Kinds -> Int]
      /\ boxes' = Put(boxes, b, c) /\ DOMAIN booths' = DOMAIN booths
  BY DEF BoxInv, BoxesTyped, LedgersTyped, Rebooked
<1>2. SameLedgers(booths, booths', boxes) /\ booths'[b].nft_contract = booths[b].nft_contract
  BY <1>1 DEF SameLedgers, Rebooked
<1>3. \A n : /\ IsBoxes(boxes')
             /\ HeldInAll(booths', boxes', n) =
                  HeldInAll(booths, boxes, n)
                    + (IF booths[b].nft_contract = n[1]
                         THEN AtKind(c, n[2]) - AtKind(ContentIn(boxes, b), n[2]) ELSE 0)
  BY <1>1, <1>2, BoxesPut
<1>4. NftsKept'
  <2>1. ASSUME NEW n \in NftContracts \X Kinds
        PROVE  vault'[n] = stranded'[n] + HeldInAll(booths', boxes', n)
    <3> DEFINE d == IF booths[b].nft_contract = n[1]
                      THEN AtKind(c, n[2]) - AtKind(ContentIn(boxes, b), n[2]) ELSE 0
    <3>1. vault[n] = stranded[n] + HeldInAll(booths, boxes, n) /\ stranded'[n] = stranded[n]
      BY DEF BoxInv, NftsKept, Rebooked
    <3>2. HeldInAll(booths, boxes, n) \in Int /\ vault[n] \in Int /\ stranded[n] \in Int
      BY <1>1, HeldIsNat
    <3>3. AtKind(c, n[2]) \in Int /\ AtKind(ContentIn(boxes, b), n[2]) \in Int
      BY <1>1 DEF IsBoxes, IsContent, AtKind, ContentIn, EmptyTable
    <3>4. d \in Int
      BY <3>3
    <3>5. vault'[n] = vault[n] + d
      BY DEF Rebooked
    <3>6. HeldInAll(booths', boxes', n) = HeldInAll(booths, boxes, n) + d
      BY <1>3
    <3> HIDE DEF d
    <3> QED
      BY <3>1, <3>2, <3>4, <3>5, <3>6
  <2> QED
    BY <2>1 DEF NftsKept
<1>5. BooksKept'
  <2>1. ASSUME NEW x \in DOMAIN booths'
        PROVE  /\ Paid(booths'[x])
               /\ x \notin maintained' => CountsOf(booths'[x], ContentIn(boxes', x))
    <3>1. CASE x = b
      <4>1. ContentIn(boxes', b) = c
        BY <1>1 DEF ContentIn, Put
      <4> QED
        BY <3>1, <4>1 DEF Rebooked
    <3>2. CASE x # b
      <4>1. ContentIn(boxes', x) = ContentIn(boxes, x)
        BY <1>1, <3>2 DEF ContentIn, Put
      <4> QED
        BY <1>1, <3>2, <4>1 DEF Rebooked, BoxInv, BooksKept
    <3> QED
      BY <3>1, <3>2
  <2> QED
    BY <2>1 DEF BooksKept
<1>6. BoxesTyped'
  <2>1. DOMAIN boxes' = DOMAIN boxes \cup {b}
    BY <1>1 DEF Put
  <2> QED
    BY <1>1, <1>3, <2>1 DEF BoxesTyped
<1>7. BoothsTyped'
  BY <1>1 DEF Rebooked, BoxInv, BoothsTyped
<1>8. BoxScalars' /\ LedgersTyped'
  BY <1>1 DEF Rebooked, BoxInv, BoxScalars, LedgersTyped
<1> QED
  BY <1>4, <1>5, <1>6, <1>7, <1>8 DEF BoxInv

\* A transfer of NFTs adds to the counters, the boxes and the ledger what the
\* batch brings.
LEMMA FillStep ==
  ASSUME BoxInv, NEW o, NEW ct, NEW b \in DOMAIN booths, NEW batch \in Batches,
         Fill(o, ct, b, batch)
  PROVE  BoxInv'
<1> DEFINE c == ContentIn(boxes, b)
           new == Filled(c, batch)
           added == SumFunction([k \in KindsOf(batch) |-> SentOf(batch, k)])
           more == Cardinality(KindsOf(batch) \ DOMAIN c)
           old == booths[b]
           kinds == old.nft_box_num + more
           num == old.nft_num + added
           sum == old.nft_num_sum + added
<1>1. Content(b) = c
  BY DEF Content, ContentIn
<1>2. /\ booths' = [booths EXCEPT ![b].nft_box_num = kinds, ![b].nft_num = @ + added,
                                  ![b].nft_num_sum = @ + added]
      /\ boxes' = Put(boxes, b, new) /\ old.nft_contract = ct
      /\ vault' = [n \in DOMAIN vault |->
                     vault[n] + (IF n[1] = ct THEN SentOf(batch, n[2]) ELSE 0)]
      /\ UNCHANGED <<box_admin, max_booth_boxes, last_booth_id, time, stranded, maintained>>
  BY <1>1 DEF Fill, boxGlobal
<1>3. /\ IsContent(c) /\ old \in Booth /\ booths \in [DOMAIN booths -> Booth]
      /\ vault \in [NftContracts \X Kinds -> Nat]
      /\ Paid(old) /\ (b \notin maintained => CountsOf(old, c))
  <2>1. IsContent(c)
    <3>1. IsContent(EmptyTable)
      BY FS_EmptySet DEF IsContent, EmptyTable
    <3> QED
      BY <3>1 DEF BoxInv, BoxesTyped, IsBoxes, ContentIn
  <2> QED
    BY <2>1 DEF BoxInv, BoothsTyped, LedgersTyped, BooksKept
<1>4. /\ IsContent(new) /\ added \in Nat /\ AmountOf(new) = AmountOf(c) + added
      /\ Cardinality(DOMAIN new) = Cardinality(DOMAIN c) + more
      /\ \A k : AtKind(new, k) = AtKind(c, k) + SentOf(batch, k)
  BY <1>3, FilledUp
<1>5. more \in Int
  <2>1. IsFiniteSet(KindsOf(batch) \ DOMAIN c)
    BY Sent, FS_Difference
  <2> QED
    BY <2>1, FS_CardinalityType
<1> HIDE DEF c, new, added, more
<1>6. kinds \in Int /\ num \in Nat /\ sum \in Nat
  BY <1>3, <1>4, <1>5, BoothFields
<1>7. /\ booths' = [booths EXCEPT ![b].nft_box_num = kinds, ![b].nft_num = num,
                                  ![b].nft_num_sum = sum]
  BY <1>2, <1>3
<1>8. sum - num = old.nft_num_sum - old.nft_num
  BY <1>3, <1>4, BoothFields
<1> DEFINE row == booths'[b]
<1>9. /\ row.nft_box_num = kinds /\ row.nft_num = num /\ row.nft_num_sum = sum
      /\ row.price = old.price /\ row.fund_recd = old.fund_recd
      /\ row.nft_contract = old.nft_contract
      /\ booths' \in [DOMAIN booths -> Booth]
      /\ \A x \in DOMAIN booths \ {b} : booths'[x] = booths[x]
  <2> HIDE DEF kinds, num, sum
  <2> QED
    BY <1>3, <1>6, <1>7 DEF Booth
<1>10. Paid(row)
  BY <1>3, <1>8, <1>9 DEF Paid
<1>11. b \notin maintained => CountsOf(row, new)
  BY <1>3, <1>4, <1>9 DEF CountsOf
<1>12. ASSUME NEW n \in NftContracts \X Kinds
       PROVE  /\ vault'[n] = vault[n]
                   + (IF old.nft_contract = n[1] THEN AtKind(new, n[2]) - AtKind(c, n[2]) ELSE 0)
              /\ vault'[n] \in Nat
  <2>1. SentOf(batch, n[2]) \in Nat /\ AtKind(c, n[2]) \in Int /\ vault[n] \in Nat
    BY <1>3, Sent DEF IsContent, AtKind
  <2>2. vault'[n] = vault[n] + (IF n[1] = old.nft_contract THEN SentOf(batch, n[2]) ELSE 0)
    BY <1>2, <1>3
  <2>3. AtKind(new, n[2]) - AtKind(c, n[2]) = SentOf(batch, n[2])
    BY <1>4, <2>1
  <2> QED
    BY <2>1, <2>2, <2>3
<1>13. vault' \in [NftContracts \X Kinds -> Nat]
  BY <1>2, <1>3, <1>12
<1>14. Rebooked(b, new)
  <2> HIDE DEF row
  <2>1. c = ContentIn(boxes, b) /\ row = booths'[b]
    BY DEF c, row
  <2> QED
    BY <1>2, <1>4, <1>9, <1>10, <1>11, <1>12, <1>13, <2>1 DEF Rebooked
<1> QED
  BY <1>14, Rebooks


\* The draws of a payment are numbered from 1 and at least 1.
LEMMA DrawsAreNumbers ==
  ASSUME NEW m, NEW draws \in DrawsOf(m)
  PROVE  /\ Len(draws) \in Nat /\ DOMAIN draws = 1..Len(draws)
         /\ \A i \in DOMAIN draws : draws[i] \in Nat \ {0}
<1>1. PICK i \in 1..MaxPurchase : draws \in [1..i -> 1..m]
  BY DEF DrawsOf
<1>2. i \in Nat
  BY <1>1
<1>3. \A x \in 1..m : x \in Nat \ {0}
  OBVIOUS
<1>4. draws \in Seq(Nat)
  BY <1>1, <1>2, <1>3, SeqDef
<1>5. Len(draws) \in Nat /\ DOMAIN draws = 1..Len(draws)
  BY <1>4, LenProperties
<1> QED
  BY <1>1, <1>3, <1>5

\* A purchase takes from the counters, the boxes and the ledger what was drawn,
\* and adds to the funds the price of it.
LEMMA BuyStep ==
  ASSUME BoxInv, NEW b \in DOMAIN booths, NEW q \in Payments, NEW m, NEW draws \in DrawsOf(m),
         Buy(b, q, draws)
  PROVE  BoxInv'
<1> DEFINE c == boxes[b]
           old == booths[b]
           count == q \div old.price
           left == After(c, draws)[count]
           gone == Cardinality(DOMAIN c) - Cardinality(DOMAIN left)
           num == old.nft_num - count
           kinds == old.nft_box_num - gone
           fund == old.fund_recd + PaidFor(old.price, q)
           ct == old.nft_contract
<1>1. /\ b \in DOMAIN boxes /\ count <= old.nft_num /\ Len(draws) = count
      /\ InRange(c, draws)
      /\ \A k \in DOMAIN c : Drawn(c, left, k) <= vault[<<ct, k>>]
      /\ booths' = [booths EXCEPT ![b].fund_recd = @ + PaidFor(old.price, q),
                                  ![b].nft_num = @ - count, ![b].nft_box_num = @ - gone]
      /\ boxes' = [boxes EXCEPT ![b] = left]
      /\ vault' = [n \in DOMAIN vault |->
                     vault[n] - (IF n[1] = ct THEN Drawn(c, left, n[2]) ELSE 0)]
      /\ UNCHANGED <<box_admin, max_booth_boxes, last_booth_id, time, stranded, maintained>>
  BY DEF Buy, boxGlobal
<1>2. /\ IsContent(c) /\ old \in Booth /\ booths \in [DOMAIN booths -> Booth]
      /\ vault \in [NftContracts \X Kinds -> Nat]
      /\ Paid(old) /\ (b \notin maintained => CountsOf(old, c)) /\ ContentIn(boxes, b) = c
  BY <1>1 DEF BoxInv, BoothsTyped, BoxesTyped, IsBoxes, LedgersTyped, BooksKept, ContentIn
<1>3. /\ old.price \in Nat \ {0} /\ old.fund_recd \in Nat /\ old.nft_num \in Nat
      /\ old.nft_num_sum \in Nat /\ old.nft_box_num \in Int /\ q \in Nat
  BY <1>2, BoothFields, BoxAssumption DEF BoxAssumption
<1>4. count \in Nat
  BY <1>3, DivBounds
<1>5. /\ IsContent(left) /\ DOMAIN left \subseteq DOMAIN c
      /\ AmountOf(left) = AmountOf(c) - count
  <2>1. /\ Len(draws) \in Nat /\ DOMAIN draws = 1..Len(draws)
        /\ \A i \in DOMAIN draws : draws[i] \in Nat \ {0}
    BY DrawsAreNumbers
  <2> QED
    BY <1>1, <1>2, <2>1, DrawsTake
<1>6. gone \in Int /\ Cardinality(DOMAIN c) - gone = Cardinality(DOMAIN left)
  <2>1. Cardinality(DOMAIN c) \in Nat /\ Cardinality(DOMAIN left) \in Nat
    BY <1>2, <1>5, FS_CardinalityType DEF IsContent
  <2> QED
    BY <2>1
<1>7. num \in Nat /\ kinds \in Int /\ fund = old.fund_recd + old.price * count /\ fund \in Nat
  <2>1. PaidFor(old.price, q) = old.price * count
    BY DEF PaidFor
  <2>2. old.price * count \in Nat
    BY <1>3, <1>4, TimesNat
  <2>3. count <= old.nft_num
    BY <1>1
  <2> DEFINE cost == old.price * count
  <2>4. fund = old.fund_recd + cost /\ cost \in Nat
    BY <2>1, <2>2
  <2> HIDE DEF count, gone, cost
  <2>5. num \in Nat /\ kinds \in Int
    BY <1>3, <1>4, <1>6, <2>3
  <2>6. old.fund_recd + cost \in Nat
    BY <1>3, <2>4
  <2> QED
    BY <2>4, <2>5, <2>6 DEF cost
<1> HIDE DEF left, gone
<1>8. booths' = [booths EXCEPT ![b].fund_recd = fund, ![b].nft_num = num,
                               ![b].nft_box_num = kinds]
  <2> DEFINE paid == PaidFor(old.price, q)
  <2>1. booths' = [booths EXCEPT ![b].fund_recd = @ + paid, ![b].nft_num = @ - count,
                                 ![b].nft_box_num = @ - gone]
    BY <1>1
  <2>2. fund = booths[b].fund_recd + paid
    OBVIOUS
  <2> HIDE DEF paid, fund, count
  <2> QED
    BY <2>1, <2>2
<1> DEFINE row == booths'[b]
<1>9. /\ row.nft_box_num = kinds /\ row.nft_num = num /\ row.fund_recd = fund
      /\ row.price = old.price /\ row.nft_num_sum = old.nft_num_sum
      /\ row.nft_contract = old.nft_contract
      /\ booths' \in [DOMAIN booths -> Booth]
      /\ \A x \in DOMAIN booths \ {b} : booths'[x] = booths[x]
  <2> HIDE DEF kinds, num, fund, count
  <2> QED
    BY <1>2, <1>7, <1>8 DEF Booth
<1>10. Paid(row)
  <2> DEFINE p == old.price
             sum == old.nft_num_sum
             n0 == old.nft_num
  <2>1. old.fund_recd = p * (sum - n0)
    BY <1>2 DEF Paid
  <2> HIDE DEF count
  <2>2. p \in Int /\ sum \in Int /\ n0 \in Int /\ count \in Int /\ n0 - count \in Int
    BY <1>3, <1>4
  <2> HIDE DEF p, sum, n0
  <2>3. p * (sum - n0) = p * sum - p * n0
    BY <2>2, TimesMinus
  <2>4. p * (sum - (n0 - count)) = p * sum - p * (n0 - count)
    BY <2>2, TimesMinus
  <2>5. p * (n0 - count) = p * n0 - p * count
    BY <2>2, TimesMinus
  <2>6. p * sum \in Int /\ p * n0 \in Int /\ p * count \in Int
    BY <2>2, TimesInt
  <2>7. p * (sum - (n0 - count)) = p * (sum - n0) + p * count
    BY <2>3, <2>4, <2>5, <2>6
  <2>8. row.fund_recd = p * (sum - n0) + p * count
    BY <1>7, <1>9, <2>1 DEF p, sum, n0
  <2> QED
    BY <1>9, <2>7, <2>8 DEF Paid, p, sum, n0
<1>11. b \notin maintained => CountsOf(row, left)
  BY <1>2, <1>5, <1>6, <1>9 DEF CountsOf
<1>12. ASSUME NEW n \in NftContracts \X Kinds
       PROVE  /\ vault'[n] = vault[n]
                   + (IF old.nft_contract = n[1] THEN AtKind(left, n[2]) - AtKind(c, n[2]) ELSE 0)
              /\ vault'[n] \in Nat
  <2>1. AtKind(left, n[2]) \in Nat /\ AtKind(c, n[2]) \in Nat /\ vault[n] \in Nat
    BY <1>2, <1>5 DEF IsContent, AtKind
  <2>2. Drawn(c, left, n[2]) = AtKind(c, n[2]) - AtKind(left, n[2])
    BY DEF Drawn, AtKind
  <2>3. vault'[n] = vault[n] - (IF n[1] = ct THEN Drawn(c, left, n[2]) ELSE 0)
    BY <1>1, <1>2
  <2>4. n[1] = ct => AtKind(c, n[2]) - AtKind(left, n[2]) <= vault[n]
    <3>1. CASE n[2] \in DOMAIN c
      <4>1. n = <<n[1], n[2]>>
        OBVIOUS
      <4>2. Drawn(c, left, n[2]) <= vault[<<ct, n[2]>>]
        BY <1>1, <3>1
      <4> QED
        BY <2>2, <4>1, <4>2
    <3>2. CASE n[2] \notin DOMAIN c
      <4>1. AtKind(c, n[2]) = 0 /\ AtKind(left, n[2]) = 0
        BY <1>5, <3>2 DEF AtKind
      <4> QED
        BY <2>1, <4>1
    <3> QED
      BY <3>1, <3>2
  <2> HIDE DEF ct
  <2>5. ct = old.nft_contract
    BY DEF ct
  <2> HIDE DEF old, c
  <2> QED
    BY <2>1, <2>2, <2>3, <2>4, <2>5
<1>13. vault' \in [NftContracts \X Kinds -> Nat]
  BY <1>1, <1>2, <1>12
<1>14. boxes' = Put(boxes, b, left)
  BY <1>1 DEF Put
<1>15. Rebooked(b, left)
  <2> HIDE DEF row
  <2>1. c = ContentIn(boxes, b) /\ row = booths'[b]
    BY <1>2 DEF row
  <2> QED
    BY <1>1, <1>5, <1>9, <1>10, <1>11, <1>12, <1>13, <1>14, <2>1 DEF Rebooked
<1> QED
  BY <1>15, Rebooks


\* closebooth sends back what the boxes say and takes the booth with them.
LEMMA CloseStep ==
  ASSUME BoxInv, NEW s, NEW b, CloseBooth(s, b)
  PROVE  BoxInv'
<1> DEFINE ct == booths[b].nft_contract
           c == boxes[b]
<1>1. /\ b \in DOMAIN boxes /\ b \in DOMAIN booths
      /\ \A k \in DOMAIN c : c[k] <= vault[<<ct, k>>]
      /\ vault' = [n \in DOMAIN vault |->
           vault[n] - (IF n[1] = ct /\ n[2] \in DOMAIN c THEN c[n[2]] ELSE 0)]
      /\ boxes' = Drop(boxes, b) /\ booths' = Drop(booths, b)
      /\ UNCHANGED <<box_admin, max_booth_boxes, last_booth_id, time, stranded, maintained>>
  BY DEF CloseBooth, MayManage, Refunded, boxGlobal
<1>2. /\ IsBoxes(boxes) /\ IsContent(c) /\ vault \in [NftContracts \X Kinds -> Nat]
      /\ stranded \in [NftContracts \X Kinds -> Int]
  BY <1>1 DEF BoxInv, BoxesTyped, LedgersTyped, IsBoxes
<1>3. /\ booths \in [DOMAIN booths -> Booth] /\ DOMAIN booths \subseteq 1..last_booth_id
      /\ DOMAIN boxes \subseteq DOMAIN booths
  BY DEF BoxInv, BoothsTyped, BoxesTyped
<1>4. /\ DOMAIN booths' = DOMAIN booths \ {b}
      /\ \A x \in DOMAIN booths \ {b} : booths'[x] = booths[x]
      /\ DOMAIN boxes' = DOMAIN boxes \ {b}
      /\ \A x \in DOMAIN boxes \ {b} : boxes'[x] = boxes[x]
  BY <1>1 DEF Drop
<1>5. \A n : AtKind(c, n[2]) \in Nat
  BY <1>2 DEF IsContent, AtKind
<1>6. ASSUME NEW n \in NftContracts \X Kinds
      PROVE  /\ vault'[n] = vault[n] - (IF ct = n[1] THEN AtKind(c, n[2]) ELSE 0)
             /\ vault'[n] \in Nat
  <2>1. n = <<n[1], n[2]>> /\ vault[n] \in Nat
    BY <1>2
  <2>2. vault'[n] = vault[n] - (IF n[1] = ct /\ n[2] \in DOMAIN c THEN c[n[2]] ELSE 0)
    BY <1>1, <1>2
  <2>3. n[1] = ct /\ n[2] \in DOMAIN c => c[n[2]] <= vault[n]
    BY <1>1, <2>1
  <2>4. n[2] \in DOMAIN c => c[n[2]] \in Nat
    BY <1>2 DEF IsContent
  <2> HIDE DEF ct, c
  <2> QED
    BY <2>1, <2>2, <2>3, <2>4 DEF AtKind
<1>7. vault' \in [NftContracts \X Kinds -> Nat]
  BY <1>1, <1>2, <1>6
<1>8. OthersStay(booths, booths', boxes, b)
  BY <1>3, <1>4 DEF OthersStay
<1>9. \A n : /\ IsBoxes(boxes')
             /\ HeldInAll(booths', boxes', n) =
                  HeldInAll(booths, boxes, n) - (IF ct = n[1] THEN AtKind(c, n[2]) ELSE 0)
  BY <1>1, <1>2, <1>8, BoxesDropped
<1>10. NftsKept'
  <2>1. ASSUME NEW n \in NftContracts \X Kinds
        PROVE  vault'[n] = stranded'[n] + HeldInAll(booths', boxes', n)
    <3> DEFINE d == IF ct = n[1] THEN AtKind(c, n[2]) ELSE 0
    <3>1. vault[n] = stranded[n] + HeldInAll(booths, boxes, n) /\ stranded'[n] = stranded[n]
      BY <1>1 DEF BoxInv, NftsKept
    <3>2. /\ HeldInAll(booths, boxes, n) \in Int /\ vault[n] \in Int /\ stranded[n] \in Int
      BY <1>2, HeldIsNat
    <3>3. d \in Int
      BY <1>5
    <3>4. vault'[n] = vault[n] - d
      BY <1>6
    <3>5. HeldInAll(booths', boxes', n) = HeldInAll(booths, boxes, n) - d
      BY <1>9
    <3> HIDE DEF d
    <3> QED
      BY <3>1, <3>2, <3>3, <3>4, <3>5
  <2> QED
    BY <2>1 DEF NftsKept
<1>11. BooksKept'
  <2>1. ASSUME NEW x \in DOMAIN booths'
        PROVE  /\ Paid(booths'[x])
               /\ x \notin maintained' => CountsOf(booths'[x], ContentIn(boxes', x))
    <3>1. x \in DOMAIN booths /\ booths'[x] = booths[x] /\ maintained' = maintained
      BY <1>1, <1>4
    <3>2. ContentIn(boxes', x) = ContentIn(boxes, x)
      BY <1>4 DEF ContentIn
    <3> QED
      BY <3>1, <3>2 DEF BoxInv, BooksKept
  <2> QED
    BY <2>1 DEF BooksKept
<1>12. BoothsTyped'
  <2>1. \A x \in DOMAIN booths' : booths'[x] \in Booth
    BY <1>3, <1>4
  <2>2. booths' \in [DOMAIN booths' -> Booth]
    BY <1>1, <2>1 DEF Drop
  <2> QED
    BY <1>1, <1>3, <1>4, <2>2 DEF BoothsTyped
<1>13. BoxesTyped'
  BY <1>3, <1>4, <1>9 DEF BoxesTyped
<1>14. BoxScalars' /\ LedgersTyped'
  BY <1>1, <1>2, <1>7 DEF BoxInv, BoxScalars, LedgersTyped
<1> QED
  BY <1>10, <1>11, <1>12, <1>13, <1>14 DEF BoxInv

\* Maintenance sets the amount of one kind, to x, in the boxes of one booth.
Stranding(b, k, c, x) ==
  /\ boxes' = Put(boxes, b, c) /\ IsContent(c) /\ x \in Int
  /\ AtKind(c, k) = AtKind(boxes[b], k) - x
  /\ \A j \in Kinds \ {k} : AtKind(c, j) = AtKind(boxes[b], j)
  /\ Strand(b, k, x)

\* What maintenance takes from a box is stranded, and the booth no longer
\* counts on its boxes.
LEMMA StrandStep ==
  ASSUME BoxInv, NEW b \in DOMAIN boxes, NEW k \in Kinds, NEW c, NEW x, Stranding(b, k, c, x)
  PROVE  BoxInv'
<1> DEFINE ct == booths[b].nft_contract
<1>1. /\ IsBoxes(boxes) /\ DOMAIN boxes \subseteq DOMAIN booths
      /\ IsContent(c) /\ IsContent(boxes[b])
      /\ vault \in [NftContracts \X Kinds -> Nat]
      /\ stranded \in [NftContracts \X Kinds -> Int]
      /\ boxes' = Put(boxes, b, c) /\ x \in Int
  BY DEF BoxInv, BoxesTyped, LedgersTyped, Stranding, IsBoxes
<1>2. /\ stranded' = [stranded EXCEPT ![<<ct, k>>] = @ + x]
      /\ maintained' = maintained \cup {b}
      /\ UNCHANGED <<box_admin, max_booth_boxes, last_booth_id, booths, vault, time>>
  BY DEF Stranding, Strand, boxGlobal
<1>3. /\ booths \in [DOMAIN booths -> Booth] /\ b \in 1..last_booth_id /\ last_booth_id \in Nat
      /\ ct \in NftContracts
  BY <1>1, BoothFields DEF BoxInv, BoothsTyped, BoxScalars
<1>4. \A j : AtKind(c, j) \in Int /\ AtKind(boxes[b], j) \in Int
  BY <1>1 DEF IsContent, AtKind
<1>5. ContentIn(boxes, b) = boxes[b]
  BY DEF ContentIn
<1>6. SameLedgers(booths, booths, boxes)
  BY DEF SameLedgers
<1>7. \A n : /\ IsBoxes(boxes')
             /\ HeldInAll(booths, boxes', n) =
                  HeldInAll(booths, boxes, n)
                    + (IF ct = n[1] THEN AtKind(c, n[2]) - AtKind(boxes[b], n[2]) ELSE 0)
  BY <1>1, <1>5, <1>6, BoxesPut
<1>8. ASSUME NEW n \in NftContracts \X Kinds
      PROVE  /\ stranded'[n] = stranded[n]
                  - (IF ct = n[1] THEN AtKind(c, n[2]) - AtKind(boxes[b], n[2]) ELSE 0)
             /\ stranded'[n] \in Int
  <2>1. n = <<n[1], n[2]>> /\ stranded[n] \in Int
    BY <1>1
  <2>2. CASE n = <<ct, k>>
    <3>1. stranded'[n] = stranded[n] + x /\ n[1] = ct /\ n[2] = k
      BY <1>1, <1>2, <2>2
    <3>2. AtKind(c, k) = AtKind(boxes[b], k) - x
      BY DEF Stranding
    <3> HIDE DEF ct
    <3> QED
      BY <1>1, <1>4, <2>1, <3>1, <3>2
  <2>3. CASE n # <<ct, k>>
    <3>1. stranded'[n] = stranded[n]
      BY <1>1, <1>2, <2>3
    <3>2. ct = n[1] => n[2] \in Kinds \ {k}
      BY <2>1, <2>3
    <3>3. ct = n[1] => AtKind(c, n[2]) = AtKind(boxes[b], n[2])
      BY <3>2 DEF Stranding
    <3> HIDE DEF ct
    <3> QED
      BY <1>4, <2>1, <3>1, <3>3
  <2> QED
    BY <2>2, <2>3
<1>9. stranded' \in [NftContracts \X Kinds -> Int]
  BY <1>1, <1>2, <1>8
<1>10. NftsKept'
  <2>1. ASSUME NEW n \in NftContracts \X Kinds
        PROVE  vault'[n] = stranded'[n] + HeldInAll(booths', boxes', n)
    <3> DEFINE d == IF ct = n[1] THEN AtKind(c, n[2]) - AtKind(boxes[b], n[2]) ELSE 0
    <3>1. vault[n] = stranded[n] + HeldInAll(booths, boxes, n) /\ vault'[n] = vault[n]
      BY <1>2 DEF BoxInv, NftsKept
    <3>2. HeldInAll(booths, boxes, n) \in Int /\ vault[n] \in Int /\ stranded[n] \in Int
      BY <1>1, HeldIsNat
    <3>3. d \in Int
      BY <1>4
    <3>4. stranded'[n] = stranded[n] - d
      BY <1>8
    <3>5. HeldInAll(booths', boxes', n) = HeldInAll(booths, boxes, n) + d
      BY <1>2, <1>7
    <3> HIDE DEF d
    <3> QED
      BY <3>1, <3>2, <3>3, <3>4, <3>5
  <2> QED
    BY <2>1 DEF NftsKept
<1>11. BooksKept'
  <2>1. ASSUME NEW y \in DOMAIN booths'
        PROVE  /\ Paid(booths'[y])
               /\ y \notin maintained' => CountsOf(booths'[y], ContentIn(boxes', y))
    <3>1. y \in DOMAIN booths /\ booths'[y] = booths[y]
      BY <1>2
    <3>2. y # b => ContentIn(boxes', y) = ContentIn(boxes, y)
      BY <1>1 DEF ContentIn, Put
    <3> QED
      BY <1>2, <3>1, <3>2 DEF BoxInv, BooksKept
  <2> QED
    BY <2>1 DEF BooksKept
<1>12. BoothsTyped'
  BY <1>2 DEF BoxInv, BoothsTyped
<1>13. BoxesTyped'
  <2>1. DOMAIN boxes' = DOMAIN boxes
    BY <1>1 DEF Put
  <2> QED
    BY <1>1, <1>2, <1>7, <2>1 DEF BoxesTyped
<1>14. BoxScalars' /\ LedgersTyped'
  BY <1>1, <1>2, <1>3, <1>9 DEF BoxInv, BoxScalars, LedgersTyped
<1> QED
  BY <1>10, <1>11, <1>12, <1>13, <1>14 DEF BoxInv

\* delboothbox strands the whole box.
LEMMA DelBoothBoxStep ==
  ASSUME BoxInv, NEW b \in DOMAIN boxes, NEW k \in Kinds, DelBoothBox(b, k)
  PROVE  BoxInv'
<1> DEFINE c == Drop(boxes[b], k)
           x == AtKind(boxes[b], k)
<1>1. IsContent(boxes[b])
  BY DEF BoxInv, BoxesTyped, IsBoxes
<1>2. IsContent(c)
  <2>1. IsFiniteSet(DOMAIN boxes[b] \ {k})
    BY <1>1, FS_RemoveElement DEF IsContent
  <2> QED
    BY <1>1, <2>1 DEF IsContent, Drop
<1>3. x \in Int /\ AtKind(c, k) = x - x
  BY <1>1 DEF IsContent, AtKind, Drop
<1>4. \A j \in Kinds \ {k} : AtKind(c, j) = AtKind(boxes[b], j)
  BY DEF AtKind, Drop
<1>5. boxes' = Put(boxes, b, c) /\ Strand(b, k, x)
  BY DEF DelBoothBox, Put, AtKind
<1> HIDE DEF c
<1>6. Stranding(b, k, c, x)
  BY <1>2, <1>3, <1>4, <1>5 DEF Stranding
<1> QED
  BY <1>6, StrandStep

\* fixboothbox strands the difference, which may be negative.
LEMMA FixBoothBoxStep ==
  ASSUME BoxInv, NEW b \in DOMAIN boxes, NEW k \in Kinds, NEW q \in Fixes, FixBoothBox(b, k, q)
  PROVE  BoxInv'
<1> DEFINE c == Put(boxes[b], k, q)
           x == AtKind(boxes[b], k) - q
<1>1. IsContent(boxes[b]) /\ q \in Nat
  BY BoxAssumption DEF BoxInv, BoxesTyped, IsBoxes, BoxAssumption
<1>2. IsContent(c)
  <2>1. IsFiniteSet(DOMAIN boxes[b] \cup {k})
    BY <1>1, FS_AddElement DEF IsContent
  <2> QED
    BY <1>1, <2>1 DEF IsContent, Put
<1>3. x \in Int /\ AtKind(c, k) = AtKind(boxes[b], k) - x
  BY <1>1 DEF IsContent, AtKind, Put
<1>4. \A j \in Kinds \ {k} : AtKind(c, j) = AtKind(boxes[b], j)
  BY DEF AtKind, Put
<1>5. boxes' = Put(boxes, b, c) /\ Strand(b, k, x)
  BY DEF FixBoothBox, Put, AtKind
<1> HIDE DEF c, x
<1>6. Stranding(b, k, c, x)
  BY <1>2, <1>3, <1>4, <1>5 DEF Stranding
<1> QED
  BY <1>6, StrandStep

\* Without booths there is nothing to account for.
LEMMA BoxStart == BoxInit => BoxInv
<1> SUFFICES ASSUME BoxInit PROVE BoxInv
  OBVIOUS
<1>1. DOMAIN booths = {} /\ DOMAIN boxes = {} /\ IsFiniteSet(DOMAIN boxes)
  BY FS_EmptySet DEF BoxInit, EmptyTable
<1>2. BoxScalars /\ LedgersTyped
  <2>1. Fits16(30)
    BY DEF Fits16, Width16
  <2> QED
    BY <2>1 DEF BoxInit, BoxScalars, LedgersTyped
<1>3. BoothsTyped /\ BoxesTyped /\ BooksKept
  BY <1>1 DEF BoxInit, BoothsTyped, BoxesTyped, IsBoxes, BooksKept, EmptyTable
<1>4. NftsKept
  <2>1. \A n : HeldInAll(booths, boxes, n) = 0
    BY <1>1, SumOfNone DEF HeldInAll
  <2> QED
    BY <2>1 DEF BoxInit, NftsKept
<1> QED
  BY <1>2, <1>3, <1>4 DEF BoxInv

\* Every operation keeps the invariant.
LEMMA BoxStep == BoxInv /\ [BoxNext \/ Maintenance]_boxVars => BoxInv'
<1> SUFFICES ASSUME BoxInv, [BoxNext \/ Maintenance]_boxVars PROVE BoxInv'
  OBVIOUS
<1>1. CASE Managing
  <2>1. \A o \in Opens, d \in Durations : o \in Nat /\ o + d \in Nat
    BY BoxAssumption DEF BoxAssumption
  <2> QED
    BY <1>1, <2>1, CloseStep, EnableStep, SetTimeStep DEF Managing
<1>2. CASE BoxNext /\ ~ Managing
  BY <1>2, CreateStep, FillStep, BuyStep, SetMaxBoxStep, ConfigureBoxStep, PassesStep DEF BoxNext
<1>3. CASE Maintenance
  BY <1>3, DelBoothBoxStep, FixBoothBoxStep DEF Maintenance
<1>4. CASE UNCHANGED boxVars
  <2>1. /\ UNCHANGED <<last_booth_id, booths, boxes, vault, stranded, maintained>>
        /\ UNCHANGED <<box_admin, max_booth_boxes, time>>
    BY <1>4 DEF boxVars, boxGlobal
  <2>2. BoxScalars'
    BY <2>1 DEF BoxInv, BoxScalars
  <2> QED
    BY <2>1, <2>2, NothingOfBooths DEF BoxInv
<1> QED
  BY <1>1, <1>2, <1>3, <1>4

\* What the invariant says in the terms of the checked properties.
LEMMA BoxInvMeans == BoxInv => BoothsAddUp /\ BoxesBacked
<1>1. BoxInv => BoothsAddUp
  <2> SUFFICES ASSUME BoxInv PROVE BoothsAddUp
    OBVIOUS
  <2>1. \A b : Content(b) = ContentIn(boxes, b)
    BY DEF Content, ContentIn
  <2>2. CountersMatchBoxes
    BY <2>1 DEF BoxInv, BooksKept, CountsOf, CountersMatchBoxes
  <2>3. PaidPerNft
    BY DEF BoxInv, BooksKept, Paid, PaidPerNft
  <2> QED
    BY <2>2, <2>3 DEF BoothsAddUp
<1>2. BoxInv => BoxesBacked
  <2> SUFFICES ASSUME BoxInv PROVE BoxesBacked
    OBVIOUS
  <2>1. DOMAIN vault = NftContracts \X Kinds
    BY DEF BoxInv, LedgersTyped
  <2> QED
    BY <2>1 DEF BoxInv, NftsKept, HeldInAll, HeldFor, BoxesBacked
<1> QED
  BY <1>1, <1>2

\* For any booths, batches, payments and draws, and whatever maintenance does
\* elsewhere: the counters of a booth maintenance left alone are those of its
\* boxes, and every booth was paid its price for each NFT it gave out.
THEOREM BoothsKeepBooks == BoxSpec => []BoothsAddUp
BY BoxInvMeans, BoxStart, BoxStep, PTL DEF BoxSpec

\* The contract holds of every kind what the boxes of all booths say and what
\* maintenance stranded (closebooth and the purchases send only their own).
THEOREM BoxesStayBacked == BoxSpec => []BoxesBacked
BY BoxInvMeans, BoxStart, BoxStep, PTL DEF BoxSpec

\* What the invariant says of the types of the state.
LEMMA BoxInvTypes == BoxInv => BoxTypeOK
<1> SUFFICES ASSUME BoxInv PROVE BoxTypeOK
  OBVIOUS
<1>1. Fits16(max_booth_boxes)
  BY DEF BoxInv, BoxScalars
<1>2. max_booth_boxes \in 0..(Width16 - 1)
  BY <1>1 DEF Fits16
<1>3. /\ box_admin \in Admins \cup {Nobody} /\ last_booth_id \in Nat
      /\ time \in Nat /\ maintained \subseteq Nat
  BY DEF BoxInv, BoxScalars
<1>4. /\ DOMAIN booths \subseteq 1..last_booth_id /\ booths \in [DOMAIN booths -> Booth]
      /\ DOMAIN boxes \subseteq DOMAIN booths
      /\ vault \in [NftContracts \X Kinds -> Nat]
      /\ stranded \in [NftContracts \X Kinds -> Int]
  BY DEF BoxInv, LedgersTyped, BoothsTyped, BoxesTyped
<1>5. \A b \in DOMAIN boxes :
        DOMAIN boxes[b] \subseteq Kinds /\ boxes[b] \in [DOMAIN boxes[b] -> Nat]
  BY DEF BoxInv, BoxesTyped, IsBoxes, IsContent
<1> QED
  BY <1>2, <1>3, <1>4, <1>5 DEF BoxTypeOK

\* The state of blindboxgame keeps its types, under maintenance too.
THEOREM BoxTypes == BoxSpec => []BoxTypeOK
BY BoxInvTypes, BoxStart, BoxStep, PTL DEF BoxSpec

-----------------------------------------------------------------------------
(***************************************************************************)
(* The five contracts together, as the scenes of MCFunds run them.         *)
(***************************************************************************)

\* poh.cisum and poe.cisum as the scenes of sign-ups find them.
LEMMA ScenesStart ==
  ASSUME NEW points_ \in Nat, PohDeployed(points_)
  PROVE  PohInv
<1>1. PoeInv
  <2>1. consumed \in [PoeAccts -> Int] /\ \A a \in PoeAccts : consumed[a] = 0
    BY DEF PohDeployed
  <2>2. ConsumedInAll = 0
    BY <2>1, PoeAccountsFinite, SumOfZeros DEF ConsumedInAll
  <2>3. DOMAIN rewardacts = {Invite} /\ rewardacts \in [DOMAIN rewardacts -> PointSums]
    BY InviteAssumption DEF PohDeployed
  <2>4. PoeTypeOK
    BY <2>3, PohAssumption DEF PohDeployed, PoeTypeOK, PohAssumption
  <2> QED
    BY <2>2, <2>4 DEF PoeInv, PointsBacked, PohDeployed
<1>2. DOMAIN funds = {} /\ IsFunds(funds) /\ purse \in [FundTokens -> Nat]
  BY FS_EmptySet DEF PohDeployed, EmptyTable, IsFunds
<1>3. FundsAddUp
  <2> SUFFICES ASSUME NEW t \in FundTokens
               PROVE  FundTotal(funds, t) = 0
    BY DEF FundsAddUp, FundTotal, PohDeployed
  <2> DEFINE f == [k \in DOMAIN funds |-> IF k[2] = t THEN funds[k].available ELSE 0]
  <2>1. DOMAIN f = {}
    BY <1>2
  <2> HIDE DEF f
  <2>2. SumFunction(f) = 0
    BY <2>1, SumOfNone
  <2> QED
    BY <2>2 DEF f, FundTotal
<1>4. MintInv
  <2>1. Bonus * 0 = 0
    BY PohAssumption DEF PohAssumption
  <2>2. consumed[POH] = 0
    BY DEF PohDeployed, PoeAccts
  <2>3. platform_acct \in PoeAccts /\ registrar \in PoeAccts /\ max_issued \in Nat
    BY PohAssumption DEF PohDeployed, PohAssumption, PoeAccts
  <2> QED
    BY <2>1, <2>2, <2>3 DEF PohDeployed, MintInv, IssuesAccounted, SignupBudget, InvitesAccounted
<1> QED
  BY <1>1, <1>2, <1>3, <1>4 DEF PohInv, FundsInv

ScenesInv == PosInv /\ PohInv /\ BoxInv /\ ReserveInv

\* Every scene starts in it.
LEMMA ScenesInitially == MCInit => ScenesInv
<1> SUFFICES ASSUME MCInit PROVE ScenesInv
  OBVIOUS
<1>1. \E mini, music \in Nat : PosDeployed(mini, music)
  <2>1. PosDeployed(1, 2) \/ PosDeployed(1, 0)
    BY DEF MCInit
  <2> QED
    BY <2>1
<1>2. PosInv
  BY <1>1, PosStart
<1>3. PohInv
  <2>1. PohDeployed(3) \/ PohDeployed(2) \/ (PohInit /\ PoeInit)
    BY DEF MCInit
  <2> QED
    BY <2>1, ScenesStart, PohStart
<1>4. BoxInv /\ ReserveInv
  BY BoxStart, ReserveStart DEF MCInit
<1> QED
  BY <1>2, <1>3, <1>4 DEF ScenesInv

\* A scene takes steps of one group of contracts and leaves the others alone.
LEMMA ScenesStep == ScenesInv /\ [MCNext]_mcVars => ScenesInv'
<1> SUFFICES ASSUME ScenesInv, [MCNext]_mcVars PROVE ScenesInv'
  OBVIOUS
<1>1. /\ [PosNext]_posVars
      /\ PohNext \/ UNCHANGED pohWorld
      /\ [BoxNext \/ Maintenance]_boxVars
      /\ [ReserveNext]_reserveVars
  <2>1. CASE UNCHANGED mcVars
    BY <2>1 DEF mcVars
  <2>2. CASE Pos(StakeNext) \/ Pos(SwitchNext)
    BY <2>2 DEF Pos, StakeNext, SwitchNext
  <2>3. CASE Poh(FundsNext) \/ Poh(PointsNext) \/ Poh(PoeSceneNext)
    <3>1. FundsNext \/ PointsNext \/ PoeSceneNext => PohNext
      BY DEF FundsNext, PointsNext, PoeSceneNext, PohNext
    <3> QED
      BY <2>3, <3>1 DEF Poh
  <2>4. CASE Box(BoxNext) \/ Box(RepairsNext)
    BY <2>4 DEF Box, RepairsNext
  <2>5. CASE ReserveNext /\ UNCHANGED <<posVars, pohWorld, boxVars>>
    BY <2>5
  <2> QED
    BY <2>1, <2>2, <2>3, <2>4, <2>5 DEF MCNext
<1>2. PosInv'
  BY <1>1, PosStep DEF ScenesInv
<1>3. PohInv'
  BY <1>1, PohStep DEF ScenesInv
<1>4. BoxInv' /\ ReserveInv'
  BY <1>1, BoxStep, ReserveStep DEF ScenesInv
<1> QED
  BY <1>2, <1>3, <1>4 DEF ScenesInv

\* The tables of the five contracts are well formed in every scene, from a
\* deployment or with points already in poe.cisum: no balance, interest, fund
\* or box content ever goes below zero.
THEOREM FundsTypes == MCSpec => []FundsTypeOK
<1>1. ScenesInv => FundsTypeOK
  <2>1. PosInv => PosTypeOK
    BY PosInvTypes
  <2>2. PohInv => PohTypeOK /\ PoeTypeOK
    BY PohInvTypes
  <2>3. BoxInv => BoxTypeOK
    BY BoxInvTypes
  <2>4. ReserveInv => ReserveTypeOK
    BY DEF ReserveInv
  <2> QED
    BY <2>1, <2>2, <2>3, <2>4 DEF ScenesInv, FundsTypeOK
<1> QED
  BY <1>1, ScenesInitially, ScenesStep, PTL DEF MCSpec

\* So do the books: in the scenes that start with points, too, savers are
\* covered, funds, mints and points are on the books, booths and boxes add up
\* and the reserve accounts for its orders.
THEOREM FundsScenesBooks ==
  MCSpec => [](/\ BalancesCovered /\ DepositsAccounted /\ InterestWithinTerm
               /\ FundsAddUp /\ IssuesAccounted /\ PointsBacked
               /\ BoothsAddUp /\ BoxesBacked /\ ReserveAccounts)
<1>1. ScenesInv => BalancesCovered /\ DepositsAccounted /\ InterestWithinTerm
  BY PosInvMeans DEF ScenesInv
<1>2. ScenesInv => FundsAddUp /\ IssuesAccounted /\ PointsBacked
  BY DEF ScenesInv, PohInv, FundsInv, MintInv, PoeInv
<1>3. ScenesInv => BoothsAddUp /\ BoxesBacked /\ ReserveAccounts
  BY BoxInvMeans DEF ScenesInv, ReserveInv, ReserveAccounts
<1> QED
  BY <1>1, <1>2, <1>3, ScenesInitially, ScenesStep, PTL DEF MCSpec
=============================================================================
