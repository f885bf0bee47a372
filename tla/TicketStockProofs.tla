------------------------- MODULE TicketStockProofs --------------------------
(***************************************************************************)
(* Proofs about the NFT ledger and, on top of it, the books of show.cisum, *)
(* for every set of accounts and token types and any number of shows,      *)
(* grades and managers.  The ledger comes first, one lemma per action of   *)
(* TicketNFT: the contracts above it take the same actions.                *)
(***************************************************************************)
EXTENDS ShowCisum, SumTheorems, TLAPS

\* No type is minted beyond its cap: what NftTypeOK needs to be completed
\* with for the cap check of issue to mean something.
SupplyCapped ==
  \A n \in DOMAIN nstats : nstats[n].supply <= nstats[n].max_supply

NftInv == NftTypeOK /\ SupplyCapped

-----------------------------------------------------------------------------
\* create adds a well-formed row with nothing minted and touches no other.
LEMMA CreateStep ==
  ASSUME NftInv, NEW a \in Accounts, NEW max \in Nat, NEW n \in Nids,
         NEW u \in Uris, NEW o \in Accounts, NftCreate(a, max, n, u, o)
  PROVE  NftInv'
<1> USE DEF NftInv, NftTypeOK, SupplyCapped, NftCreate, IsNewType,
            Put, nftConfig, NStat
<1>1. DOMAIN nstats' = DOMAIN nstats \cup {n}
  OBVIOUS
<1>2. nstats'[n] \in NStat /\ nstats'[n].supply <= nstats'[n].max_supply
  OBVIOUS
<1>3. \A m \in DOMAIN nstats : nstats'[m] = nstats[m]
  OBVIOUS
<1> QED
  BY <1>1, <1>2, <1>3

\* issue stays under the cap it has just compared with.
LEMMA IssueStep ==
  ASSUME NftInv, NEW a \in Accounts, NEW n \in Nids, NEW k \in Nat,
         NftIssue(a, n, k)
  PROVE  NftInv'
<1> USE DEF NftInv, NftTypeOK, SupplyCapped, NftIssue, Headroom,
            nftConfig, NStat
<1>1. DOMAIN nstats' = DOMAIN nstats
  OBVIOUS
<1>2. nstats[n] \in NStat
  OBVIOUS
<1>3. nstats'[n] = [nstats[n] EXCEPT !.supply = @ + k]
  OBVIOUS
<1>4. nstats'[n] \in NStat /\ nstats'[n].supply <= nstats'[n].max_supply
  <2>1. k <= nstats[n].max_supply - nstats[n].supply
    OBVIOUS
  <2> HIDE DEF NftInv, NftTypeOK, SupplyCapped, NftIssue, Headroom, nftConfig
  <2>2. nstats[n].supply \in Int /\ nstats[n].max_supply \in Nat
    BY <1>2
  <2>3. /\ nstats'[n] \in NStat
        /\ nstats'[n].supply = nstats[n].supply + k
        /\ nstats'[n].max_supply = nstats[n].max_supply
    BY <1>2, <1>3
  <2> QED
    BY <2>1, <2>2, <2>3
<1>5. \A m \in DOMAIN nstats \ {n} : nstats'[m] = nstats[m]
  OBVIOUS
<1>6. bal' \in [Accounts -> [Nids -> Nat]]
  <2>1. /\ bal \in [Accounts -> [Nids -> Nat]]
        /\ bal' = [bal EXCEPT ![a][n] = bal[a][n] + k]
    OBVIOUS
  <2> HIDE DEF NftInv, NftTypeOK, SupplyCapped, NftIssue, Headroom,
               nftConfig, NStat
  <2>2. [bal[a] EXCEPT ![n] = bal[a][n] + k] \in [Nids -> Nat]
    BY <2>1
  <2>3. bal' = [bal EXCEPT ![a] = [bal[a] EXCEPT ![n] = bal[a][n] + k]]
    BY <2>1
  <2> QED
    BY <2>1, <2>2, <2>3
<1> QED
  BY <1>1, <1>2, <1>3, <1>4, <1>5, <1>6

\* retire lowers the supply and the issuer's balance by what that has.
LEMMA RetireStep ==
  ASSUME NftInv, NEW n \in Nids, NEW k \in Nat, NftRetire(n, k)
  PROVE  NftInv'
<1> USE DEF NftInv, NftTypeOK, SupplyCapped, NftRetire,
            nftConfig, NStat
<1>1. DOMAIN nstats' = DOMAIN nstats
  OBVIOUS
<1>2. nstats[n] \in NStat
  OBVIOUS
<1>3. nstats'[n] = [nstats[n] EXCEPT !.supply = @ - k]
  OBVIOUS
<1>4. nstats'[n] \in NStat /\ nstats'[n].supply <= nstats'[n].max_supply
  <2>1. /\ nstats[n].supply \in Int /\ nstats[n].max_supply \in Int
        /\ nstats[n].supply <= nstats[n].max_supply
    BY <1>2
  <2>2. /\ nstats[n].supply - k \in Int
        /\ nstats[n].supply - k <= nstats[n].max_supply
    BY <2>1
  <2> QED
    BY <1>2, <1>3, <2>2
<1>5. \A m \in DOMAIN nstats \ {n} : nstats'[m] = nstats[m]
  OBVIOUS
<1>6. bal' \in [Accounts -> [Nids -> Nat]]
  OBVIOUS
<1> QED
  BY <1>1, <1>2, <1>3, <1>4, <1>5, <1>6

\* A batch transfer leaves no balance negative, and no row changes.
LEMMA TransferStep ==
  ASSUME NftInv, NEW a \in Accounts, NEW b \in Accounts,
         NEW moved \in [Nids -> Nat], NftTransfer(a, b, moved)
  PROVE  NftInv'
<1> USE DEF NftInv, NftTypeOK
<1>1. a # b /\ \A n \in Nids : bal[a][n] >= moved[n]
  <2>1. \A n \in Nids : moved[n] > 0 => bal[a][n] >= moved[n]
    BY DEF NftTransfer, CanMove
  <2>2. \A n \in Nids : bal[a][n] \in Nat /\ moved[n] \in Nat
    OBVIOUS
  <2> QED
    BY <2>1, <2>2 DEF NftTransfer, CanMove
<1>2. bal' = Move(bal, a, b, moved)
  BY DEF NftTransfer
<1>3. /\ bal'[a] = [n \in Nids |-> bal[a][n] - moved[n]]
      /\ bal'[b] = [n \in Nids |-> bal[b][n] + moved[n]]
      /\ \A c \in Accounts \ {a, b} : bal'[c] = bal[c]
      /\ bal' \in [Accounts -> {bal'[c] : c \in Accounts}]
  BY <1>1, <1>2 DEF Move
<1>4. \A c \in Accounts : bal'[c] \in [Nids -> Nat]
  <2>1. \A n \in Nids : /\ bal[a][n] - moved[n] \in Nat
                        /\ bal[b][n] + moved[n] \in Nat
    BY <1>1
  <2>2. bal'[a] \in [Nids -> Nat] /\ bal'[b] \in [Nids -> Nat]
    BY <1>3, <2>1
  <2>3. \A c \in Accounts \ {a, b} : bal'[c] \in [Nids -> Nat]
    BY <1>3
  <2> QED
    BY <2>2, <2>3
<1>5. bal' \in [Accounts -> [Nids -> Nat]]
  BY <1>3, <1>4
<1> QED
  BY <1>5 DEF NftTransfer, nftConfig, SupplyCapped

\* The rewrites of one descriptive field of a row.
LEMMA RewriteStep ==
  ASSUME NftInv, NEW n \in Nids,
         \/ \E o \in Accounts \cup {NoName} : SetIpOwner(n, o)
         \/ \E a \in Accounts, u \in Uris : SetTokenUri(a, n, u)
         \/ \E a \in Accounts : Notarize(a, n)
  PROVE  NftInv'
<1>1. /\ n \in DOMAIN nstats
      /\ DOMAIN nstats' = DOMAIN nstats
      /\ nstats'[n] \in NStat
      /\ nstats'[n].supply = nstats[n].supply
      /\ nstats'[n].issuer = nstats[n].issuer
      /\ nstats'[n].max_supply = nstats[n].max_supply
      /\ \A m \in DOMAIN nstats \ {n} : nstats'[m] = nstats[m]
      /\ UNCHANGED <<bal, nftConfig>>
  <2>1. CASE \E o \in Accounts \cup {NoName} : SetIpOwner(n, o)
    BY <2>1 DEF SetIpOwner, NftInv, NftTypeOK, NStat
  <2>2. CASE \E a \in Accounts, u \in Uris : SetTokenUri(a, n, u)
    BY <2>2 DEF SetTokenUri, NftInv, NftTypeOK, NStat
  <2>3. CASE \E a \in Accounts : Notarize(a, n)
    BY <2>3 DEF Notarize, NftInv, NftTypeOK, NStat
  <2> QED
    BY <2>1, <2>2, <2>3
<1> QED
  BY <1>1 DEF NftInv, NftTypeOK, SupplyCapped, nftConfig

\* The lists of accounts and types.
LEMMA ConfigStep ==
  ASSUME NftInv, NEW a \in Accounts,
         \/ \E add \in BOOLEAN : SetCreator(a, add) \/ SetNotary(a, add)
         \/ AddWhitelist(a) \/ DelWhitelist(a)
         \/ \E n \in Nids, add \in BOOLEAN : SetNftWhite(a, n, add)
  PROVE  NftInv'
<1>1. UNCHANGED <<nstats, bal>>
  BY DEF SetCreator, SetNotary, AddWhitelist, DelWhitelist, SetNftWhite
<1>2. /\ creators' \subseteq Accounts /\ notaries' \subseteq Accounts
      /\ whitelist' \subseteq Accounts /\ nftWhite' \subseteq Nids
  BY DEF SetCreator, SetNotary, AddWhitelist, DelWhitelist, SetNftWhite,
         NftInv, NftTypeOK
<1> QED
  BY <1>1, <1>2 DEF NftInv, NftTypeOK, SupplyCapped

-----------------------------------------------------------------------------
\* Every step of the ledger keeps the invariant.
LEMMA NftStep ==
  ASSUME NftInv, NftNext
  PROVE  NftInv'
<1> USE NftAssumption DEF NftAssumption
<1>1. CASE \E a \in Accounts, max \in MaxSupplies, n \in Nids, u \in Uris :
             NftCreate(a, max, n, u, a)
  BY <1>1, CreateStep
<1>2. CASE \E n \in Nids, a \in ConfigAccts \cup {NoName} : SetIpOwner(n, a)
  <2>1. PICK n \in Nids, a \in ConfigAccts \cup {NoName} : SetIpOwner(n, a)
    BY <1>2
  <2> QED
    BY <2>1, RewriteStep
<1>3. CASE \E a \in Accounts, n \in Nids, u \in Uris : SetTokenUri(a, n, u)
  BY <1>3, RewriteStep
<1>4. CASE \E a \in ConfigAccts, n \in Nids : Notarize(a, n)
  BY <1>4, RewriteStep
<1>5. CASE \E a \in Accounts, n \in Nids, k \in Amounts : NftIssue(a, n, k)
  BY <1>5, IssueStep
<1>6. CASE \E n \in Nids, k \in Amounts : NftRetire(n, k)
  BY <1>6, RetireStep
<1>7. CASE \E a, b \in Accounts : \E moved \in [Nids -> Amounts \cup {0}] :
             NftTransfer(a, b, moved)
  <2>1. PICK a \in Accounts, b \in Accounts,
             moved \in [Nids -> Amounts \cup {0}] : NftTransfer(a, b, moved)
    BY <1>7
  <2>2. moved \in [Nids -> Nat]
    <3>1. Amounts \cup {0} \subseteq Nat
      OBVIOUS
    <3> HIDE DEF NftAssumption
    <3>2. \A n \in Nids : moved[n] \in Nat
      BY <3>1
    <3> QED
      BY <3>2
  <2> QED
    BY <2>1, <2>2, TransferStep
<1>8. CASE \/ \E a \in ConfigAccts, add \in BOOLEAN : SetCreator(a, add)
           \/ \E a \in ConfigAccts, add \in BOOLEAN : SetNotary(a, add)
           \/ \E a \in ConfigAccts : AddWhitelist(a)
           \/ \E a \in ConfigAccts : DelWhitelist(a)
           \/ \E a \in Accounts, n \in Nids, add \in BOOLEAN :
                SetNftWhite(a, n, add)
  BY <1>8, ConfigStep
<1> QED
  BY <1>1, <1>2, <1>3, <1>4, <1>5, <1>6, <1>7, <1>8 DEF NftNext

\* A step that changes nothing changes nothing.
LEMMA NftStutter ==
  ASSUME NftInv, UNCHANGED nftVars
  PROVE  NftInv'
BY DEF nftVars, NftInv, NftTypeOK, SupplyCapped

\* No sequence of creations, mints, burns, batch transfers and configuration
\* calls leaves a balance negative or a type minted beyond its cap.
THEOREM NftInvariant == NftSpec => [](NftTypeOK /\ SupplyCapped)
<1>1. NftInit => NftInv
  BY DEF NftInit, NftInv, NftTypeOK, SupplyCapped, EmptyTable
<1>2. NftInv /\ [NftNext]_nftVars => NftInv'
  BY NftStep, NftStutter
<1>3. NftInv => NftTypeOK /\ SupplyCapped
  BY DEF NftInv
<1> QED
  BY <1>1, <1>2, <1>3, PTL DEF NftSpec

-----------------------------------------------------------------------------
(***************************************************************************)
(* Conservation.                                                           *)
(***************************************************************************)

\* What the accounts hold of a type on a ledger b.
TotalHeld(b, n) == SumFunction([a \in Accounts |-> b[a][n]])

\* Completes NftInv to an inductive invariant that implies SupplyConserved.
AddsUp == \A n \in Nids : TotalHeld(bal, n) = Supply(n)

\* A well-formed table of balances; what one account gained of a type.
IsHoldings(b) == b \in [Accounts -> [Nids -> Nat]]

GainsOnly(b, new, n, o, d) ==
  /\ new[o][n] = b[o][n] + d
  /\ \A a \in Accounts \ {o} : new[a][n] = b[a][n]

\* When one balance of a type changes by d, so does the total of the type.
LEMMA HeldByOne ==
  ASSUME NEW b, NEW new, NEW n \in Nids, NEW o \in Accounts, NEW d \in Int,
         IsHoldings(b), IsHoldings(new), GainsOnly(b, new, n, o, d)
  PROVE  TotalHeld(new, n) = TotalHeld(b, n) + d
<1> DEFINE f == [a \in Accounts |-> b[a][n]]
           g == [a \in Accounts |-> new[a][n]]
<1>1. f \in [Accounts -> Int] /\ g \in [Accounts -> Int] /\ IsFiniteSet(Accounts)
  BY NftAssumption DEF IsHoldings
<1>2. g[o] = f[o] + d /\ \A a \in Accounts \ {o} : g[a] = f[a]
  BY DEF GainsOnly
<1>3. SumFunction(g) = SumFunction(f) + d
  <2> HIDE DEF f, g
  <2> QED
    BY <1>1, <1>2, SumMoves
<1> QED
  BY <1>3 DEF TotalHeld

\* What one account loses of a type another gains.
LEMMA HeldByTwo ==
  ASSUME NEW b, NEW new, NEW mid, NEW n \in Nids, NEW x \in Accounts, NEW y \in Accounts,
         NEW q \in Nat, IsHoldings(b), IsHoldings(mid), IsHoldings(new),
         GainsOnly(b, mid, n, x, - q), GainsOnly(mid, new, n, y, q)
  PROVE  TotalHeld(new, n) = TotalHeld(b, n)
<1>1. PICK d \in Int : d = - q
  OBVIOUS
<1>2. TotalHeld(mid, n) = TotalHeld(b, n) + d /\ TotalHeld(new, n) = TotalHeld(mid, n) + q
  BY <1>1, HeldByOne
<1>3. TotalHeld(b, n) \in Int
  <2> DEFINE f == [a \in Accounts |-> b[a][n]]
  <2>1. f \in [Accounts -> Int] /\ IsFiniteSet(Accounts)
    BY NftAssumption DEF IsHoldings
  <2>2. SumFunction(f) \in Int
    <3> HIDE DEF f
    <3> QED
      BY <2>1, SumIsInt
  <2> QED
    BY <2>2 DEF TotalHeld
<1> QED
  BY <1>1, <1>2, <1>3


\* Rows may change anything but their supply while balances rest.
LEMMA SupplyKept ==
  ASSUME AddsUp, UNCHANGED bal, \A n \in Nids : Supply(n)' = Supply(n)
  PROVE  AddsUp'
BY DEF AddsUp, TotalHeld

\* create starts a type at supply 0: nobody holds any of it.
LEMMA CreateAddsUp ==
  ASSUME AddsUp, NEW a, NEW max, NEW n, NEW u, NEW o, NftCreate(a, max, n, u, o)
  PROVE  AddsUp'
<1>1. /\ n \notin DOMAIN nstats /\ DOMAIN nstats' = DOMAIN nstats \cup {n}
      /\ nstats'[n].supply = 0 /\ \A m \in DOMAIN nstats : nstats'[m] = nstats[m]
      /\ UNCHANGED bal
  BY DEF NftCreate, IsNewType, Put
<1>2. \A m \in Nids : Supply(m)' = Supply(m)
  BY <1>1 DEF Supply
<1> QED
  BY <1>1, <1>2, SupplyKept

\* issue and retire: supply and the issuer's balance move by the same amount.
LEMMA MintAddsUp ==
  ASSUME AddsUp, NEW n \in Nids, NEW d \in Int, NEW o \in Accounts,
         n \in DOMAIN nstats, nstats[n] \in NStat, IsHoldings(bal), IsHoldings(bal'),
         nstats' = [nstats EXCEPT ![n].supply = @ + d],
         bal' = [bal EXCEPT ![o][n] = @ + d]
  PROVE  AddsUp'
<1>1. /\ DOMAIN nstats' = DOMAIN nstats /\ nstats'[n].supply = nstats[n].supply + d
      /\ \A m \in DOMAIN nstats \ {n} : nstats'[m] = nstats[m]
      /\ nstats[n].supply \in Int
  BY DEF NStat
<1>2. GainsOnly(bal, bal', n, o, d)
  BY DEF GainsOnly, IsHoldings
<1>3. \A m \in Nids \ {n} : \A a \in Accounts : bal'[a][m] = bal[a][m]
  BY DEF IsHoldings
<1>4. TotalHeld(bal', n) = TotalHeld(bal, n) + d
  BY <1>2, HeldByOne
<1>5. \A m \in Nids \ {n} : TotalHeld(bal', m) = TotalHeld(bal, m)
  BY <1>3 DEF TotalHeld
<1>6. Supply(n)' = Supply(n) + d /\ \A m \in Nids \ {n} : Supply(m)' = Supply(m)
  BY <1>1 DEF Supply
<1> QED
  BY <1>4, <1>5, <1>6 DEF AddsUp

\* issue.
LEMMA IssueAddsUp ==
  ASSUME NftInv, AddsUp, NEW a \in Accounts, NEW n \in Nids, NEW k \in Nat, NftIssue(a, n, k)
  PROVE  AddsUp'
<1>1. IsHoldings(bal) /\ IsHoldings(bal') /\ \A m \in DOMAIN nstats : nstats[m] \in NStat
  BY IssueStep DEF NftInv, NftTypeOK, IsHoldings
<1>2. /\ k \in Int /\ n \in DOMAIN nstats
      /\ nstats' = [nstats EXCEPT ![n].supply = @ + k]
      /\ bal' = [bal EXCEPT ![a][n] = @ + k]
  BY DEF NftIssue
<1> QED
  BY <1>1, <1>2, MintAddsUp

\* retire.
LEMMA RetireAddsUp ==
  ASSUME NftInv, AddsUp, NEW n \in Nids, NEW k \in Nat, NftRetire(n, k)
  PROVE  AddsUp'
<1>1. IsHoldings(bal) /\ IsHoldings(bal') /\ \A m \in DOMAIN nstats : nstats[m] \in NStat
  BY RetireStep DEF NftInv, NftTypeOK, IsHoldings
<1>2. PICK d \in Int : d = - k
  OBVIOUS
<1>3. n \in DOMAIN nstats /\ nstats[n].supply \in Int /\ nstats[n].issuer \in Accounts
  BY DEF NftRetire, NftInv, NftTypeOK, NStat
<1>4. nstats' = [nstats EXCEPT ![n].supply = @ + d]
  <2>1. nstats[n].supply - k = nstats[n].supply + d
    BY <1>2, <1>3
  <2> QED
    BY <1>3, <2>1 DEF NftRetire
<1>5. bal' = [bal EXCEPT ![nstats[n].issuer][n] = @ + d]
  <2>1. bal[nstats[n].issuer][n] - k = bal[nstats[n].issuer][n] + d
    BY <1>2, <1>3 DEF NftInv, NftTypeOK
  <2> QED
    BY <1>3, <2>1 DEF NftRetire
<1> QED
  BY <1>1, <1>3, <1>4, <1>5, MintAddsUp

\* transfer: of every type, one account loses what another gains.
LEMMA TransferAddsUp ==
  ASSUME NftInv, AddsUp, NEW a \in Accounts, NEW b \in Accounts,
         NEW moved \in [Nids -> Nat], NftTransfer(a, b, moved)
  PROVE  AddsUp'
<1>1. a # b /\ bal' = Move(bal, a, b, moved) /\ UNCHANGED nstats
      /\ \A n \in Nids : moved[n] > 0 => bal[a][n] >= moved[n]
  BY DEF NftTransfer, CanMove
<1>2. IsHoldings(bal) /\ IsHoldings(bal')
  BY TransferStep DEF NftInv, NftTypeOK, IsHoldings
<1>3. ASSUME NEW n \in Nids
      PROVE  TotalHeld(bal', n) = TotalHeld(bal, n)
  <2> DEFINE mid == [bal EXCEPT ![a] = [m \in Nids |-> @[m] - moved[m]]]
  <2>1. /\ \A c \in Accounts : mid[c] = IF c = a THEN [m \in Nids |-> bal[a][m] - moved[m]] ELSE bal[c]
        /\ mid = [c \in Accounts |-> mid[c]]
    BY <1>2 DEF IsHoldings
  <2>2. bal' = [mid EXCEPT ![b] = [m \in Nids |-> mid[b][m] + moved[m]]]
    BY <1>1, <1>2 DEF Move, IsHoldings
  <2>3. \A m \in Nids : bal[a][m] - moved[m] \in Nat
    <3>1. \A m \in Nids : bal[a][m] \in Nat /\ moved[m] \in Nat
      BY <1>2 DEF IsHoldings
    <3> QED
      BY <1>1, <3>1
  <2> HIDE DEF mid
  <2>4. IsHoldings(mid)
    BY <1>2, <2>1, <2>3 DEF IsHoldings
  <2>5. PICK q \in Nat : q = moved[n]
    OBVIOUS
  <2>6. GainsOnly(bal, mid, n, a, - q)
    <3>1. bal[a][n] \in Nat /\ mid[a][n] = bal[a][n] - q
      BY <1>2, <2>1, <2>5 DEF IsHoldings
    <3>2. mid[a][n] = bal[a][n] + (- q)
      BY <3>1
    <3> QED
      BY <2>1, <3>2 DEF GainsOnly
  <2>7. GainsOnly(mid, bal', n, b, q)
    BY <2>1, <2>2, <2>4, <2>5 DEF GainsOnly, IsHoldings
  <2> QED
    BY <1>2, <2>4, <2>6, <2>7, HeldByTwo
<1>4. \A n \in Nids : Supply(n)' = Supply(n)
  BY <1>1 DEF Supply
<1> QED
  BY <1>3, <1>4 DEF AddsUp

\* The rewrites of a row and the configuration actions.
LEMMA QuietAddsUp ==
  ASSUME NftInv, AddsUp, UNCHANGED bal,
         \/ UNCHANGED nstats
         \/ \E n \in DOMAIN nstats : \E u : nstats' = [nstats EXCEPT ![n].ipowner = u]
         \/ \E n \in DOMAIN nstats : \E u : nstats' = [nstats EXCEPT ![n].token_uri = u]
         \/ \E n \in DOMAIN nstats : \E u : nstats' = [nstats EXCEPT ![n].notary = u]
  PROVE  AddsUp'
<1>1. /\ DOMAIN nstats' = DOMAIN nstats
      /\ \A n \in DOMAIN nstats : nstats'[n].supply = nstats[n].supply
  BY DEF NftInv, NftTypeOK, NStat
<1>2. \A n \in Nids : Supply(n)' = Supply(n)
  BY <1>1 DEF Supply
<1> QED
  BY <1>2, SupplyKept

\* Every step of the ledger.
LEMMA NftAddsUp ==
  ASSUME NftInv, AddsUp, NftNext \/ UNCHANGED nftVars
  PROVE  AddsUp'
<1>1. Amounts \subseteq Nat /\ Amounts \cup {0} \subseteq Nat
  BY NftAssumption
<1>2. CASE \E a \in Accounts, max \in MaxSupplies, n \in Nids, u \in Uris :
             NftCreate(a, max, n, u, a)
  BY <1>2, CreateAddsUp
<1>3. CASE \/ \E n \in Nids, a \in ConfigAccts \cup {NoName} : SetIpOwner(n, a)
           \/ \E a \in Accounts, n \in Nids, u \in Uris : SetTokenUri(a, n, u)
           \/ \E a \in ConfigAccts, n \in Nids : Notarize(a, n)
  BY <1>3, QuietAddsUp DEF SetIpOwner, SetTokenUri, Notarize
<1>4. CASE \E a \in Accounts, n \in Nids, k \in Amounts : NftIssue(a, n, k)
  BY <1>1, <1>4, IssueAddsUp
<1>5. CASE \E n \in Nids, k \in Amounts : NftRetire(n, k)
  BY <1>1, <1>5, RetireAddsUp
<1>6. CASE \E a, b \in Accounts : \E moved \in [Nids -> Amounts \cup {0}] :
             NftTransfer(a, b, moved)
  <2>1. PICK a \in Accounts, b \in Accounts,
             moved \in [Nids -> Amounts \cup {0}] : NftTransfer(a, b, moved)
    BY <1>6
  <2>2. moved \in [Nids -> Nat]
    <3>1. \A n \in Nids : moved[n] \in Nat
      BY <1>1
    <3> QED
      BY <3>1
  <2> QED
    BY <2>1, <2>2, TransferAddsUp
<1>7. CASE \/ \E a \in ConfigAccts, add \in BOOLEAN : SetCreator(a, add)
           \/ \E a \in ConfigAccts, add \in BOOLEAN : SetNotary(a, add)
           \/ \E a \in ConfigAccts : AddWhitelist(a)
           \/ \E a \in ConfigAccts : DelWhitelist(a)
           \/ \E a \in Accounts, n \in Nids, add \in BOOLEAN :
                SetNftWhite(a, n, add)
           \/ UNCHANGED nftVars
  BY <1>7, QuietAddsUp
     DEF SetCreator, SetNotary, AddWhitelist, DelWhitelist, SetNftWhite, nftVars
<1> QED
  BY <1>2, <1>3, <1>4, <1>5, <1>6, <1>7 DEF NftNext

\* The empty ledger.
LEMMA NftStart == NftInit => NftInv /\ AddsUp
<1>1. SUFFICES ASSUME NftInit
               PROVE  NftInv /\ AddsUp
  OBVIOUS
<1>2. NftInv
  BY <1>1 DEF NftInit, NftInv, NftTypeOK, SupplyCapped, EmptyTable
<1>3. ASSUME NEW n \in Nids
      PROVE  TotalHeld(bal, n) = Supply(n)
  <2> DEFINE f == [a \in Accounts |-> bal[a][n]]
  <2>1. f \in [Accounts -> Int] /\ \A a \in Accounts : f[a] = 0
    BY <1>1 DEF NftInit
  <2>2. SumFunction(f) = 0
    <3> HIDE DEF f
    <3> QED
      BY <2>1, NftAssumption, SumOfZeros
  <2> QED
    BY <1>1, <2>2 DEF TotalHeld, NftInit, Supply, EmptyTable
<1> QED
  BY <1>2, <1>3 DEF AddsUp

\* Over all accounts the balances of a type add up to its supply, which stays
\* within the cap, for any accounts, types, caps and batches.
THEOREM NoTicketFromNowhere == NftSpec => []SupplyConserved
<1>1. NftInv /\ AddsUp /\ [NftNext]_nftVars => NftInv' /\ AddsUp'
  BY NftStep, NftStutter, NftAddsUp
<1>2. NftInv /\ AddsUp => SupplyConserved
  BY DEF NftInv, NftTypeOK, SupplyCapped, AddsUp, TotalHeld, SupplyConserved
<1> QED
  BY <1>1, <1>2, NftStart, PTL DEF NftSpec

\* A uri that another type has is given to a type (settokenuri).
UriTakenOver ==
  \E a \in Accounts, n \in Nids, u \in Uris :
    /\ SetTokenUri(a, n, u)
    /\ \E m \in DOMAIN nstats \ {n} : nstats[m].token_uri = u

\* No action but settokenuri lets two types share a uri: create asks whether
\* the uri is taken, and nothing else writes one.
LEMMA UrisStep ==
  ASSUME NftInv, UriUnique, ~ UriTakenOver, [NftNext]_nftVars
  PROVE  UriUnique'
<1> DEFINE SameUris == /\ DOMAIN nstats' = DOMAIN nstats
                       /\ \A m \in DOMAIN nstats : nstats'[m].token_uri = nstats[m].token_uri
<1>1. SameUris => UriUnique'
  BY DEF UriUnique
<1>2. ASSUME NEW n \in DOMAIN nstats, NEW row, nstats' = [nstats EXCEPT ![n] = row],
             row.token_uri = nstats[n].token_uri
      PROVE  SameUris
  BY <1>2
<1>3. \A m \in DOMAIN nstats : nstats[m] \in NStat
  BY DEF NftInv, NftTypeOK
<1>4. ASSUME NEW a, NEW max, NEW n, NEW u, NftCreate(a, max, n, u, a)
      PROVE  UriUnique'
  <2>1. /\ DOMAIN nstats' = DOMAIN nstats \cup {n} /\ n \notin DOMAIN nstats
        /\ nstats'[n].token_uri = u
        /\ \A m \in DOMAIN nstats : nstats'[m] = nstats[m] /\ nstats[m].token_uri # u
    BY <1>4 DEF NftCreate, IsNewType, Put
  <2> QED
    BY <2>1 DEF UriUnique
<1>5. ASSUME NEW a \in Accounts, NEW n \in Nids, NEW u \in Uris, SetTokenUri(a, n, u)
      PROVE  UriUnique'
  <2>1. n \in DOMAIN nstats /\ nstats' = [nstats EXCEPT ![n].token_uri = u]
    BY <1>5 DEF SetTokenUri
  <2>2. /\ DOMAIN nstats' = DOMAIN nstats /\ nstats'[n].token_uri = u
        /\ \A m \in DOMAIN nstats \ {n} : nstats'[m] = nstats[m]
    BY <1>3, <2>1 DEF NStat
  <2>3. \A m \in DOMAIN nstats \ {n} : nstats[m].token_uri # u
    BY <1>5 DEF UriTakenOver
  <2> QED
    BY <2>2, <2>3 DEF UriUnique
<1>6. ASSUME NEW n, NEW o, SetIpOwner(n, o) \/ Notarize(o, n)
      PROVE  SameUris
  BY <1>3, <1>6 DEF SetIpOwner, Notarize, NStat
<1>7. ASSUME NEW a, NEW n, NEW k, NftIssue(a, n, k) \/ NftRetire(n, k)
      PROVE  SameUris
  BY <1>3, <1>7 DEF NftIssue, NftRetire, NStat
<1>8. ASSUME NEW a, NEW b, NEW moved, NftTransfer(a, b, moved)
      PROVE  SameUris
  BY <1>8 DEF NftTransfer
<1>9. ASSUME NEW a, NEW n, NEW add,
             \/ SetCreator(a, add) \/ SetNotary(a, add) \/ SetNftWhite(a, n, add)
             \/ AddWhitelist(a) \/ DelWhitelist(a)
      PROVE  SameUris
  BY <1>9 DEF SetCreator, SetNotary, SetNftWhite, AddWhitelist, DelWhitelist
<1>10. UNCHANGED nftVars => SameUris
  BY DEF nftVars
<1> HIDE DEF SameUris
<1> QED
  BY <1>1, <1>4, <1>5, <1>6, <1>7, <1>8, <1>9, <1>10 DEF NftNext

\* Two types never share a uri as long as settokenuri, which does not look, is
\* not given one that another type has: the one way to a violation of UriUnique.
THEOREM UrisUniqueByCreate == NftSpec /\ [][~ UriTakenOver]_nftVars => []UriUnique
<1>1. NftInit => NftInv /\ UriUnique
  BY NftStart DEF NftInit, UriUnique, EmptyTable
<1>2. NftInv /\ [NftNext]_nftVars => NftInv'
  BY NftStep, NftStutter
<1>3. NftInv /\ UriUnique /\ [NftNext]_nftVars /\ [~ UriTakenOver]_nftVars => UriUnique'
  <2>1. UNCHANGED nftVars /\ UriUnique => UriUnique'
    BY DEF nftVars, UriUnique
  <2> QED
    BY <2>1, UrisStep
<1> QED
  BY <1>1, <1>2, <1>3, PTL DEF NftSpec

-----------------------------------------------------------------------------
(***************************************************************************)
(* The books of show.cisum: no count ever wraps around, the stock stays    *)
(* within the total, the total and the sales within what was minted,       *)
(* whatever grab.cisum sends back; and the stock is backed by tokens of    *)
(* the ledger.                                                             *)
(***************************************************************************)

\* Every supply is a count: it is not negative and, the cap of its type being
\* one of MaxSupplies, it is below the width of a ticket count.
StatsBounded ==
  /\ DOMAIN nstats \subseteq Nids
  /\ \A n \in DOMAIN nstats :
       /\ nstats[n] \in NStat
       /\ nstats[n].supply \in 0..nstats[n].max_supply
       /\ nstats[n].max_supply < CountMod

\* What a row of the books must satisfy, against the supply of its type.
BooksOK(grade, n) ==
  /\ grade \in Ticket
  /\ grade.stock_count <= grade.total_count
  /\ grade.total_count <= Supply(n)
  /\ grade.issued_count = grade.sold_count
  /\ grade.sold_count <= Supply(n)

Books ==
  /\ DOMAIN tickets \subseteq ShowIds \X Nids
  /\ \A t \in DOMAIN tickets : BooksOK(tickets[t], t[2])

Calendar ==
  /\ now \in 0..MaxTime
  /\ showGlobal \in [admin : Accounts \cup {NoName},
                     nft_bank : {NoName, TICKET}]
  /\ DOMAIN shows \subseteq ShowIds
  /\ \A s \in DOMAIN shows :
       shows[s] \in [show_started_at : Nat, show_ended_at : Nat]

\* The inductive invariant.  The bounds of the books need those of the
\* ledger: a mint is booked without a check of its own.
ShowInv == Calendar /\ StatsBounded /\ Books

-----------------------------------------------------------------------------
(***************************************************************************)
(* Counts.                                                                 *)
(***************************************************************************)

\* A count below 2^32 is itself.
LEMMA WrapSmall ==
  ASSUME NEW c \in Nat, c < CountMod
  PROVE  Wrap(c) = c
BY CountAssumption DEF Wrap, CountAssumption

\* Any count is a natural number.
LEMMA WrapType ==
  ASSUME NEW c \in Int
  PROVE  Wrap(c) \in Nat
BY CountAssumption DEF Wrap, CountAssumption

\* Supplies are counts too.
LEMMA SupplyBounds ==
  ASSUME StatsBounded, NEW n
  PROVE  Supply(n) \in Nat /\ Supply(n) < CountMod
BY CountAssumption DEF StatsBounded, Supply, CountAssumption, NStat

-----------------------------------------------------------------------------
(***************************************************************************)
(* The books of each operation keep a row within its bounds.               *)
(***************************************************************************)

\* retire, issuetograb and an issue take k tickets the stock has: the counts
\* they lower stay counts.
LEMMA HandedOverOK ==
  ASSUME NEW grade, NEW n, BooksOK(grade, n), NEW k \in Nat,
         grade.stock_count >= k
  PROVE  BooksOK(HandedOver(grade, k), n)
BY DEF BooksOK, HandedOver, Ticket

\* Writing tickets off keeps a grade's books.
LEMMA WrittenOffOK ==
  ASSUME StatsBounded, NEW grade, NEW n, BooksOK(grade, n), NEW k \in Nat,
         grade.stock_count >= k
  PROVE  BooksOK(WrittenOff(grade, k), n)
<1>1. /\ Supply(n) \in Nat /\ Supply(n) < CountMod
      /\ CountMod \in Nat
  BY SupplyBounds, CountAssumption DEF CountAssumption
<1>2. /\ grade.total_count \in Nat /\ grade.stock_count \in Nat
      /\ grade.stock_count <= grade.total_count
      /\ grade.total_count <= Supply(n)
  BY DEF BooksOK, Ticket
<1>3. grade.total_count - k \in Nat /\ grade.total_count - k < CountMod
  BY <1>1, <1>2
<1>4. Wrap(grade.total_count - k) = grade.total_count - k
  BY <1>3, WrapSmall
<1> HIDE DEF Wrap
<1>5. WrittenOff(grade, k) = [grade EXCEPT !.stock_count = @ - k,
                                          !.total_count = @ - k]
  BY <1>4 DEF WrittenOff
<1>6. /\ WrittenOff(grade, k) \in Ticket
      /\ WrittenOff(grade, k).stock_count = grade.stock_count - k
      /\ WrittenOff(grade, k).total_count = grade.total_count - k
      /\ WrittenOff(grade, k).sold_count = grade.sold_count
      /\ WrittenOff(grade, k).issued_count = grade.issued_count
  <2>1. grade \in Ticket
    BY DEF BooksOK
  <2>2. grade.stock_count - k \in Nat
    BY <1>2
  <2> QED
    BY <1>3, <1>5, <2>1, <2>2 DEF Ticket
<1>7. /\ grade.stock_count - k <= grade.total_count - k
      /\ grade.total_count - k <= Supply(n)
  BY <1>1, <1>2
<1> QED
  BY <1>6, <1>7 DEF BooksOK

\* A return is refused when it would overfill the grade.
LEMMA ReturnedOK ==
  ASSUME NEW grade, NEW n, BooksOK(grade, n), NEW k \in Nat,
         Returned(grade, k).stock_count <= grade.total_count
  PROVE  BooksOK(Returned(grade, k), n)
<1>1. Wrap(grade.stock_count + k) \in Nat
  BY WrapType DEF BooksOK, Ticket
<1> QED
  BY <1>1 DEF BooksOK, Ticket, Returned

\* The "sold overflow" check bounds the sold counter by the total.
LEMMA SoldOK ==
  ASSUME StatsBounded, NEW grade, NEW n, BooksOK(grade, n), NEW k \in Nat,
         grade.stock_count >= k,
         Wrap(grade.sold_count + k) <= grade.total_count
  PROVE  BooksOK(Sold(grade, k), n)
<1>1. Wrap(grade.sold_count + k) \in Nat
  BY WrapType DEF BooksOK, Ticket
<1>2. Wrap(grade.sold_count + k) <= Supply(n)
  BY <1>1, SupplyBounds DEF BooksOK, Ticket
<1>3. Sold(grade, k) \in Ticket
  <2>1. grade \in Ticket /\ grade.issued_count = grade.sold_count
    BY DEF BooksOK
  <2>2. grade.stock_count - k \in Nat
    BY <2>1 DEF Ticket
  <2>3. Sold(grade, k) = [grade EXCEPT
          !.sold_count = Wrap(grade.sold_count + k),
          !.stock_count = grade.stock_count - k,
          !.issued_count = Wrap(grade.sold_count + k)]
    BY <2>1 DEF Sold, Ticket
  <2> QED
    BY <1>1, <2>1, <2>2, <2>3 DEF Ticket
<1>4. /\ Sold(grade, k).stock_count = grade.stock_count - k
      /\ Sold(grade, k).total_count = grade.total_count
      /\ Sold(grade, k).sold_count = Wrap(grade.sold_count + k)
      /\ Sold(grade, k).issued_count = Wrap(grade.sold_count + k)
  BY DEF BooksOK, Ticket, Sold
<1>5. grade.stock_count - k <= grade.total_count
  BY DEF BooksOK, Ticket
<1> QED
  BY <1>2, <1>3, <1>4, <1>5 DEF BooksOK

-----------------------------------------------------------------------------
(***************************************************************************)
(* Rows of the two tables.                                                 *)
(***************************************************************************)

\* Rewriting one row of the books, the ledger's supplies being the same.
LEMMA RowChange ==
  ASSUME Books, NEW t \in DOMAIN tickets, NEW row, BooksOK(row, t[2]),
         tickets' = [tickets EXCEPT ![t] = row], UNCHANGED nstats
  PROVE  Books'
<1>1. DOMAIN tickets' = DOMAIN tickets
  OBVIOUS
<1>2. \A u \in DOMAIN tickets : BooksOK(tickets'[u], u[2])
  BY DEF Books
<1> QED
  BY <1>1, <1>2 DEF Books, BooksOK, Supply

\* Nothing the books depend on changes.
LEMMA BooksKept ==
  ASSUME Books, UNCHANGED <<tickets, nstats>>
  PROVE  Books'
BY DEF Books, BooksOK, Supply

\* A mint at the ledger raises the supply of its type below the width of a
\* count; no other supply moves.
LEMMA LedgerIssue ==
  ASSUME StatsBounded, NEW a, NEW n \in Nids, NEW k \in Nat,
         NftIssue(a, n, k)
  PROVE  /\ StatsBounded'
         /\ Supply(n)' = Supply(n) + k
         /\ \A m \in Nids \ {n} : Supply(m)' = Supply(m)
<1> USE DEF StatsBounded, NftIssue, Headroom
<1>1. DOMAIN nstats' = DOMAIN nstats /\ n \in DOMAIN nstats
  OBVIOUS
<1>2. /\ nstats[n].supply + k \in 0..nstats[n].max_supply
      /\ nstats[n].supply + k \in Int
  BY DEF NStat
<1>3. nstats'[n] = [nstats[n] EXCEPT !.supply = @ + k]
  OBVIOUS
<1>4. /\ nstats'[n] \in NStat
      /\ nstats'[n].supply = nstats[n].supply + k
      /\ nstats'[n].max_supply = nstats[n].max_supply
  BY <1>2, <1>3 DEF NStat
<1>5. \A m \in DOMAIN nstats \ {n} : nstats'[m] = nstats[m]
  OBVIOUS
<1> QED
  BY <1>1, <1>2, <1>4, <1>5 DEF Supply

\* A new type starts with nothing minted.
LEMMA LedgerCreate ==
  ASSUME StatsBounded, NEW max \in MaxSupplies, NEW n \in Nids,
         NEW u \in Uris, NftCreate(SHOW, max, n, u, SHOW)
  PROVE  /\ StatsBounded'
         /\ \A m \in Nids : Supply(m)' = Supply(m)
<1> USE DEF StatsBounded, NftCreate, IsNewType, Put
<1>1. /\ DOMAIN nstats' = DOMAIN nstats \cup {n}
      /\ n \notin DOMAIN nstats
      /\ \A m \in DOMAIN nstats : nstats'[m] = nstats[m]
  OBVIOUS
<1>2. /\ nstats'[n] \in NStat
      /\ nstats'[n].supply = 0
      /\ nstats'[n].max_supply = max
  BY ShowAssumption, NftAssumption DEF NStat, ShowAssumption, NftAssumption
<1>3. max \in Nat /\ max < CountMod
  BY CountAssumption, NftAssumption DEF CountAssumption, NftAssumption
<1> QED
  BY <1>1, <1>2, <1>3 DEF Supply

-----------------------------------------------------------------------------
(***************************************************************************)
(* Actions.                                                                *)
(***************************************************************************)

\* issuenft books exactly what the ledger has minted.
LEMMA IssueNftStep ==
  ASSUME ShowInv, NEW sig, NEW s \in ShowIds, NEW n \in Nids, NEW k \in Nat,
         IssueNft(sig, s, n, k)
  PROVE  ShowInv'
<1> DEFINE row == tickets[<<s, n>>]
<1>1. /\ <<s, n>> \in DOMAIN tickets
      /\ NftIssue(SHOW, n, k)
      /\ tickets' = [tickets EXCEPT ![<<s, n>>] = Minted(row, k)]
      /\ UNCHANGED <<now, showGlobal, shows>>
  BY DEF IssueNft
<1>2. /\ StatsBounded'
      /\ Supply(n)' = Supply(n) + k
      /\ \A m \in Nids \ {n} : Supply(m)' = Supply(m)
  BY <1>1, LedgerIssue DEF ShowInv
<1>3. Supply(n)' \in Nat /\ Supply(n)' < CountMod
  BY <1>2, CountAssumption DEF StatsBounded, Supply, CountAssumption, NStat
<1>4. BooksOK(row, n)
  BY <1>1 DEF ShowInv, Books
<1>5. Minted(row, k) = [row EXCEPT !.total_count = @ + k,
                                   !.stock_count = @ + k]
  <2>1. /\ row.total_count \in Nat /\ row.stock_count \in Nat
        /\ row.stock_count <= row.total_count
        /\ row.total_count <= Supply(n) /\ Supply(n) \in Nat
    BY <1>4, SupplyBounds DEF BooksOK, Ticket, ShowInv
  <2>2. /\ row.total_count + k \in Nat /\ row.total_count + k < CountMod
        /\ row.stock_count + k \in Nat /\ row.stock_count + k < CountMod
    BY <2>1, <1>2, <1>3, CountAssumption DEF CountAssumption
  <2>3. /\ Wrap(row.total_count + k) = row.total_count + k
        /\ Wrap(row.stock_count + k) = row.stock_count + k
    BY <2>2, WrapSmall
  <2> QED
    BY <2>3 DEF Minted
<1>6. /\ Minted(row, k) \in Ticket
      /\ Minted(row, k).stock_count <= Minted(row, k).total_count
      /\ Minted(row, k).total_count <= Supply(n)'
      /\ Minted(row, k).issued_count = Minted(row, k).sold_count
      /\ Minted(row, k).sold_count <= Supply(n)'
  <2>1. row \in Ticket
    BY <1>4 DEF BooksOK
  <2>2. Supply(n) \in Nat
    BY SupplyBounds DEF ShowInv
  <2>3. /\ row.total_count + k \in Nat /\ row.stock_count + k \in Nat
        /\ row.stock_count + k <= row.total_count + k
        /\ row.total_count + k <= Supply(n) + k
        /\ row.issued_count = row.sold_count
        /\ row.sold_count <= Supply(n) + k
    BY <1>4, <2>1, <2>2 DEF BooksOK, Ticket
  <2>4. /\ Minted(row, k) \in Ticket
        /\ Minted(row, k).total_count = row.total_count + k
        /\ Minted(row, k).stock_count = row.stock_count + k
        /\ Minted(row, k).sold_count = row.sold_count
        /\ Minted(row, k).issued_count = row.issued_count
    BY <1>5, <2>1, <2>3 DEF Ticket
  <2> HIDE DEF row
  <2> QED
    BY <1>2, <2>3, <2>4
<1>7. Books'
  <2>1. DOMAIN tickets' = DOMAIN tickets
    BY <1>1
  <2>2. tickets'[<<s, n>>] = Minted(row, k)
    BY <1>1
  <2>3. ASSUME NEW t \in DOMAIN tickets, t # <<s, n>>
        PROVE  BooksOK(tickets[t], t[2])'
    <3>1. tickets'[t] = tickets[t]
      BY <1>1, <2>3
    <3>2. BooksOK(tickets[t], t[2]) /\ t[2] \in Nids
      BY <2>3 DEF ShowInv, Books
    <3>3. Supply(t[2]) \in Nat /\ Supply(t[2])' >= Supply(t[2])
      BY <1>2, <3>2, SupplyBounds DEF ShowInv
    <3>4. Supply(t[2])' \in Nat
      BY <1>2, <3>2, <3>3
    <3> QED
      BY <3>1, <3>2, <3>3, <3>4 DEF BooksOK, Ticket
  <2> QED
    BY <1>6, <2>1, <2>2, <2>3 DEF Books, BooksOK, ShowInv
<1> QED
  BY <1>1, <1>2, <1>7 DEF ShowInv, Calendar

\* Creating a type at the ledger leaves the books alone.
LEMMA CreateNftStep ==
  ASSUME ShowInv, NEW sig, NEW max \in MaxSupplies, NEW n \in Nids,
         NEW u \in Uris, CreateNft(sig, max, n, u)
  PROVE  ShowInv'
<1>1. /\ StatsBounded'
      /\ \A m \in Nids : Supply(m)' = Supply(m)
      /\ UNCHANGED <<now, showVars>>
  BY LedgerCreate DEF CreateNft, ShowInv
<1>2. \A t \in DOMAIN tickets : t[2] \in Nids
  BY DEF ShowInv, Books
<1>3. Books'
  BY <1>1, <1>2 DEF Books, BooksOK, showVars, ShowInv
<1> QED
  BY <1>1, <1>3 DEF ShowInv, Calendar, showVars

\* issue, batchreward and buyticket.
LEMMA BookIssuesStep ==
  ASSUME ShowInv, NEW s \in ShowIds, NEW n \in Nids, NEW k \in Nat,
         NEW times \in Nat, BookIssues(s, n, k, times), UNCHANGED nstats
  PROVE  ShowInv'
<1>1. k * times \in Nat
  OBVIOUS
<1>2. BooksOK(Sold(tickets[<<s, n>>], k * times), n)
  BY <1>1, SoldOK DEF BookIssues, HasStock, SoldFits, ShowInv, Books
<1>3. Books'
  BY <1>2, RowChange DEF BookIssues, ShowInv
<1> QED
  BY <1>3 DEF BookIssues, ShowInv, Calendar, StatsBounded

\* A row rewritten within its bounds, everything else as it was.
LEMMA RowStep ==
  ASSUME ShowInv, NEW s, NEW n, <<s, n>> \in DOMAIN tickets,
         NEW row, BooksOK(row, n),
         tickets' = [tickets EXCEPT ![<<s, n>>] = row],
         UNCHANGED <<now, showGlobal, shows, nstats>>
  PROVE  ShowInv'
<1>1. Books'
  BY RowChange DEF ShowInv
<1> QED
  BY <1>1 DEF ShowInv, Calendar, StatsBounded

\* Tickets handed to grab.cisum leave the stock, not the total.
LEMMA IssueToGrabStep ==
  ASSUME ShowInv, NEW sig, NEW to, NEW s, NEW n, NEW k \in Nat,
         IssueToGrab(sig, to, s, n, k)
  PROVE  ShowInv'
<1>1. BooksOK(HandedOver(tickets[<<s, n>>], k), n)
  BY HandedOverOK DEF IssueToGrab, HasStock, ShowInv, Books
<1> QED
  BY <1>1, RowStep DEF IssueToGrab, NftTransfer

\* A write-off keeps the books.
LEMMA ShowRetireStep ==
  ASSUME ShowInv, NEW s, NEW n, NEW k \in Nat, ShowRetire(s, n, k)
  PROVE  ShowInv'
<1>1. BooksOK(WrittenOff(tickets[<<s, n>>], k), n)
  BY WrittenOffOK DEF ShowRetire, HasStock, ShowInv, Books
<1> QED
  BY <1>1, RowStep DEF ShowRetire, nftVars

\* A return that the handler accepts fits the total.
LEMMA ReturnStep ==
  ASSUME ShowInv, NEW s, NEW n, NEW k \in Nat, OnReturnFromGrab(s, n, k),
         UNCHANGED <<now, nstats>>
  PROVE  ShowInv'
<1>1. BooksOK(Returned(tickets[<<s, n>>], k), n)
  BY ReturnedOK DEF OnReturnFromGrab, ShowInv, Books
<1> QED
  BY <1>1, RowStep DEF OnReturnFromGrab

\* A grade starts empty and keeps its counts when it is rewritten.
LEMMA GradeStep ==
  ASSUME ShowInv, NEW sig, NEW s \in ShowIds, NEW n \in Nids,
         NEW usdt \in UsdtPrices, NEW w \in SaleWindows,
         NewTicket(sig, s, n, usdt, w) \/ SetTicket(sig, s, n, usdt, w)
  PROVE  ShowInv'
<1>1. usdt \in Nat /\ w[1] \in Nat /\ w[2] \in Nat
  BY ShowAssumption DEF ShowAssumption
<1>2. CASE NewTicket(sig, s, n, usdt, w)
  <2>1. /\ <<s, n>> \notin DOMAIN tickets
        /\ tickets' = Put(tickets, <<s, n>>, FreshGrade(usdt, w))
        /\ UNCHANGED <<now, showGlobal, shows, nstats>>
    BY <1>2 DEF NewTicket, CanList, nftVars
  <2>2. BooksOK(FreshGrade(usdt, w), n)
    BY <1>1, SupplyBounds DEF BooksOK, FreshGrade, Ticket, ShowInv
  <2>3. /\ DOMAIN tickets' = DOMAIN tickets \cup {<<s, n>>}
        /\ tickets'[<<s, n>>] = FreshGrade(usdt, w)
        /\ \A t \in DOMAIN tickets : tickets'[t] = tickets[t]
    BY <2>1 DEF Put
  <2>4. Books'
    BY <2>1, <2>2, <2>3 DEF Books, BooksOK, Supply, ShowInv
  <2> QED
    BY <2>1, <2>4 DEF ShowInv, Calendar, StatsBounded
<1>3. CASE SetTicket(sig, s, n, usdt, w)
  <2> DEFINE row == [tickets[<<s, n>>] EXCEPT !.price_usdt = usdt,
                                              !.sale_started_at = w[1],
                                              !.sale_ended_at = w[2]]
  <2>1. /\ <<s, n>> \in DOMAIN tickets
        /\ UNCHANGED <<now, showGlobal, shows, nstats>>
    BY <1>3 DEF SetTicket, nftVars
  <2>2. BooksOK(tickets[<<s, n>>], n)
    BY <2>1 DEF ShowInv, Books
  <2>3. BooksOK(row, n)
    BY <1>1, <2>2 DEF BooksOK, Ticket
  <2>4. tickets' = [tickets EXCEPT ![<<s, n>>] = row]
    BY <1>3, <2>2 DEF SetTicket, BooksOK, Ticket
  <2> HIDE DEF row
  <2> QED
    BY <2>1, <2>3, <2>4, RowStep
<1> QED
  BY <1>2, <1>3

\* The show rows, and the removal of a show with all its grades.
LEMMA ShowRowStep ==
  ASSUME ShowInv, NEW sig, NEW s \in ShowIds,
         \/ \E dates \in ShowDates :
              NewShow(sig, s, dates) \/ SetShow(sig, s, dates)
         \/ DelShow(sig, s)
  PROVE  ShowInv'
<1>1. CASE \E dates \in ShowDates :
             NewShow(sig, s, dates) \/ SetShow(sig, s, dates)
  <2>1. PICK dates \in ShowDates :
               NewShow(sig, s, dates) \/ SetShow(sig, s, dates)
    BY <1>1
  <2>2. dates[1] \in Nat /\ dates[2] \in Nat
    BY ShowAssumption DEF ShowAssumption
  <2>3. UNCHANGED <<now, showGlobal, tickets, nstats>>
    BY <2>1 DEF NewShow, SetShow, nftVars
  <2>4. /\ DOMAIN shows' \subseteq ShowIds
        /\ \A x \in DOMAIN shows' :
             shows'[x] \in [show_started_at : Nat, show_ended_at : Nat]
    BY <2>1, <2>2 DEF NewShow, SetShow, Put, ShowInv, Calendar
  <2>5. Books'
    BY <2>3, BooksKept DEF ShowInv
  <2> QED
    BY <2>3, <2>4, <2>5 DEF ShowInv, Calendar, StatsBounded
<1>2. CASE DelShow(sig, s)
  <2>1. /\ DOMAIN tickets' \subseteq DOMAIN tickets
        /\ \A t \in DOMAIN tickets' : tickets'[t] = tickets[t]
        /\ UNCHANGED <<now, showGlobal, nstats>>
        /\ DOMAIN shows' \subseteq DOMAIN shows
        /\ \A x \in DOMAIN shows' : shows'[x] = shows[x]
    BY <1>2 DEF DelShow, Drop, nftVars
  <2>2. Books'
    BY <2>1 DEF Books, BooksOK, Supply, ShowInv
  <2> QED
    BY <2>1, <2>2 DEF ShowInv, Calendar, StatsBounded
<1> QED
  BY <1>1, <1>2

\* Steps that leave the books and every supply alone.
LEMMA QuietStep ==
  ASSUME ShowInv, UNCHANGED <<shows, tickets, nstats>>,
         now' \in 0..MaxTime,
         showGlobal' \in [admin : Accounts \cup {NoName},
                          nft_bank : {NoName, TICKET}]
  PROVE  ShowInv'
BY BooksKept DEF ShowInv, Calendar, StatsBounded

-----------------------------------------------------------------------------
\* Every step keeps the invariant.
LEMMA ShowStep ==
  ASSUME ShowInv, [ShowNext]_<<now, showVars, nftVars>>
  PROVE  ShowInv'
<1>1. \A k \in Amounts : k \in Nat
  BY NftAssumption DEF NftAssumption
<1>2. CASE Catalogue
  <2>1. CASE \E a \in ConfigAccts : Configure(a, TICKET)
    <3>1. PICK a \in ConfigAccts : Configure(a, TICKET)
      BY <2>1
    <3>2. a \in Accounts
      BY NftAssumption DEF NftAssumption
    <3> QED
      BY <3>1, <3>2, QuietStep DEF Configure, nftVars, ShowInv, Calendar
  <2>2. CASE \E sig \in Accounts, s \in ShowIds :
               \/ \E dates \in ShowDates : NewShow(sig, s, dates)
               \/ \E dates \in ShowDates : SetShow(sig, s, dates)
               \/ DelShow(sig, s)
    BY <2>2, ShowRowStep
  <2>3. CASE \E sig \in Accounts, s \in ShowIds :
               \E n \in Nids, usdt \in UsdtPrices, w \in SaleWindows :
                 NewTicket(sig, s, n, usdt, w) \/ SetTicket(sig, s, n, usdt, w)
    BY <2>3, GradeStep
  <2> QED
    BY <1>2, <2>1, <2>2, <2>3 DEF Catalogue
<1>3. CASE Stock
  <2>1. CASE \E sig \in Accounts, n \in Nids, max \in MaxSupplies, u \in Uris :
               CreateNft(sig, max, n, u)
    BY <2>1, CreateNftStep
  <2>2. CASE \E s \in ShowIds, n \in Nids, k \in Amounts : ShowRetire(s, n, k)
    BY <1>1, <2>2, ShowRetireStep
  <2>3. ASSUME NEW sig \in Accounts, NEW s \in ShowIds, NEW n \in Nids,
               NEW k \in Amounts,
               \/ IssueNft(sig, s, n, k)
               \/ \E a \in Fans : ShowIssue(sig, a, s, n, k)
               \/ \E a \in Fans : IssueToGrab(sig, a, s, n, k)
               \/ \E batch \in Batches : BatchReward(sig, s, n, k, batch)
               \/ \E a \in Fans, pay \in UsdtPrices :
                    BuyTicket(sig, a, pay, s, n, k)
        PROVE  ShowInv'
    <3>1. k \in Nat
      BY <1>1
    <3>2. CASE IssueNft(sig, s, n, k)
      BY <3>1, <3>2, IssueNftStep
    <3>3. CASE \E a \in Fans : IssueToGrab(sig, a, s, n, k)
      BY <3>1, <3>3, IssueToGrabStep
    <3>4. CASE \/ \E a \in Fans : ShowIssue(sig, a, s, n, k)
               \/ \E a \in Fans, pay \in UsdtPrices :
                    BuyTicket(sig, a, pay, s, n, k)
      <4>1. BookIssues(s, n, k, 1) /\ UNCHANGED nstats
        BY <3>4 DEF ShowIssue, BuyTicket, NftTransfer
      <4> QED
        BY <3>1, <4>1, BookIssuesStep
    <3>5. CASE \E batch \in Batches : BatchReward(sig, s, n, k, batch)
      <4>1. PICK batch \in Batches : BatchReward(sig, s, n, k, batch)
        BY <3>5
      <4>2. Len(batch) \in Nat
        BY ShowAssumption DEF ShowAssumption
      <4>3. BookIssues(s, n, k, Len(batch)) /\ UNCHANGED nstats
        BY <4>1 DEF BatchReward
      <4> QED
        BY <3>1, <4>2, <4>3, BookIssuesStep
    <3> QED
      BY <2>3, <3>2, <3>3, <3>4, <3>5
  <2> QED
    BY <1>3, <2>1, <2>2, <2>3 DEF Stock
<1>4. CASE Holders
  <2>1. UNCHANGED <<now, showVars, nstats>>
    BY <1>4 DEF Holders, NftTransfer, AddWhitelist, DelWhitelist, SetNftWhite
  <2> QED
    BY <2>1, QuietStep DEF showVars, ShowInv, Calendar
<1>5. CASE GrabStub
  <2>1. PICK s \in ShowIds, n \in Nids, k \in Amounts :
          \/ \E sig \in Accounts : IssueToGrab(sig, GRAB, s, n, k)
          \/ /\ \E a \in Fans : NftTransfer(a, GRAB, Single(n, k))
             /\ UNCHANGED <<now, showVars>>
          \/ /\ OnReturnFromGrab(s, n, k)
             /\ NftTransfer(GRAB, SHOW, Single(n, k))
             /\ UNCHANGED now
    BY <1>5 DEF GrabStub
  <2>2. CASE \E sig \in Accounts : IssueToGrab(sig, GRAB, s, n, k)
    BY <1>1, <2>2, IssueToGrabStep
  <2>3. CASE /\ \E a \in Fans : NftTransfer(a, GRAB, Single(n, k))
             /\ UNCHANGED <<now, showVars>>
    BY <2>3, QuietStep DEF NftTransfer, showVars, ShowInv, Calendar
  <2>4. CASE /\ OnReturnFromGrab(s, n, k)
             /\ NftTransfer(GRAB, SHOW, Single(n, k))
             /\ UNCHANGED now
    BY <1>1, <2>4, ReturnStep DEF NftTransfer
  <2> QED
    BY <2>1, <2>2, <2>3, <2>4
<1>6. CASE Tick
  <2>1. now' \in 0..MaxTime
    BY <1>6, ShowAssumption DEF Tick, ShowInv, Calendar, ShowAssumption
  <2> QED
    BY <1>6, <2>1, QuietStep DEF Tick, showVars, nftVars, ShowInv, Calendar
<1>7. CASE UNCHANGED <<now, showVars, nftVars>>
  BY <1>7, QuietStep DEF showVars, nftVars, ShowInv, Calendar
<1> QED
  BY <1>2, <1>3, <1>4, <1>5, <1>6, <1>7 DEF ShowNext

\* show.cisum starts with no grades.
LEMMA ShowStart == ShowInit => ShowInv
BY ShowAssumption
   DEF ShowInit, NftInit, ShowInv, Calendar, StatsBounded, Books, EmptyTable,
       ShowAssumption

\* Every table of show.cisum keeps its type: no count is ever negative.
THEOREM ShowTypes == ShowSpec => []ShowTypeOK
<1>1. ShowInv => ShowTypeOK
  BY DEF ShowInv, Calendar, Books, BooksOK, ShowTypeOK
<1> QED
  BY <1>1, ShowStart, ShowStep, PTL DEF ShowSpec

\* The stock never exceeds the total, nor the total what was minted, so the
\* unchecked subtraction of retire never wraps around.
THEOREM StockStaysWithinTotal == ShowSpec => []StockWithinTotal
<1>1. ShowInv => StockWithinTotal
  BY DEF ShowInv, Books, BooksOK, StockWithinTotal
<1> QED
  BY <1>1, ShowStart, ShowStep, PTL DEF ShowSpec

\* The sale counters agree and no grade is sold beyond what was minted.
THEOREM NothingOversold == ShowSpec => []SoldIsIssued
<1>1. ShowInv => SoldIsIssued
  BY DEF ShowInv, Books, BooksOK, SoldIsIssued
<1> QED
  BY <1>1, ShowStart, ShowStep, PTL DEF ShowSpec

-----------------------------------------------------------------------------
(***************************************************************************)
(* The books against the ledger.  StockBacked is not inductive for the     *)
(* books of one row: a type may be sold by several shows, and a row may be *)
(* deleted with its stock.  What every step keeps is the surplus of        *)
(* show.cisum, its balance of a type less the stock of that type.          *)
(***************************************************************************)

\* The accounts the tickets move between.
LEMMA Parties == SHOW \in Accounts /\ GRAB \in Accounts /\ Fans \subseteq Accounts
BY ShowAssumption DEF ShowAssumption

\* What completes ShowInv for the sums over the books: a well-formed ledger and
\* finitely many grades.
Holdings == IsHoldings(bal) /\ IsFiniteSet(DOMAIN tickets)

\* What one step may not do: lower what show.cisum owns beyond its stock.
SurplusKept == \A n \in Nids : bal[SHOW][n] - StockOf(n) <= bal'[SHOW][n] - StockOf(n)'

\* A transfer of one type between two accounts.
LEMMA SingleMoves ==
  ASSUME IsHoldings(bal), NEW a \in Accounts, NEW b \in Accounts, NEW n \in Nids,
         NEW k \in Nat, NftTransfer(a, b, Single(n, k))
  PROVE  /\ IsHoldings(bal') /\ a # b
         /\ bal'[a][n] = bal[a][n] - k /\ bal'[b][n] = bal[b][n] + k
         /\ \A c \in Accounts, m \in Nids :
              c \notin {a, b} \/ m # n => bal'[c][m] = bal[c][m]
<1>1. /\ a # b /\ (k > 0 => bal[a][n] >= k)
      /\ \A m \in Nids : Single(n, k)[m] = IF m = n THEN k ELSE 0
  BY DEF NftTransfer, CanMove, Single
<1>2. bal[a][n] >= k
  BY <1>1 DEF IsHoldings
<1>3. /\ bal'[a] = [m \in Nids |-> bal[a][m] - Single(n, k)[m]]
      /\ bal'[b] = [m \in Nids |-> bal[b][m] + Single(n, k)[m]]
      /\ \A c \in Accounts \ {a, b} : bal'[c] = bal[c]
      /\ bal' = [c \in Accounts |-> bal'[c]]
  BY <1>1 DEF NftTransfer, Move, IsHoldings
<1>4. /\ bal'[a][n] = bal[a][n] - k /\ bal'[b][n] = bal[b][n] + k
      /\ \A c \in Accounts, m \in Nids :
           c \notin {a, b} \/ m # n => bal'[c][m] = bal[c][m]
  BY <1>1, <1>3 DEF IsHoldings
<1>5. \A c \in Accounts : bal'[c] = [m \in Nids |-> bal'[c][m]]
  BY <1>3 DEF IsHoldings
<1>6. \A c \in Accounts, m \in Nids : bal'[c][m] \in Nat
  <2>1. \A c \in Accounts, m \in Nids : bal[c][m] \in Nat
    BY DEF IsHoldings
  <2>2. bal'[a][n] \in Nat /\ bal'[b][n] \in Nat
    BY <1>2, <1>4, <2>1
  <2> QED
    BY <1>4, <2>1, <2>2
<1>7. IsHoldings(bal')
  BY <1>3, <1>5, <1>6 DEF IsHoldings
<1> QED
  BY <1>1, <1>4, <1>7

\* The stock of a type is a count.
LEMMA StockIsNat ==
  ASSUME Books, IsFiniteSet(DOMAIN tickets), NEW n
  PROVE  StockOf(n) \in Nat
<1> DEFINE f == [t \in DOMAIN tickets |-> IF t[2] = n THEN tickets[t].stock_count ELSE 0]
<1>1. f \in [DOMAIN tickets -> Nat]
  BY DEF Books, BooksOK, Ticket
<1> HIDE DEF f
<1>2. SumFunction(f) \in Nat
  BY <1>1, SumIsNat
<1> QED
  BY <1>2 DEF StockOf, f

\* The stock of a type follows the stock_count of the row that is rewritten.
LEMMA StockOfRow ==
  ASSUME Books, IsFiniteSet(DOMAIN tickets), NEW t \in DOMAIN tickets, NEW row \in Ticket,
         NEW d \in Int, row.stock_count = tickets[t].stock_count + d,
         tickets' = [tickets EXCEPT ![t] = row], NEW n
  PROVE  /\ DOMAIN tickets' = DOMAIN tickets
         /\ StockOf(n)' = StockOf(n) + (IF t[2] = n THEN d ELSE 0)
<1> DEFINE D == DOMAIN tickets
           f == [u \in D |-> IF u[2] = n THEN tickets[u].stock_count ELSE 0]
           g == [u \in D |-> IF u[2] = n THEN tickets'[u].stock_count ELSE 0]
           e == IF t[2] = n THEN d ELSE 0
<1>1. DOMAIN tickets' = D /\ tickets'[t] = row /\ \A u \in D \ {t} : tickets'[u] = tickets[u]
  OBVIOUS
<1>2. \A u \in D : tickets[u].stock_count \in Int
  BY DEF Books, BooksOK, Ticket
<1>3. f \in [D -> Int]
  BY <1>2
<1>4. \A u \in D : tickets'[u].stock_count \in Int
  BY <1>1, <1>2 DEF Ticket
<1>5. g \in [D -> Int]
  BY <1>4
<1>6. e \in Int /\ g[t] = f[t] + e
  BY <1>1, <1>2
<1>7. \A u \in D \ {t} : g[u] = f[u]
  BY <1>1
<1>8. StockOf(n) = SumFunction(f) /\ StockOf(n)' = SumFunction(g)
  BY <1>1 DEF StockOf
<1>9. IsFiniteSet(D) /\ t \in D
  OBVIOUS
<1>10. StockOf(n)' = StockOf(n) + e
  <2> HIDE DEF f, g, e, D
  <2>1. SumFunction(g) = SumFunction(f) + e
    BY <1>3, <1>5, <1>6, <1>7, <1>9, SumMoves
  <2> QED
    BY <1>8, <2>1
<1> QED
  BY <1>1, <1>10

\* A row's stock grows by no more than the balance of its type.
LEMMA RowSurplus ==
  ASSUME ShowInv, Holdings, NEW t \in DOMAIN tickets, NEW row \in Ticket,
         NEW d \in Int, row.stock_count = tickets[t].stock_count + d,
         tickets' = [tickets EXCEPT ![t] = row], IsHoldings(bal'),
         bal'[SHOW][t[2]] >= bal[SHOW][t[2]] + d,
         \A m \in Nids \ {t[2]} : bal'[SHOW][m] >= bal[SHOW][m]
  PROVE  Holdings' /\ SurplusKept
<1>1. ASSUME NEW m \in Nids
      PROVE  bal[SHOW][m] - StockOf(m) <= bal'[SHOW][m] - StockOf(m)'
  <2>1. StockOf(m) \in Nat
    BY StockIsNat DEF ShowInv, Holdings
  <2>2. StockOf(m)' = StockOf(m) + (IF t[2] = m THEN d ELSE 0)
    BY StockOfRow DEF ShowInv, Holdings
  <2>3. bal[SHOW][m] \in Nat /\ bal'[SHOW][m] \in Nat
    BY <1>1, Parties DEF Holdings, IsHoldings
  <2>4. bal'[SHOW][m] >= bal[SHOW][m] + (IF t[2] = m THEN d ELSE 0)
    BY <2>3
  <2> QED
    BY <2>1, <2>2, <2>3, <2>4
<1>2. DOMAIN tickets' = DOMAIN tickets
  OBVIOUS
<1> QED
  BY <1>1, <1>2 DEF Holdings, SurplusKept

\* The books rest and show.cisum loses no token.
LEMMA LedgerSurplus ==
  ASSUME ShowInv, Holdings, UNCHANGED tickets, IsHoldings(bal'),
         \A m \in Nids : bal'[SHOW][m] >= bal[SHOW][m]
  PROVE  Holdings' /\ SurplusKept
<1>1. ASSUME NEW m \in Nids
      PROVE  bal[SHOW][m] - StockOf(m) <= bal'[SHOW][m] - StockOf(m)'
  <2>1. StockOf(m) \in Nat
    BY StockIsNat DEF ShowInv, Holdings
  <2>2. StockOf(m)' = StockOf(m)
    BY DEF StockOf
  <2>3. bal[SHOW][m] \in Nat /\ bal'[SHOW][m] \in Nat
    BY <1>1, Parties DEF Holdings, IsHoldings
  <2> QED
    BY <2>1, <2>2, <2>3
<1> QED
  BY <1>1 DEF Holdings, SurplusKept

\* Wrapping around never raises a count.
LEMMA WrapAtMost ==
  ASSUME NEW c \in Nat
  PROVE  Wrap(c) \in Nat /\ Wrap(c) <= c
BY CountAssumption DEF Wrap, CountAssumption

\* One row gives up q of stock (takes on - q when q is negative).
StockFalls(t, q) ==
  /\ t \in DOMAIN tickets
  /\ tickets' = [tickets EXCEPT ![t] = tickets'[t]]
  /\ tickets'[t].stock_count = tickets[t].stock_count - q

\* show.cisum loses at most q of type n and nothing of another.
OwnFallsBy(n, q) ==
  /\ IsHoldings(bal')
  /\ bal'[SHOW][n] >= bal[SHOW][n] - q
  /\ \A m \in Nids \ {n} : bal'[SHOW][m] >= bal[SHOW][m]

\* Stock given up covers the tokens that leave.
LEMMA TakenSurplus ==
  ASSUME ShowInv, ShowInv', Holdings, NEW t, NEW q \in Int,
         StockFalls(t, q), OwnFallsBy(t[2], q)
  PROVE  Holdings' /\ SurplusKept
<1>1. PICK d \in Int : d = - q
  OBVIOUS
<1> DEFINE row == tickets'[t]
<1>2. t \in DOMAIN tickets /\ row \in Ticket
  BY DEF ShowInv, Books, BooksOK, StockFalls
<1>3. tickets[t].stock_count \in Int /\ t[2] \in Nids
  BY <1>2 DEF ShowInv, Books, BooksOK, Ticket
<1>4. bal[SHOW][t[2]] \in Int
  BY <1>3, Parties DEF Holdings, IsHoldings
<1>5. /\ row.stock_count = tickets[t].stock_count + d
      /\ bal'[SHOW][t[2]] >= bal[SHOW][t[2]] + d
      /\ \A m \in Nids \ {t[2]} : bal'[SHOW][m] >= bal[SHOW][m]
      /\ tickets' = [tickets EXCEPT ![t] = row] /\ IsHoldings(bal')
  BY <1>1, <1>3, <1>4 DEF StockFalls, OwnFallsBy
<1> HIDE DEF row
<1> QED
  BY <1>2, <1>5, RowSurplus

\* A transfer out of show.cisum booked in full.
LEMMA GiveSurplus ==
  ASSUME ShowInv, ShowInv', Holdings, NEW s, NEW n \in Nids, NEW k \in Nat,
         <<s, n>> \in DOMAIN tickets, NEW to \in Accounts, NEW row,
         row.stock_count = tickets[<<s, n>>].stock_count - k,
         tickets' = [tickets EXCEPT ![<<s, n>>] = row],
         NftTransfer(SHOW, to, Single(n, k))
  PROVE  Holdings' /\ SurplusKept
<1>1. /\ IsHoldings(bal')
      /\ bal'[SHOW][n] = bal[SHOW][n] - k
      /\ \A m \in Nids \ {n} : bal'[SHOW][m] = bal[SHOW][m]
  BY SingleMoves, Parties DEF Holdings
<1>2. \A m \in Nids : bal[SHOW][m] \in Int
  BY Parties DEF Holdings, IsHoldings
<1>3. <<s, n>>[2] = n
  OBVIOUS
<1>4. OwnFallsBy(n, k)
  BY <1>1, <1>2 DEF OwnFallsBy
<1>5. StockFalls(<<s, n>>, k)
  BY DEF StockFalls
<1> QED
  BY <1>3, <1>4, <1>5, TakenSurplus

\* issue, buyticket and issuetograb.
LEMMA GivenSurplus ==
  ASSUME ShowInv, ShowInv', Holdings, NEW sig, NEW to \in Accounts, NEW s, NEW n \in Nids,
         NEW k \in Nat,
         \/ ShowIssue(sig, to, s, n, k)
         \/ \E pay \in UsdtPrices : BuyTicket(sig, to, pay, s, n, k)
         \/ IssueToGrab(sig, to, s, n, k)
  PROVE  Holdings' /\ SurplusKept
<1>1. <<s, n>> \in DOMAIN tickets /\ NftTransfer(SHOW, to, Single(n, k))
  BY DEF ShowIssue, BuyTicket, IssueToGrab, BookIssues
<1>2. tickets[<<s, n>>] \in Ticket
  BY <1>1 DEF ShowInv, Books, BooksOK
<1>3. CASE IssueToGrab(sig, to, s, n, k)
  <2>1. tickets' = [tickets EXCEPT ![<<s, n>>] = HandedOver(tickets[<<s, n>>], k)]
    BY <1>3 DEF IssueToGrab
  <2>2. HandedOver(tickets[<<s, n>>], k).stock_count = tickets[<<s, n>>].stock_count - k
    BY <1>2 DEF HandedOver, Ticket
  <2> QED
    BY <1>1, <2>1, <2>2, GiveSurplus
<1>4. CASE \/ ShowIssue(sig, to, s, n, k)
           \/ \E pay \in UsdtPrices : BuyTicket(sig, to, pay, s, n, k)
  <2>1. k * 1 = k
    OBVIOUS
  <2>2. tickets' = [tickets EXCEPT ![<<s, n>>] = Sold(tickets[<<s, n>>], k)]
    BY <1>4, <2>1 DEF ShowIssue, BuyTicket, BookIssues
  <2>3. Sold(tickets[<<s, n>>], k).stock_count = tickets[<<s, n>>].stock_count - k
    BY <1>2 DEF Sold, Ticket
  <2> QED
    BY <1>1, <2>2, <2>3, GiveSurplus
<1> QED
  BY <1>3, <1>4

\* batchreward: the sum of its inline issues.
LEMMA RewardSurplus ==
  ASSUME ShowInv, ShowInv', Holdings, NEW sig, NEW s, NEW n \in Nids, NEW k \in Nat,
         NEW batch \in Seq(Accounts), BatchReward(sig, s, n, k, batch)
  PROVE  Holdings' /\ SurplusKept
<1> DEFINE cnt == Len(batch)
           Listed(a) == Cardinality({i \in 1..cnt : batch[i] = a})
           Given(a) == [m \in Nids |-> IF m = n THEN k * Listed(a) ELSE 0]
           t == <<s, n>>
           q == k * cnt
<1>1. /\ BookIssues(s, n, k, cnt)
      /\ bal[SHOW][n] >= q
      /\ bal' = [a \in Accounts |->
                   IF a = SHOW
                     THEN [bal[a] EXCEPT ![n] = @ - q]
                     ELSE [m \in Nids |-> bal[a][m] + Given(a)[m]]]
  BY DEF BatchReward
<1>2. cnt \in Nat /\ q \in Nat
  OBVIOUS
<1>3. ASSUME NEW a PROVE Listed(a) \in Nat
  <2>1. IsFiniteSet(1..cnt)
    BY <1>2, FS_Interval
  <2>2. IsFiniteSet({i \in 1..cnt : batch[i] = a})
    BY <2>1, FS_Subset
  <2> QED
    BY <2>2, FS_CardinalityType
<1>4. ASSUME NEW a, NEW m \in Nids PROVE Given(a)[m] \in Nat
  <2> HIDE DEF Listed
  <2> QED
    BY <1>3
<1>5. /\ bal \in [Accounts -> [Nids -> Nat]] /\ SHOW \in Accounts
      /\ bal[SHOW] \in [Nids -> Nat]
  BY Parties DEF Holdings, IsHoldings
<1>6. IsHoldings(bal')
  <2> HIDE DEF Given, q
  <2>1. bal[SHOW][n] - q \in Nat
    BY <1>1, <1>2, <1>5
  <2>2. [bal[SHOW] EXCEPT ![n] = @ - q] \in [Nids -> Nat]
    BY <1>5, <2>1
  <2>3. \A a \in Accounts : [m \in Nids |-> bal[a][m] + Given(a)[m]] \in [Nids -> Nat]
    <3>1. \A a \in Accounts, m \in Nids : bal[a][m] + Given(a)[m] \in Nat
      BY <1>4, <1>5
    <3> QED
      BY <3>1
  <2>4. \A a \in Accounts : bal'[a] \in [Nids -> Nat]
    BY <1>1, <2>2, <2>3
  <2>5. bal' = [a \in Accounts |-> bal'[a]]
    BY <1>1
  <2> QED
    BY <2>4, <2>5 DEF IsHoldings
<1>7. /\ bal'[SHOW][n] = bal[SHOW][n] - q
      /\ \A m \in Nids \ {n} : bal'[SHOW][m] = bal[SHOW][m]
  <2> HIDE DEF Given, q
  <2>1. bal'[SHOW] = [bal[SHOW] EXCEPT ![n] = @ - q]
    BY <1>1, <1>5
  <2> QED
    BY <1>5, <2>1
<1>8. t \in DOMAIN tickets /\ t[2] = n /\ tickets[t] \in Ticket
  BY <1>1 DEF BookIssues, ShowInv, Books, BooksOK
<1>9. /\ tickets' = [tickets EXCEPT ![t] = Sold(tickets[t], q)]
      /\ Sold(tickets[t], q).stock_count = tickets[t].stock_count - q
  BY <1>1, <1>8 DEF BookIssues, Sold, Ticket
<1>10. OwnFallsBy(t[2], q)
  <2> HIDE DEF Given, q, t
  <2> QED
    BY <1>2, <1>5, <1>6, <1>7, <1>8 DEF OwnFallsBy
<1>11. StockFalls(t, q)
  <2> HIDE DEF Given, q, t
  <2> QED
    BY <1>8, <1>9 DEF StockFalls
<1> HIDE DEF t, q, Given
<1> QED
  BY <1>2, <1>10, <1>11, TakenSurplus

\* issuenft: the books take on at most what the ledger has minted.
LEMMA MintSurplus ==
  ASSUME ShowInv, ShowInv', Holdings, NEW sig, NEW s, NEW n \in Nids, NEW k \in Nat,
         IssueNft(sig, s, n, k)
  PROVE  Holdings' /\ SurplusKept
<1> DEFINE t == <<s, n>>
<1>1. /\ t \in DOMAIN tickets /\ t[2] = n
      /\ tickets' = [tickets EXCEPT ![t] = Minted(tickets[t], k)]
      /\ bal' = [bal EXCEPT ![SHOW][n] = @ + k]
  BY DEF IssueNft, NftIssue
<1>2. tickets[t] \in Ticket
  BY <1>1 DEF ShowInv, Books, BooksOK
<1>3. tickets[t].stock_count \in Nat
  BY <1>2 DEF Ticket
<1>4. /\ Minted(tickets[t], k).stock_count = Wrap(tickets[t].stock_count + k)
      /\ Wrap(tickets[t].stock_count + k) \in Nat
      /\ Wrap(tickets[t].stock_count + k) <= tickets[t].stock_count + k
  BY <1>2, <1>3, WrapAtMost DEF Minted, Ticket
<1> HIDE DEF t, Wrap, Minted
<1>5. PICK q \in Int : q = tickets[t].stock_count - Wrap(tickets[t].stock_count + k)
  BY <1>3, <1>4
<1>6. - k <= q
  BY <1>3, <1>4, <1>5
<1>7. StockFalls(t, q)
  BY <1>1, <1>3, <1>4, <1>5 DEF StockFalls
<1>8. bal \in [Accounts -> [Nids -> Nat]] /\ SHOW \in Accounts
  BY Parties DEF Holdings, IsHoldings
<1>9. /\ IsHoldings(bal')
      /\ bal'[SHOW][n] = bal[SHOW][n] + k
      /\ \A m \in Nids \ {n} : bal'[SHOW][m] = bal[SHOW][m]
  BY <1>1, <1>8 DEF IsHoldings
<1>10. \A m \in Nids : bal[SHOW][m] \in Int
  BY <1>8
<1>11. OwnFallsBy(t[2], q)
  BY <1>1, <1>6, <1>9, <1>10 DEF OwnFallsBy
<1> QED
  BY <1>7, <1>11, TakenSurplus

\* retire: stock is written off, the tokens stay.
LEMMA RetireSurplus ==
  ASSUME ShowInv, ShowInv', Holdings, NEW s, NEW n \in Nids, NEW k \in Nat,
         ShowRetire(s, n, k)
  PROVE  Holdings' /\ SurplusKept
<1> DEFINE t == <<s, n>>
<1>1. /\ t \in DOMAIN tickets /\ t[2] = n
      /\ tickets' = [tickets EXCEPT ![t] = WrittenOff(tickets[t], k)]
      /\ bal' = bal
  BY DEF ShowRetire, nftVars
<1>2. tickets[t] \in Ticket
  BY <1>1 DEF ShowInv, Books, BooksOK
<1>3. WrittenOff(tickets[t], k).stock_count = tickets[t].stock_count - k
  BY <1>2 DEF WrittenOff, Ticket
<1> HIDE DEF t, WrittenOff
<1>4. StockFalls(t, k)
  BY <1>1, <1>3 DEF StockFalls
<1>5. \A m \in Nids : bal[SHOW][m] \in Nat
  BY Parties DEF Holdings, IsHoldings
<1>6. IsHoldings(bal')
  BY <1>1 DEF Holdings
<1>7. \A m \in Nids : bal'[SHOW][m] >= bal[SHOW][m] - k /\ bal'[SHOW][m] >= bal[SHOW][m]
  BY <1>1, <1>5
<1>8. OwnFallsBy(t[2], k)
  BY <1>1, <1>6, <1>7 DEF OwnFallsBy
<1> QED
  BY <1>4, <1>8, TakenSurplus

\* A return from grab.cisum brings in the tokens it books.
LEMMA ReturnSurplus ==
  ASSUME ShowInv, ShowInv', Holdings, NEW s, NEW n \in Nids, NEW k \in Nat,
         OnReturnFromGrab(s, n, k), NftTransfer(GRAB, SHOW, Single(n, k))
  PROVE  Holdings' /\ SurplusKept
<1> DEFINE t == <<s, n>>
<1>1. /\ t \in DOMAIN tickets /\ t[2] = n
      /\ tickets' = [tickets EXCEPT ![t] = Returned(tickets[t], k)]
  BY DEF OnReturnFromGrab
<1>2. tickets[t] \in Ticket
  BY <1>1 DEF ShowInv, Books, BooksOK
<1>3. tickets[t].stock_count \in Nat
  BY <1>2 DEF Ticket
<1>4. /\ Returned(tickets[t], k).stock_count = Wrap(tickets[t].stock_count + k)
      /\ Wrap(tickets[t].stock_count + k) \in Nat
      /\ Wrap(tickets[t].stock_count + k) <= tickets[t].stock_count + k
  BY <1>2, <1>3, WrapAtMost DEF Returned, Ticket
<1>5. /\ IsHoldings(bal') /\ GRAB # SHOW
      /\ bal'[SHOW][n] = bal[SHOW][n] + k
      /\ \A m \in Nids \ {n} : bal'[SHOW][m] = bal[SHOW][m]
  BY SingleMoves, Parties, ShowAssumption DEF Holdings, ShowAssumption
<1> HIDE DEF t, Wrap, Returned
<1>6. PICK q \in Int : q = tickets[t].stock_count - Wrap(tickets[t].stock_count + k)
  BY <1>3, <1>4
<1>7. - k <= q
  BY <1>3, <1>4, <1>6
<1>8. StockFalls(t, q)
  BY <1>1, <1>3, <1>4, <1>6 DEF StockFalls
<1>9. \A m \in Nids : bal[SHOW][m] \in Int
  BY Parties DEF Holdings, IsHoldings
<1>10. OwnFallsBy(t[2], q)
  BY <1>1, <1>5, <1>7, <1>9 DEF OwnFallsBy
<1> QED
  BY <1>8, <1>10, TakenSurplus

\* setticket keeps the counts of the row.
LEMMA SetTicketSurplus ==
  ASSUME ShowInv, ShowInv', Holdings, NEW sig, NEW s, NEW n \in Nids, NEW usdt, NEW w,
         SetTicket(sig, s, n, usdt, w)
  PROVE  Holdings' /\ SurplusKept
<1> DEFINE t == <<s, n>>
<1>1. /\ t \in DOMAIN tickets /\ t[2] = n /\ bal' = bal
      /\ tickets' = [tickets EXCEPT ![t] = tickets'[t]]
  BY DEF SetTicket, nftVars
<1>2. tickets[t] \in Ticket
  BY <1>1 DEF ShowInv, Books, BooksOK
<1>3. tickets'[t].stock_count = tickets[t].stock_count - 0
  BY <1>1, <1>2 DEF SetTicket, Ticket
<1> HIDE DEF t
<1>4. StockFalls(t, 0)
  BY <1>1, <1>3 DEF StockFalls
<1>5. \A m \in Nids : bal[SHOW][m] \in Nat
  BY Parties DEF Holdings, IsHoldings
<1>6. IsHoldings(bal')
  BY <1>1 DEF Holdings
<1>7. \A m \in Nids : bal'[SHOW][m] >= bal[SHOW][m] - 0 /\ bal'[SHOW][m] >= bal[SHOW][m]
  BY <1>1, <1>5
<1>8. OwnFallsBy(t[2], 0)
  BY <1>1, <1>6, <1>7 DEF OwnFallsBy
<1> QED
  BY <1>4, <1>8, TakenSurplus

\* newticket adds a row without stock.
LEMMA NewTicketSurplus ==
  ASSUME ShowInv, Holdings, NEW sig, NEW s, NEW n \in Nids, NEW usdt, NEW w,
         NewTicket(sig, s, n, usdt, w)
  PROVE  Holdings' /\ SurplusKept
<1> DEFINE D == DOMAIN tickets
           f(m) == [u \in D |-> IF u[2] = m THEN tickets[u].stock_count ELSE 0]
           g(m) == [u \in D \cup {<<s, n>>} |-> IF u[2] = m THEN tickets'[u].stock_count ELSE 0]
<1>1. /\ DOMAIN tickets' = D \cup {<<s, n>>} /\ <<s, n>> \notin D
      /\ tickets'[<<s, n>>].stock_count = 0
      /\ \A u \in D : tickets'[u] = tickets[u]
      /\ bal' = bal
  BY DEF NewTicket, CanList, Put, FreshGrade, nftVars
<1>2. \A u \in D : tickets[u].stock_count \in Int
  BY DEF ShowInv, Books, BooksOK, Ticket
<1>3. IsFiniteSet(D) /\ IsFiniteSet(DOMAIN tickets')
  BY <1>1, FS_AddElement DEF Holdings
<1>4. ASSUME NEW m \in Nids
      PROVE  bal[SHOW][m] - StockOf(m) <= bal'[SHOW][m] - StockOf(m)'
  <2>1. f(m) \in [D -> Int] /\ g(m) \in [D \cup {<<s, n>>} -> Int]
    BY <1>1, <1>2
  <2>2. \A u \in D : g(m)[u] = f(m)[u]
    BY <1>1
  <2>3. g(m)[<<s, n>>] = 0
    BY <1>1
  <2>4. StockOf(m) = SumFunction(f(m)) /\ StockOf(m)' = SumFunction(g(m))
    BY <1>1 DEF StockOf
  <2>5. SumFunction(f(m)) \in Int /\ SumFunction(g(m)) = SumFunction(f(m)) + g(m)[<<s, n>>]
    <3> DEFINE F == f(m)  G == g(m)  x == <<s, n>>
    <3> HIDE DEF f, g, D
    <3>1. /\ F \in [D -> Int] /\ G \in [D \cup {x} -> Int] /\ x \notin D
          /\ \A u \in D : G[u] = F[u]
      BY <1>1, <2>1, <2>2
    <3>4. IsFiniteSet(D)
      BY <1>3
    <3> HIDE DEF F, G, D, x
    <3>2. SumFunction(F) \in Int
      BY <3>1, <3>4, SumIsInt
    <3>3. SumFunction(G) = SumFunction(F) + G[x]
      BY <3>1, <3>4, SumAddKey
    <3> QED
      BY <3>2, <3>3 DEF F, G, x
  <2>6. bal[SHOW][m] \in Int
    BY Parties DEF Holdings, IsHoldings
  <2> HIDE DEF f, g
  <2> QED
    BY <1>1, <2>3, <2>4, <2>5, <2>6
<1> QED
  BY <1>1, <1>3, <1>4 DEF Holdings, SurplusKept

\* delshow drops rows, whatever stock they had.
LEMMA DelShowSurplus ==
  ASSUME ShowInv, Holdings, NEW sig, NEW s, DelShow(sig, s)
  PROVE  Holdings' /\ SurplusKept
<1> DEFINE D == DOMAIN tickets
           T == {u \in D : u[1] # s}
           f(m) == [u \in D |-> IF u[2] = m THEN tickets[u].stock_count ELSE 0]
           g(m) == [u \in T |-> IF u[2] = m THEN tickets'[u].stock_count ELSE 0]
<1>1. /\ DOMAIN tickets' = T /\ T \in SUBSET D
      /\ \A u \in T : tickets'[u] = tickets[u]
      /\ bal' = bal
  BY DEF DelShow, nftVars
<1>2. \A u \in D : tickets[u].stock_count \in Nat
  BY DEF ShowInv, Books, BooksOK, Ticket
<1>3. IsFiniteSet(D) /\ IsFiniteSet(T)
  BY <1>1, FS_Subset DEF Holdings
<1>4. ASSUME NEW m \in Nids
      PROVE  bal[SHOW][m] - StockOf(m) <= bal'[SHOW][m] - StockOf(m)'
  <2>1. f(m) \in [D -> Nat] /\ g(m) \in [T -> Nat]
    BY <1>1, <1>2
  <2>2. \A u \in T : g(m)[u] = f(m)[u]
    BY <1>1
  <2>3. StockOf(m) = SumFunction(f(m)) /\ StockOf(m)' = SumFunction(g(m))
    BY <1>1 DEF StockOf
  <2>4. SumFunction(f(m)) \in Nat /\ SumFunction(g(m)) \in Nat
    <3> HIDE DEF f, g, D, T
    <3> QED
      BY <1>3, <2>1, SumIsNat
  <2>5. SumFunction(g(m)) <= SumFunction(f(m))
    <3> HIDE DEF f, g, D, T
    <3> QED
      BY <1>1, <1>3, <2>1, <2>2, SumOfFewer
  <2>6. bal[SHOW][m] \in Int
    BY Parties DEF Holdings, IsHoldings
  <2> HIDE DEF f, g
  <2> QED
    BY <1>1, <2>3, <2>4, <2>5, <2>6
<1> QED
  BY <1>1, <1>3, <1>4 DEF Holdings, SurplusKept

\* Transfers by any other account.
LEMMA HolderSurplus ==
  ASSUME ShowInv, Holdings, NEW a \in Accounts, NEW b \in Accounts, a # SHOW,
         NEW n \in Nids, NEW k \in Nat, NftTransfer(a, b, Single(n, k)), UNCHANGED tickets
  PROVE  Holdings' /\ SurplusKept
<1>1. /\ IsHoldings(bal') /\ a # b
      /\ bal'[b][n] = bal[b][n] + k
      /\ \A c \in Accounts, m \in Nids :
              c \notin {a, b} \/ m # n => bal'[c][m] = bal[c][m]
  BY SingleMoves DEF Holdings
<1>2. \A m \in Nids : bal[SHOW][m] \in Nat
  BY Parties DEF Holdings, IsHoldings
<1>3. \A m \in Nids : bal'[SHOW][m] >= bal[SHOW][m]
  BY <1>1, <1>2, Parties
<1> QED
  BY <1>1, <1>3, LedgerSurplus

\* Steps that touch neither the books nor the balances.
LEMMA StillSurplus ==
  ASSUME ShowInv, Holdings, UNCHANGED <<tickets, bal>>
  PROVE  Holdings' /\ SurplusKept
<1>1. \A m \in Nids : bal[SHOW][m] \in Nat
  BY Parties DEF Holdings, IsHoldings
<1>2. \A m \in Nids : bal'[SHOW][m] >= bal[SHOW][m]
  BY <1>1
<1>3. IsHoldings(bal')
  BY DEF Holdings
<1> QED
  BY <1>2, <1>3, LedgerSurplus

\* The shows and their grades.
LEMMA CatalogueSurplus ==
  ASSUME ShowInv, ShowInv', Holdings, Catalogue
  PROVE  Holdings' /\ SurplusKept
<1>1. CASE \E a \in ConfigAccts : Configure(a, TICKET)
  BY <1>1, StillSurplus DEF Configure, nftVars
<1>2. CASE \E sig \in Accounts, s \in ShowIds, dates \in ShowDates :
             NewShow(sig, s, dates) \/ SetShow(sig, s, dates)
  BY <1>2, StillSurplus DEF NewShow, SetShow, nftVars
<1>3. CASE \E sig \in Accounts, s \in ShowIds : DelShow(sig, s)
  BY <1>3, DelShowSurplus
<1>4. CASE \E sig \in Accounts, s \in ShowIds, n \in Nids, usdt \in UsdtPrices,
             w \in SaleWindows :
             NewTicket(sig, s, n, usdt, w) \/ SetTicket(sig, s, n, usdt, w)
  BY <1>4, NewTicketSurplus, SetTicketSurplus
<1> QED
  BY <1>1, <1>2, <1>3, <1>4 DEF Catalogue

\* Minting, selling and writing off.
LEMMA StockSurplus ==
  ASSUME ShowInv, ShowInv', Holdings, Stock
  PROVE  Holdings' /\ SurplusKept
<1>1. \A k \in Amounts : k \in Nat
  BY NftAssumption DEF NftAssumption
<1>2. \A a \in Fans : a \in Accounts
  BY Parties
<1>3. CASE \E sig \in Accounts, n \in Nids, max \in MaxSupplies, u \in Uris :
             CreateNft(sig, max, n, u)
  BY <1>3, StillSurplus DEF CreateNft, NftCreate, showVars
<1>4. CASE \E s \in ShowIds, n \in Nids, k \in Amounts : ShowRetire(s, n, k)
  BY <1>1, <1>4, RetireSurplus
<1>5. CASE \E sig \in Accounts, s \in ShowIds, n \in Nids, k \in Amounts :
             IssueNft(sig, s, n, k)
  BY <1>1, <1>5, MintSurplus
<1>6. CASE \E sig \in Accounts, s \in ShowIds, n \in Nids, k \in Amounts, a \in Fans :
             \/ ShowIssue(sig, a, s, n, k)
             \/ IssueToGrab(sig, a, s, n, k)
             \/ \E pay \in UsdtPrices : BuyTicket(sig, a, pay, s, n, k)
  BY <1>1, <1>2, <1>6, GivenSurplus
<1>7. CASE \E sig \in Accounts, s \in ShowIds, n \in Nids, k \in Amounts, batch \in Batches :
             BatchReward(sig, s, n, k, batch)
  BY <1>1, <1>7, RewardSurplus, ShowAssumption DEF ShowAssumption
<1> QED
  BY <1>3, <1>4, <1>5, <1>6, <1>7 DEF Stock

\* Holders, grab.cisum and the clock.
LEMMA OthersSurplus ==
  ASSUME ShowInv, ShowInv', Holdings,
         Holders \/ GrabStub \/ Tick \/ UNCHANGED <<now, showVars, nftVars>>
  PROVE  Holdings' /\ SurplusKept
<1>1. \A k \in Amounts : k \in Nat
  BY NftAssumption DEF NftAssumption
<1>2. /\ SHOW \in Accounts /\ GRAB \in Accounts /\ GRAB # SHOW
      /\ \A a \in Fans : a \in Accounts /\ a # SHOW
  BY ShowAssumption DEF ShowAssumption
<1>3. CASE /\ \E a \in Fans, b \in Fans \cup {SHOW}, n \in Nids, k \in Amounts :
                NftTransfer(a, b, Single(n, k))
           /\ UNCHANGED <<now, showVars>>
  BY <1>1, <1>2, <1>3, HolderSurplus DEF showVars
<1>4. CASE \E s \in ShowIds, n \in Nids, k \in Amounts :
             /\ \E a \in Fans : NftTransfer(a, GRAB, Single(n, k))
             /\ UNCHANGED <<now, showVars>>
  BY <1>1, <1>2, <1>4, HolderSurplus DEF showVars
<1>5. CASE \E s \in ShowIds, n \in Nids, k \in Amounts, sig \in Accounts :
             IssueToGrab(sig, GRAB, s, n, k)
  BY <1>1, <1>2, <1>5, GivenSurplus
<1>6. CASE \E s \in ShowIds, n \in Nids, k \in Amounts :
             OnReturnFromGrab(s, n, k) /\ NftTransfer(GRAB, SHOW, Single(n, k))
  BY <1>1, <1>6, ReturnSurplus
<1>7. CASE UNCHANGED <<tickets, bal>>
  BY <1>7, StillSurplus
<1> QED
  BY <1>3, <1>4, <1>5, <1>6, <1>7
  DEF Holders, GrabStub, Tick, AddWhitelist, DelWhitelist, SetNftWhite, showVars, nftVars

\* Every step keeps the invariant and the surplus.
LEMMA SurplusStep ==
  ASSUME ShowInv, Holdings, [ShowNext]_<<now, showVars, nftVars>>
  PROVE  ShowInv' /\ Holdings' /\ SurplusKept
<1>1. ShowInv'
  BY ShowStep
<1> QED
  BY <1>1, CatalogueSurplus, StockSurplus, OthersSurplus DEF ShowNext

\* Nothing is owned and nothing is in stock at first.
LEMMA HoldingsStart == ShowInit => Holdings /\ StockBacked
<1> SUFFICES ASSUME ShowInit
             PROVE  Holdings /\ StockBacked
  OBVIOUS
<1>1. /\ bal = [a \in Accounts |-> [n \in Nids |-> 0]]
      /\ DOMAIN tickets = {}
  BY DEF ShowInit, NftInit, EmptyTable
<1>2. Holdings
  BY <1>1, FS_EmptySet DEF Holdings, IsHoldings
<1>3. ASSUME NEW n \in Nids
      PROVE  StockOf(n) <= bal[SHOW][n]
  <2> DEFINE f == [t \in DOMAIN tickets |-> IF t[2] = n THEN tickets[t].stock_count ELSE 0]
  <2>1. DOMAIN f = {} /\ StockOf(n) = SumFunction(f)
    BY <1>1 DEF StockOf
  <2> HIDE DEF f
  <2>2. SumFunction(f) = 0
    BY <2>1, SumOfNone
  <2> QED
    BY <1>1, <2>1, <2>2, Parties
<1> QED
  BY <1>2, <1>3 DEF StockBacked

\* No stock of a type is negative.
StocksAreCounts == \A n \in Nids : StockOf(n) \in Nat

\* The invariant bounds every stock from below.
LEMMA StockCounts == ShowInv /\ Holdings => StocksAreCounts
BY StockIsNat DEF ShowInv, Holdings, StocksAreCounts

\* Stock that is backed stays backed: its surplus does not shrink.
LEMMA BackedStep ==
  ASSUME ShowInv, Holdings, StockBacked, [ShowNext]_<<now, showVars, nftVars>>
  PROVE  StockBacked'
<1>1. ShowInv' /\ Holdings' /\ SurplusKept
  BY SurplusStep
<1>2. StocksAreCounts'
  BY <1>1, StockCounts, PTL
<1>3. ASSUME NEW n \in Nids
      PROVE  StockOf(n)' <= bal'[SHOW][n]
  <2>1. StockOf(n) \in Nat
    BY StockIsNat DEF ShowInv, Holdings
  <2>2. StockOf(n)' \in Nat
    BY <1>2 DEF StocksAreCounts
  <2>3. bal[SHOW][n] \in Nat /\ bal'[SHOW][n] \in Nat
    BY <1>1, Parties DEF Holdings, IsHoldings
  <2>4. StockOf(n) <= bal[SHOW][n]
    BY DEF StockBacked
  <2>5. bal[SHOW][n] - StockOf(n) <= bal'[SHOW][n] - StockOf(n)'
    BY <1>1 DEF SurplusKept
  <2> QED
    BY <2>1, <2>2, <2>3, <2>4, <2>5
<1> QED
  BY <1>3 DEF StockBacked

\* Over all the shows that sell a type, the stock on sale is covered by what
\* show.cisum owns of it at ticket.cvnft.
THEOREM StockIsDeliverable == ShowSpec => []StockBacked
<1>1. ShowInv /\ Holdings /\ StockBacked /\ [ShowNext]_<<now, showVars, nftVars>>
      => (ShowInv /\ Holdings /\ StockBacked)'
  BY SurplusStep, BackedStep
<1> QED
  BY <1>1, ShowStart, HoldingsStart, PTL DEF ShowSpec

\* Tickets that left the books never come back on sale: no operation lowers
\* what show.cisum owns beyond its stock.
THEOREM NothingComesBack == ShowSpec => RetiredStaysRetired
<1>1. ShowInv /\ Holdings /\ [ShowNext]_<<now, showVars, nftVars>> => (ShowInv /\ Holdings)'
  BY SurplusStep
<1>2. ShowInv /\ Holdings /\ [ShowNext]_<<now, showVars, nftVars>>
      => [\A n \in Nids : bal[SHOW][n] - StockOf(n) <= bal'[SHOW][n] - StockOf(n)']_
            <<now, showVars, nftVars>>
  BY SurplusStep DEF SurplusKept
<1> QED
  BY <1>1, <1>2, ShowStart, HoldingsStart, PTL DEF ShowSpec, RetiredStaysRetired
=============================================================================
