------------------------- MODULE MCTicketCirculation -------------------------
(* Small instances of the four contracts: a sale alone, an upgrade alone,  *)
(* both with cisumshowman, and the configuration of grab.cisum.            *)
EXTENDS TicketCirculation, TLC

Symmetry == Permutations(Fans) \cup Permutations(GrabIds)

None == [n \in Nids |-> 0]
NoExtras == {None}
WithExtras == {None, [n \in Nids |-> IF n = 1 THEN 1 ELSE 0]}
NoBatches == {}
NoDates == {}
Windows == {<<0, 1>>, <<0, 2>>}
Grade(stock, max, uri) ==
  [show |-> 1, stock |-> stock, max |-> max, uri |-> uri, usdt |-> 1,
   window |-> <<1, 2>>]
Price == [sym |-> "CISUM", amount |-> 1]
OnePrice == {Price}
NoPrice == {}
NoPay == {}
PayOne == {[nid |-> 1, amount |-> 1]}
PayTwo == {[nid |-> 1, amount |-> 1], [nid |-> 1, amount |-> 2]}

\* A sale of type 1.
SaleGrades == 1 :> Grade(1, 3, "u1")
SaleHeld == [u \in Fans |-> 1 :> 1]

\* An upgrade from type 1 to type 2.
UpgradeGrades == 1 :> Grade(0, 4, "u1") @@ 2 :> Grade(1, 1, "u2")
UpgradeHeld == [u \in Fans |-> 1 :> 2 @@ 2 :> 0]
OneHeld == [u \in Fans |-> 1 :> 1 @@ 2 :> 0]
BothGrades == 1 :> Grade(1, 2, "u1") @@ 2 :> Grade(1, 1, "u2")
NoPosters == {}
NoRushes == {}

\* Nothing published yet: cisumshowman publishes both types and opens a sale
\* of type 1 alone, with an upgrade from it to type 2, or two of them.
NoGrades == [n \in {} |-> 0]
NoneHeld == [u \in Fans |-> None]
Poster(uri) == [uri |-> uri, count |-> 2, usdt |-> 1, window |-> <<1, 2>>]
OnePoster == {1 :> Poster("u1") @@ 2 :> Poster("u2")}
Dates == {<<1, 2>>}
SaleOf1 ==
  [kind |-> "rushsale", nid |-> 1, count |-> 1, window |-> <<1, 2>>,
   ratio |-> 1, price |-> Price, limit |-> 1]
UpgradeTo2 ==
  [kind |-> "rushupgrade", nid |-> 2, count |-> 1, window |-> <<1, 2>>,
   ratio |-> 1, pay |-> [nid |-> 1, amount |-> 1]]
OneOrTwoRushes == {<<SaleOf1>>, <<SaleOf1, UpgradeTo2>>, <<SaleOf1, SaleOf1>>}
LateWindow == {<<1, 2>>}
=============================================================================
