------------------------------ MODULE BlindBox ------------------------------
(***************************************************************************)
(* blindboxgame: booths of blind boxes.  The owner of a booth fills it     *)
(* with NFTs, a buyer pays per NFT and gets a random selection.  A booth   *)
(* counts its NFTs and its kinds (boxes) apart from the map of boxes it    *)
(* draws from.  The NFT ledgers, the ledgers the price is paid in and the  *)
(* random source are external: `vault` is what the former keep for the     *)
(* contract, and a draw may come out anyhow.                               *)
(***************************************************************************)
EXTENDS EosTable, FiniteSets, FiniteSetsExt, Sequences

CONSTANTS
  BOX,             \* the account of the contract
  Admins, Nobody,  \* the admins init is called with, and none
  Owners,          \* the accounts that own booths
  NftContracts,    \* NFT ledgers
  Kinds,           \* NFT symbols, ordered as the map of boxes orders them
  Batches,         \* sequences of [kind, amount] that are sent to a booth
  BoxPrices,       \* prices of an NFT
  Payments,        \* the amounts buyers send
  Opens,           \* opening times
  Durations,       \* durations, 0 included
  MaxBoxes,        \* the values setmaxbox is called with
  MaxPurchase,     \* max_nfts_purchase
  Fixes,           \* the amounts fixboothbox is called with
  MaxBooths,       \* bound: booths ever created
  MaxNfts,         \* bound: NFTs of one booth
  MaxClock         \* bound: the clock

ASSUME BoxAssumption ==
  /\ BOX \notin Owners /\ Nobody \notin Owners \cup Admins
  /\ BoxPrices \cup Payments \subseteq Nat \ {0}
  /\ Kinds \subseteq Nat /\ Opens \cup Durations \cup Fixes \cup MaxBoxes \subseteq Nat
  /\ \A batch \in Batches : batch \in Seq([kind : Kinds, amount : Nat \ {0}])

VARIABLES
  box_admin, max_booth_boxes, last_booth_id,   \* global; init also sets the
                                               \* fund distributor
  booths,      \* id -> booth
  boxes,       \* booth id -> kind -> amount; the row outlives its last NFT
  vault,       \* <<NFT ledger, kind>> -> the balance of the contract
  time,        \* the clock
  stranded,    \* history: <<ledger, kind>> -> NFTs maintenance left without a box
  maintained   \* history: the booths whose boxes maintenance changed

boxGlobal == <<box_admin, max_booth_boxes, last_booth_id>>
boxVars == <<boxGlobal, booths, boxes, vault, time, stranded, maintained>>

\* The numbers 16 bits hold.
Width16 == 65536

Booth == [owner : Owners, nft_contract : NftContracts, price : BoxPrices, enabled : BOOLEAN,
          opened : Nat, closed : Nat, fund_recd : Nat,
          nft_num : Nat, nft_num_sum : Nat, nft_box_num : Int]

\* nft_box_num is unsigned: below 0 it stands for a value beyond any limit.
BoxTypeOK ==
  /\ box_admin \in Admins \cup {Nobody}
  /\ max_booth_boxes \in 0..(Width16 - 1) /\ last_booth_id \in Nat
  /\ DOMAIN booths \subseteq 1..last_booth_id /\ booths \in [DOMAIN booths -> Booth]
  /\ DOMAIN boxes \subseteq DOMAIN booths
  /\ \A b \in DOMAIN boxes :
       DOMAIN boxes[b] \subseteq Kinds /\ boxes[b] \in [DOMAIN boxes[b] -> Nat]
  /\ vault \in [NftContracts \X Kinds -> Nat] /\ time \in Nat
  /\ stranded \in [NftContracts \X Kinds -> Int] /\ maintained \subseteq Nat

BoxInit ==
  /\ box_admin = Nobody
  /\ max_booth_boxes = 30 /\ last_booth_id = 0
  /\ booths = EmptyTable /\ boxes = EmptyTable
  /\ vault = [n \in NftContracts \X Kinds |-> 0] /\ time = 0
  /\ stranded = [n \in NftContracts \X Kinds |-> 0] /\ maintained = {}

AmountOf(content) == SumFunction(content)

-----------------------------------------------------------------------------
(***************************************************************************)
(* Booths.                                                                 *)
(***************************************************************************)

BoxConfigure(admin) ==
  /\ box_admin' = admin
  /\ UNCHANGED <<max_booth_boxes, last_booth_id, booths, boxes, vault, time, stranded, maintained>>

\* The split plan is looked up at the fund distributor, so init came first.
CreateBooth(signer, owner, contract, price, opened, duration) ==
  LET id == last_booth_id + 1
  IN
  /\ signer \in {BOX, box_admin} /\ box_admin # Nobody
  /\ id <= MaxBooths
  /\ opened + duration > time
  /\ last_booth_id' = id
  /\ booths' = Put(booths, id,
       [owner |-> owner, nft_contract |-> contract, price |-> price, enabled |-> TRUE,
        opened |-> opened, closed |-> opened + duration, fund_recd |-> 0,
        nft_num |-> 0, nft_num_sum |-> 0, nft_box_num |-> 0])
  /\ UNCHANGED <<box_admin, max_booth_boxes, boxes, vault, time, stranded, maintained>>

MayManage(signer, b) == b \in DOMAIN booths /\ signer \in {booths[b].owner, BOX, box_admin}

EnableBooth(signer, b, enabled) ==
  /\ MayManage(signer, b)
  /\ booths[b].enabled # enabled
  /\ booths' = [booths EXCEPT ![b].enabled = enabled]
  /\ UNCHANGED <<boxGlobal, boxes, vault, time, stranded, maintained>>

SetBoothTime(signer, b, opened, closed) ==
  /\ MayManage(signer, b)
  /\ opened < closed /\ closed > time
  /\ booths' = [booths EXCEPT ![b].opened = opened, ![b].closed = closed]
  /\ UNCHANGED <<boxGlobal, boxes, vault, time, stranded, maintained>>

\* What closing sends back; mutant: only boxes of several NFTs.
Several(content) == {k \in DOMAIN content : content[k] > 1}
Refunded(content) == DOMAIN content

\* A disabled booth, and one that never had an NFT, cannot be closed.
CloseBooth(signer, b) ==
  LET contract == booths[b].nft_contract
      back == Refunded(boxes[b])
  IN
  /\ MayManage(signer, b) /\ booths[b].enabled
  /\ b \in DOMAIN boxes
  /\ \A k \in back : boxes[b][k] > 0 /\ boxes[b][k] <= vault[<<contract, k>>]
  /\ vault' = [n \in DOMAIN vault |->
       vault[n] - (IF n[1] = contract /\ n[2] \in back THEN boxes[b][n[2]] ELSE 0)]
  /\ boxes' = Drop(boxes, b)
  /\ booths' = Drop(booths, b)
  /\ UNCHANGED <<boxGlobal, time, stranded, maintained>>

-----------------------------------------------------------------------------
(***************************************************************************)
(* Filling a booth.                                                        *)
(***************************************************************************)

Content(b) == IF b \in DOMAIN boxes THEN boxes[b] ELSE EmptyTable
SentOf(batch, k) ==
  SumFunction([i \in DOMAIN batch |-> IF batch[i].kind = k THEN batch[i].amount ELSE 0])
KindsOf(batch) == {batch[i].kind : i \in DOMAIN batch}

\* The boxes a batch adds to; mutant: a kind the booth has had before starts
\* over.
Emptied(content, batch) ==
  [k \in DOMAIN content \cup KindsOf(batch) |->
     IF k \in KindsOf(batch) THEN SentOf(batch, k) ELSE content[k]]
Filled(content, batch) ==
  [k \in DOMAIN content \cup KindsOf(batch) |->
     (IF k \in DOMAIN content THEN content[k] ELSE 0) + SentOf(batch, k)]

\* A transfer of NFTs by the owner of the booth.
Fill(from, contract, b, batch) ==
  LET content == Content(b)
      added == SumFunction([k \in KindsOf(batch) |-> SentOf(batch, k)])
      kinds == booths[b].nft_box_num + Cardinality(KindsOf(batch) \ DOMAIN content)
  IN
  /\ b \in DOMAIN booths /\ booths[b].enabled
  /\ booths[b].nft_contract = contract /\ booths[b].owner = from
  /\ 0 <= kinds /\ kinds <= max_booth_boxes
  /\ booths[b].nft_num_sum + added <= MaxNfts
  /\ boxes' = Put(boxes, b, Filled(content, batch))
  /\ booths' = [booths EXCEPT ![b].nft_box_num = kinds, ![b].nft_num = @ + added,
                              ![b].nft_num_sum = @ + added]
  /\ vault' = [n \in DOMAIN vault |->
                 vault[n] + (IF n[1] = contract THEN SentOf(batch, n[2]) ELSE 0)]
  /\ UNCHANGED <<boxGlobal, time, stranded, maintained>>

-----------------------------------------------------------------------------
(***************************************************************************)
(* Buying.                                                                 *)
(***************************************************************************)

UpTo(content, k) == SumFunctionOnSet(content, {j \in DOMAIN content : j <= k})
Reached(content, r) == {k \in DOMAIN content : r <= UpTo(content, k)}

\* One draw: the box that number r of 1..nft_num falls into.
BoxOf(content, r) == Min(Reached(content, r))

OneLess(content, k) ==
  IF content[k] = 1 THEN Drop(content, k) ELSE [content EXCEPT ![k] = @ - 1]

\* The boxes after the first i of the draws; a draw beyond the boxes there are
\* reads past the end of the map, and no ledger moves the NFT it makes up.
After(content, draws) ==
  LET after[i \in 0..Len(draws)] ==
        IF i = 0 THEN content ELSE OneLess(after[i - 1], BoxOf(after[i - 1], draws[i]))
  IN  after

InRange(content, draws) ==
  \A i \in DOMAIN draws : Reached(After(content, draws)[i - 1], draws[i]) # {}

Drawn(content, left, k) ==
  (IF k \in DOMAIN content THEN content[k] ELSE 0) - (IF k \in DOMAIN left THEN left[k] ELSE 0)

\* What the booth is paid; the change goes back.
PaidFor(price, quantity) == price * (quantity \div price)

Buy(b, quantity, draws) ==
  LET booth == booths[b]
      count == quantity \div booth.price
      left == After(boxes[b], draws)[count]
      gone == Cardinality(DOMAIN boxes[b]) - Cardinality(DOMAIN left)
  IN
  /\ b \in DOMAIN booths /\ booth.enabled
  /\ booth.opened <= time /\ time <= booth.closed
  /\ 0 < count /\ count <= booth.nft_num /\ count <= MaxPurchase
  /\ Len(draws) = count
  /\ \A i \in DOMAIN draws : draws[i] <= booth.nft_num - i + 1
  /\ b \in DOMAIN boxes /\ InRange(boxes[b], draws)
  /\ \A k \in DOMAIN boxes[b] :
       Drawn(boxes[b], left, k) <= vault[<<booth.nft_contract, k>>]
  /\ booths' = [booths EXCEPT ![b].fund_recd = @ + PaidFor(booth.price, quantity),
                              ![b].nft_num = @ - count, ![b].nft_box_num = @ - gone]
  /\ boxes' = [boxes EXCEPT ![b] = left]
  /\ vault' = [n \in DOMAIN vault |->
       vault[n] - (IF n[1] = booth.nft_contract THEN Drawn(boxes[b], left, n[2]) ELSE 0)]
  /\ UNCHANGED <<boxGlobal, time, stranded, maintained>>

-----------------------------------------------------------------------------
(***************************************************************************)
(* Maintenance, signed by the contract account.                            *)
(***************************************************************************)

\* max_booth_boxes has 16 bits, the argument 64.
Narrow(max) == max % Width16

SetMaxBox(max) ==
  /\ max_booth_boxes' = Narrow(max)
  /\ UNCHANGED <<box_admin, last_booth_id, booths, boxes, vault, time, stranded, maintained>>

Strand(b, k, amount) ==
  /\ stranded' = [stranded EXCEPT ![<<booths[b].nft_contract, k>>] = @ + amount]
  /\ maintained' = maintained \cup {b}
  /\ UNCHANGED <<boxGlobal, booths, vault, time>>

\* delboothbox and fixboothbox touch the boxes only.
DelBoothBox(b, k) ==
  /\ b \in DOMAIN boxes
  /\ boxes' = [boxes EXCEPT ![b] = Drop(@, k)]
  /\ Strand(b, k, IF k \in DOMAIN boxes[b] THEN boxes[b][k] ELSE 0)

FixBoothBox(b, k, amount) ==
  /\ b \in DOMAIN boxes
  /\ boxes' = [boxes EXCEPT ![b] = Put(@, k, amount)]
  /\ Strand(b, k, (IF k \in DOMAIN boxes[b] THEN boxes[b][k] ELSE 0) - amount)

Passes == time < MaxClock /\ time' = time + 1
  /\ UNCHANGED <<boxGlobal, booths, boxes, vault, stranded, maintained>>

-----------------------------------------------------------------------------
Signers == Owners \cup Admins \cup {BOX}
DrawsOf(n) == UNION {[1..i -> 1..n] : i \in 1..MaxPurchase}

Managing ==
  \E s \in Signers, b \in 1..MaxBooths :
    \/ CloseBooth(s, b)
    \/ \E e \in BOOLEAN : EnableBooth(s, b, e)
    \/ \E o \in Opens, d \in Durations : SetBoothTime(s, b, o, o + d)

BoxNext ==
  \/ \E s \in Signers, o \in Owners, c \in NftContracts, p \in BoxPrices,
       t \in Opens, d \in Durations : CreateBooth(s, o, c, p, t, d)
  \/ Managing
  \/ \E o \in Owners, c \in NftContracts, b \in DOMAIN booths, batch \in Batches : Fill(o, c, b, batch)
  \/ \E b \in DOMAIN booths, q \in Payments, draws \in DrawsOf(MaxNfts) : Buy(b, q, draws)
  \/ \E m \in MaxBoxes : SetMaxBox(m)
  \/ \E a \in Admins : BoxConfigure(a)
  \/ Passes

Maintenance ==
  \E b \in DOMAIN boxes, k \in Kinds :
    DelBoothBox(b, k) \/ \E q \in Fixes : FixBoothBox(b, k, q)

BoxSpec == BoxInit /\ [][BoxNext \/ Maintenance]_boxVars

-----------------------------------------------------------------------------
(***************************************************************************)
(* Properties.                                                             *)
(***************************************************************************)

\* While no maintenance touched a booth, its two counters agree with the boxes
\* it draws from, so no draw falls beyond them (on_transfer_ntoken, _one_nft).
CountersMatchBoxes ==
  \A b \in DOMAIN booths : b \notin maintained =>
    /\ booths[b].nft_num = AmountOf(Content(b))
    /\ booths[b].nft_box_num = Cardinality(DOMAIN Content(b))

\* The contract holds for every kind exactly what the boxes of all booths say,
\* and what maintenance stranded: closing and buying take the NFTs of that
\* booth only.
BoxesBacked ==
  \A n \in DOMAIN vault :
    vault[n] = stranded[n]
      + SumFunction([b \in DOMAIN boxes |->
          IF booths[b].nft_contract = n[1] /\ n[2] \in DOMAIN boxes[b] THEN boxes[b][n[2]] ELSE 0])

\* A booth was paid its price for each NFT it gave out, however payments were
\* split and rounded.
PaidPerNft ==
  \A b \in DOMAIN booths :
    booths[b].fund_recd = booths[b].price * (booths[b].nft_num_sum - booths[b].nft_num)

\* What a booth says of itself is true of its boxes and of its buyers.
BoothsAddUp == CountersMatchBoxes /\ PaidPerNft
=============================================================================
