---------------------------- MODULE CisumReserve ----------------------------
(***************************************************************************)
(* cisumreserve: pop.cisum pays USDT in and gets SING at the price of the  *)
(* swap, less a fee in basis points; every exchange is an order.  The two  *)
(* ledgers and the swap are external: reserves is what the ledgers keep    *)
(* for the contract, a price is any value.                                 *)
(***************************************************************************)
EXTENDS EosTable, FiniteSets, FiniteSetsExt

CONSTANTS
  RESERVE,      \* the account the contract is deployed to
  ReserveAdmins,   \* the accounts that administer it
  NoAdmin,      \* before init
  Fees,         \* the fees init and setfee are called with, in units of 1/Bps
  Bps,          \* 10000
  SingUnits,    \* 10^8
  SwapPrices,   \* USDT units per SING
  Usdts,        \* the payments of pop.cisum
  Stocked,      \* the SING the reserve starts with
  MaxOrders     \* bound: orders

ASSUME ReserveAssumption ==
  /\ RESERVE \notin ReserveAdmins /\ NoAdmin \notin ReserveAdmins \cup {RESERVE}
  /\ Bps \in Nat \ {0} /\ Fees \subseteq Nat
  /\ {SingUnits} \cup SwapPrices \cup Usdts \subseteq Nat \ {0} /\ Stocked \in Nat

VARIABLES
  reserve_admin, fee_bps, last_order_id,   \* global
  orders,      \* id -> [usdt_in, token_out, price, fee_bps]
  reserves     \* [usdt, sing]

reserveVars == <<reserve_admin, fee_bps, last_order_id, orders, reserves>>

Order == [usdt_in : Usdts, token_out : Nat \ {0}, price : SwapPrices, fee_bps : 0..Bps]

ReserveTypeOK ==
  /\ reserve_admin \in ReserveAdmins \cup {NoAdmin} /\ fee_bps \in 0..Bps /\ last_order_id \in Nat
  /\ DOMAIN orders \subseteq 1..MaxOrders /\ orders \in [DOMAIN orders -> Order]
  /\ reserves \in [usdt : Nat, sing : Nat]

ReserveInit ==
  /\ reserve_admin = NoAdmin /\ fee_bps = 0 /\ last_order_id = 0
  /\ orders = EmptyTable /\ reserves = [usdt |-> 0, sing |-> Stocked]

-----------------------------------------------------------------------------
FeeInRange(fee) == fee <= Bps

\* init may be called again: orders are then numbered from 1 once more.
InitReserve(admin, fee) ==
  /\ FeeInRange(fee)
  /\ reserve_admin' = admin /\ fee_bps' = fee /\ last_order_id' = 0
  /\ UNCHANGED <<orders, reserves>>

SetFee(submitter, fee) ==
  /\ submitter = reserve_admin
  /\ FeeInRange(fee)
  /\ fee_bps' = fee
  /\ UNCHANGED <<reserve_admin, last_order_id, orders, reserves>>

SetReserveAdmin(signer, admin) ==
  /\ signer \in {RESERVE, reserve_admin}
  /\ reserve_admin' = admin
  /\ UNCHANGED <<fee_bps, last_order_id, orders, reserves>>

\* The SING for a payment, before the fee; mutant: rounded up.
RoundedUp(usdt, price) == (usdt * SingUnits + price - 1) \div price
Exchanged(usdt, price) == (usdt * SingUnits) \div price

\* The fee is rounded down.
TokenOut(usdt, price) ==
  LET gross == Exchanged(usdt, price) IN gross - (gross * fee_bps) \div Bps

\* emplace refuses the id of an order from before an init.
OnUsdtTransfer(usdt, price) ==
  LET id == last_order_id + 1
      out == TokenOut(usdt, price)
  IN
  /\ id <= MaxOrders /\ id \notin DOMAIN orders
  /\ out > 0 /\ out <= reserves.sing
  /\ last_order_id' = id
  /\ orders' = Put(orders, id,
       [usdt_in |-> usdt, token_out |-> out, price |-> price, fee_bps |-> fee_bps])
  /\ reserves' = [usdt |-> reserves.usdt + usdt, sing |-> reserves.sing - out]
  /\ UNCHANGED <<reserve_admin, fee_bps>>

ReserveNext ==
  \/ \E a \in ReserveAdmins, f \in Fees : InitReserve(a, f) \/ SetFee(a, f)
  \/ \E s \in ReserveAdmins \cup {RESERVE}, a \in ReserveAdmins : SetReserveAdmin(s, a)
  \/ \E u \in Usdts, p \in SwapPrices : OnUsdtTransfer(u, p)

ReserveSpec == ReserveInit /\ [][ReserveNext]_reserveVars

-----------------------------------------------------------------------------
\* The orders account for everything that came in and went out, whatever
\* inits and fee changes happened between them (on_usdt_transfer).
OrdersAccount ==
  /\ reserves.usdt = SumFunction([i \in DOMAIN orders |-> orders[i].usdt_in])
  /\ Stocked - reserves.sing = SumFunction([i \in DOMAIN orders |-> orders[i].token_out])

\* No order is worth more than was paid for it: rounding favours the reserve
\* before the fee, and the fee, rounded the other way, gives back less than a
\* unit.
FairOrders ==
  \A i \in DOMAIN orders :
    LET o == orders[i]
    IN  /\ o.token_out * o.price <= o.usdt_in * SingUnits
        /\ (o.token_out - 1) * Bps * o.price < o.usdt_in * SingUnits * (Bps - o.fee_bps)

\* The orders are complete and fair.
ReserveAccounts == OrdersAccount /\ FairOrders
=============================================================================
