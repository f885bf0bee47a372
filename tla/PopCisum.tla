------------------------------ MODULE PopCisum ------------------------------
(***************************************************************************)
(* pop.cisum: proof of payment.  A payment made elsewhere in USDT earns a  *)
(* tenth of its value in SING, minted at sing.token as long as the pool    *)
(* and the cap allow it, and counts towards the badge rules.  A payment    *)
(* the pool cannot reward is skipped without an error.                     *)
(***************************************************************************)
EXTENDS BadgeRules, SingToken

CONSTANTS
  POP,          \* the account pop.cisum is deployed to
  SingCoin,     \* the symbol SING
  SingUnit,     \* 10^8, the smallest units of one SING
  Prices,       \* USDT units per SING the swap may quote
  Pays,         \* the payments mine is called with
  DefaultCap,   \* MAX_REWARDS_DEFAULT, the pool of a fresh deployment
  RewardCaps,   \* the maximum rewards that are configured
  PopAccts,     \* the accounts that act as executors
  MaxMines      \* bound: rewarded payments

ASSUME PopAssumption ==
  /\ {POP} \cup PopAccts \cup Spenders \subseteq Accounts
  /\ {POP} \cup Spenders \subseteq Parties
  /\ POP \in Minters /\ POP \notin Spenders /\ SingCoin \in Coins
  /\ {SingUnit, DefaultCap} \cup Prices \cup Pays \cup RewardCaps \subseteq Nat \ {0}
  /\ MaxMines \in Nat

VARIABLES
  max_rewards, available_rewards, issued_rewards,   \* the SING pool
  reward_usdt_accum,   \* the USDT the rewards are owed by the platform
  executors,           \* the accounts that may call mine
  receivable,          \* payer -> what it paid in all
  settled, mined       \* history: settled USDT, rewarded payments

pool == <<max_rewards, available_rewards, issued_rewards>>
popVars == <<pool, reward_usdt_accum, executors, receivable, settled, mined>>
popWorld == <<popVars, ruleTbl, storeVars, singVars>>

\* The pool never goes below zero.
PopTypeOK ==
  /\ max_rewards \in Nat /\ available_rewards \in Nat /\ issued_rewards \in Nat
  /\ reward_usdt_accum \in Nat
  /\ executors \subseteq Accounts
  /\ receivable \in [Spenders -> Nat]
  /\ settled \in Nat /\ mined \in Nat

\* mine may pay before init is ever called.
PopInit ==
  /\ max_rewards = DefaultCap /\ available_rewards = DefaultCap
  /\ issued_rewards = 0
  /\ reward_usdt_accum = 0 /\ executors = {} /\ settled = 0 /\ mined = 0
  /\ receivable = [u \in Spenders |-> 0]

-----------------------------------------------------------------------------
(***************************************************************************)
(* Configuration, signed by pop.cisum.                                     *)
(***************************************************************************)

PopConfigure(max) ==
  /\ max >= issued_rewards
  /\ max_rewards' = max
  /\ available_rewards' = max - issued_rewards
  /\ UNCHANGED <<issued_rewards, reward_usdt_accum, executors, receivable, settled, mined>>

\* What a lower cap leaves in the pool.
Truncated(available, max) == IF available > max THEN max ELSE available

\* A cap may be set below what was issued, and a raised cap adds nothing.
SetMaxReward(max) ==
  /\ max_rewards' = max
  /\ available_rewards' = Truncated(available_rewards, max)
  /\ UNCHANGED <<issued_rewards, reward_usdt_accum, executors, receivable, settled, mined>>

SetExecutors(who) ==
  /\ executors' = who
  /\ UNCHANGED <<pool, reward_usdt_accum, receivable, settled, mined>>
AddExecutor(acct) == acct # POP /\ SetExecutors(executors \cup {acct})
DelExecutor(acct) == SetExecutors(executors \ {acct})

Settle(amount) ==
  /\ amount <= reward_usdt_accum
  /\ reward_usdt_accum' = reward_usdt_accum - amount
  /\ settled' = settled + amount
  /\ UNCHANGED <<pool, executors, receivable, mined>>

-----------------------------------------------------------------------------
(***************************************************************************)
(* Mining.                                                                 *)
(***************************************************************************)

\* A tenth of the payment, rounded down; mutant: rounded up.
TenthUp(pay) == (pay + 9) \div 10
Tenth(pay) == pay \div 10

RewardOf(pay, price) == (Tenth(pay) * SingUnit) \div price

\* Both caps allow the reward.
CapsAllow(reward) ==
  /\ reward <= available_rewards
  /\ issued_rewards + reward <= max_rewards

\* The store hears of the badges a payment earns.
PopAwards(payer, before, after) == Announce(POP, STORE, payer, AwardPacks(before, after))

\* Minted, owed by the platform, counted as paid, and the rules applied.
MineRewarded(payer, pay, reward) ==
  LET before == receivable[payer]
      after == before + pay
  IN
  /\ mined < MaxMines /\ after <= MaxSpent
  /\ \A i \in DOMAIN tally : tally[i][payer].spent + pay <= MaxSpent
  /\ available_rewards' = available_rewards - reward
  /\ issued_rewards' = issued_rewards + reward
  /\ reward_usdt_accum' = reward_usdt_accum + Tenth(pay)
  /\ receivable' = [receivable EXCEPT ![payer] = after]
  /\ mined' = mined + 1
  /\ MintTo(POP, payer, SingCoin, reward)
  /\ Remember(payer, Currency, before, after)
  /\ PopAwards(payer, before, after)
  /\ UNCHANGED <<max_rewards, executors, settled, rules>>

\* Too small or beyond a cap: nothing changes, the payment is not counted.
MineSkipped(reward) ==
  /\ reward = 0 \/ ~ CapsAllow(reward)
  /\ UNCHANGED popWorld

Mine(signer, payer, pay, price) ==
  LET reward == RewardOf(pay, price)
  IN
  /\ signer \in executors \cup {POP}
  /\ \/ reward > 0 /\ CapsAllow(reward) /\ MineRewarded(payer, pay, reward)
     \/ MineSkipped(reward)

\* Rules name any badge, one that the store never created included.
SetRule(id, rule) == PutRule(id, rule) /\ UNCHANGED popVars
PopDelRule(id) == EraseRule(id) /\ UNCHANGED popVars

-----------------------------------------------------------------------------
PopConfig ==
  \/ \E m \in RewardCaps : PopConfigure(m) \/ SetMaxReward(m)
  \/ \E a \in PopAccts : AddExecutor(a) \/ DelExecutor(a)
  \/ \E q \in 1..MaxSpent : Settle(q)

PopRules ==
  \E id \in RuleIds : PopDelRule(id) \/ \E r \in Rule : SetRule(id, r)

Mining == \E s \in PopAccts \cup {POP}, u \in Spenders, pay \in Pays, price \in Prices :
            Mine(s, u, pay, price)

PopNext ==
  \/ PopConfig /\ UNCHANGED <<ruleTbl, storeVars, singVars>>
  \/ PopRules /\ UNCHANGED <<storeVars, singVars>>
  \/ Mining
  \/ (\E a, b \in Parties : SingTransfer(a, b, SingCoin, 1))
     /\ UNCHANGED <<popVars, ruleTbl, storeVars>>

\* The three contracts on one chain, from their deployment on.
PopSpec ==
  /\ PopInit /\ RulesInit /\ StoreInit /\ SingInit
  /\ [][\/ PopNext
        \/ StoreNext /\ UNCHANGED <<popVars, ruleTbl, singVars>>
        \/ (SingNext \/ Maintenance) /\ UNCHANGED <<popVars, ruleTbl, storeVars>>]_popWorld

-----------------------------------------------------------------------------
(***************************************************************************)
(* Properties.                                                             *)
(***************************************************************************)

\* The pool stays within the cap, however it is lowered and raised between
\* payments: setmaxreward truncates what init computed.
PoolWithinCap == available_rewards <= max_rewards

\* The platform owes a tenth of the rewarded payments, less what it settled:
\* rounding never makes it owe more, and skipped payments count in neither
\* table (global and the payers' receivable rows change together or not).
TenthOwed ==
  LET paid == SumFunction(receivable)
  IN  /\ 10 * (reward_usdt_accum + settled) <= paid
      /\ mined > 0 => paid < 10 * (reward_usdt_accum + settled + mined)

\* What payments earn stays within the budget: the pool within its cap, the debt
\* within a tenth of what was paid (init, setmaxreward, settle and
\* mine in every order).
RewardBudget == PoolWithinCap /\ TenthOwed
=============================================================================
