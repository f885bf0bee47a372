------------------------------ MODULE PoeCisum ------------------------------
(***************************************************************************)
(* poe.cisum: proof of engagement.  Operators pay CISUM that was           *)
(* transferred to the contract, as points of a reward code or as airdrops; *)
(* consumeact only takes points off the books, for a contract that minted  *)
(* the CISUM itself (poh.cisum).  The CISUM ledger is external: `bank` is  *)
(* what it keeps for poe.cisum.                                            *)
(***************************************************************************)
EXTENDS EosTable, FiniteSets, FiniteSetsExt, Sequences

CONSTANTS
  POE, POH,     \* the accounts poe.cisum and poh.cisum are deployed to
  Users,        \* the other accounts that exist
  Ghosts,       \* names of accounts that do not exist
  Codes,        \* reward codes
  PointSums,    \* the points of a code, 0 included
  Deposits,     \* the amounts transferred to poe.cisum
  ClaimLists,   \* sequences of [code, to] batchclaim is called with
  DropLists,    \* sequences of [to, quantity] batchairdrop is called with
  MaxClaims, MaxDrops,   \* 100 and 1000: the longest batch
  DropLimit,    \* 100000 CISUM: what one drop stays below
  MaxPoints     \* bound: what is ever deposited

ASSUME PoeAssumption ==
  /\ POE # POH /\ {POE, POH} \cap Users = {} /\ IsFiniteSet(Users)
  /\ PointSums \subseteq Nat /\ Deposits \subseteq Nat \ {0} /\ MaxPoints \in Nat
  /\ MaxClaims \in Nat /\ MaxDrops \in Nat /\ DropLimit \in Nat
  /\ \A claims \in ClaimLists :
       claims \in Seq([code : Codes, to : Users \cup Ghosts \cup {POE, POH}])
  /\ \A drops \in DropLists :
       drops \in Seq([to : Users \cup Ghosts \cup {POE, POH}, quantity : Int])

VARIABLES
  available_points, claimed_points, total_points, operators,   \* global
  rewardacts,   \* reward code -> points; the table is found by code
  bank,         \* the CISUM balance of poe.cisum
  consumed      \* history: signer -> points it took off the books

points == <<available_points, claimed_points, total_points>>
poeVars == <<points, operators, rewardacts, bank, consumed>>

PoeAccts == Users \cup {POE, POH}

PoeTypeOK ==
  /\ available_points \in Nat /\ claimed_points \in Nat /\ total_points \in Nat
  /\ operators \subseteq PoeAccts
  /\ DOMAIN rewardacts \subseteq Codes /\ rewardacts \in [DOMAIN rewardacts -> PointSums]
  /\ bank \in Nat
  /\ consumed \in [PoeAccts -> Nat]

PoeInit ==
  /\ available_points = 0 /\ claimed_points = 0 /\ total_points = 0
  /\ operators = {} /\ rewardacts = EmptyTable
  /\ bank = 0
  /\ consumed = [a \in PoeAccts |-> 0]

-----------------------------------------------------------------------------
(***************************************************************************)
(* Administration, signed by poe.cisum.                                    *)
(***************************************************************************)

AddRewardAct(code, pts) ==
  /\ rewardacts' = Put(rewardacts, code, pts)
  /\ UNCHANGED <<points, operators, bank, consumed>>

DelRewardAct(code) ==
  /\ code \in DOMAIN rewardacts
  /\ rewardacts' = Drop(rewardacts, code)
  /\ UNCHANGED <<points, operators, bank, consumed>>

SetOperators(who) ==
  /\ operators' = who
  /\ UNCHANGED <<points, rewardacts, bank, consumed>>
AddOperator(acct) == SetOperators(operators \cup {acct})
DelOperator(acct) == SetOperators(operators \ {acct})

-----------------------------------------------------------------------------
(***************************************************************************)
(* Giving points out.                                                      *)
(***************************************************************************)

\* What leaves the books; mutant: total_points is lowered, too.
TakeFromTotal(sum) ==
  /\ available_points' = available_points - sum
  /\ claimed_points' = claimed_points + sum
  /\ total_points' = total_points - sum
Take(sum) ==
  /\ available_points' = available_points - sum
  /\ claimed_points' = claimed_points + sum
  /\ UNCHANGED total_points

\* Claims of accounts that do not exist are passed over.
Counted(claims) == {i \in DOMAIN claims : claims[i].to \notin Ghosts}

\* Any claim that fails takes the batch with it; a code worth 0 points fails.
BatchClaim(claimer, claims) ==
  LET paid == Counted(claims)
      sum == SumFunction([i \in paid |-> rewardacts[claims[i].code]])
  IN
  /\ claimer \in operators
  /\ claims # <<>> /\ Len(claims) <= MaxClaims
  /\ \A i \in paid :
       /\ claims[i].to # POE
       /\ claims[i].code \in DOMAIN rewardacts /\ rewardacts[claims[i].code] > 0
  /\ sum <= available_points /\ sum <= bank
  /\ Take(sum)
  /\ bank' = bank - sum
  /\ UNCHANGED <<operators, rewardacts, consumed>>

\* What an airdrop must be covered by.
DropTotal(drops) == SumFunction([i \in DOMAIN drops |-> drops[i].quantity])

BatchAirdrop(oper, drops) ==
  LET total == DropTotal(drops)
      sent == SumFunction([i \in DOMAIN drops |-> drops[i].quantity])
  IN
  /\ oper \in operators
  /\ drops # <<>> /\ Len(drops) <= MaxDrops
  /\ \A i \in DOMAIN drops :
       /\ drops[i].to \notin Ghosts \cup {POE}
       /\ drops[i].quantity > 0 /\ drops[i].quantity < DropLimit
  /\ total <= bank /\ total <= available_points
  /\ Take(total)
  /\ sent <= bank
  /\ bank' = bank - sent
  /\ UNCHANGED <<operators, rewardacts, consumed>>

\* Nothing is transferred.  An operator is named, not asked to sign.
CanConsume(signer, submitter, code, amount) ==
  /\ signer \in {POE, POH} \/ submitter \in operators
  /\ code \in DOMAIN rewardacts
  /\ amount <= available_points

Consumption(amount) ==
  /\ available_points' = available_points - amount
  /\ claimed_points' = claimed_points + amount
  /\ total_points' = available_points - amount + claimed_points + amount

ConsumeAct(signer, submitter, code, amount) ==
  /\ CanConsume(signer, submitter, code, amount)
  /\ Consumption(amount)
  /\ consumed' = [consumed EXCEPT ![signer] = @ + amount]
  /\ UNCHANGED <<operators, rewardacts, bank>>

\* A transfer of CISUM to poe.cisum by somebody else.
OnDeposit(quantity) ==
  /\ total_points + quantity <= MaxPoints
  /\ available_points' = available_points + quantity
  /\ total_points' = available_points + quantity + claimed_points
  /\ bank' = bank + quantity
  /\ UNCHANGED <<claimed_points, operators, rewardacts, consumed>>

-----------------------------------------------------------------------------
PoeAdmin ==
  \/ \E c \in Codes : DelRewardAct(c) \/ \E p \in PointSums : AddRewardAct(c, p)
  \/ \E a \in PoeAccts : AddOperator(a) \/ DelOperator(a)

PoeNext ==
  \/ PoeAdmin
  \/ \E a \in PoeAccts :
       \/ \E cs \in ClaimLists : BatchClaim(a, cs)
       \/ \E ds \in DropLists : BatchAirdrop(a, ds)
       \/ \E s \in PoeAccts \ {POH}, c \in Codes, q \in PointSums : ConsumeAct(s, a, c, q)
  \/ \E q \in Deposits : OnDeposit(q)

PoeSpec == PoeInit /\ [][PoeNext]_poeVars

-----------------------------------------------------------------------------
ConsumedInAll == SumFunction(consumed)

\* The comment on the table holds: the total is what is available and what was
\* claimed, through claims, airdrops, consumptions and deposits.  The CISUM at
\* hand is what is available plus what was consumed for others: no claim is
\* short of tokens, and what consumeact took off the books is never given out
\* (_pay_points, batchairdrop, consumeact).
PointsBacked ==
  /\ total_points = available_points + claimed_points
  /\ bank = available_points + ConsumedInAll
=============================================================================
