------------------------------ MODULE PohCisum ------------------------------
(***************************************************************************)
(* poh.cisum: proof of human.  The registrar reports a new account; the    *)
(* contract mints SING for the platform as far as the cap goes, a CISUM    *)
(* bonus for the newcomer and, if somebody invited it, points of the poe   *)
(* code invite for the inviter, which poe.cisum takes off its books, and   *)
(* rewards out of the funds the inviter deposited.  All of it is one       *)
(* transaction over the two contracts.  Token ledgers and the price of the *)
(* swap are external.                                                      *)
(***************************************************************************)
EXTENDS PoeCisum

CONSTANTS
  Inviters, Invitees,   \* the accounts of the two roles
  NoOne,                \* no account (name 0)
  Registrars,           \* the accounts init and setregistrar are called with
  FundTokens,           \* the tokens funds are deposited in
  Amounts,              \* the amounts of fund deposits and rewards
  Windows,              \* the <<start, end>> of deposits and of setfundinfo
  SingCaps,             \* the values of max_issued
  SingRewards,          \* what 20 USDT are worth in SING at the prices of the swap
  SingRoom, CisumRoom,  \* what the ledgers still let poh.cisum mint
  Bonus,                \* CISUM_BONUS
  Invite,               \* the reward code invite
  MaxFund,              \* bound: the balance of one fund token
  MaxNow                \* bound: the clock

ASSUME PohAssumption ==
  /\ Inviters \cup Invitees \cup Registrars \subseteq Users
  /\ NoOne \notin PoeAccts /\ Invite \in Codes
  /\ Amounts \cup SingRewards \cup SingCaps \cup {Bonus} \subseteq Nat \ {0}
  /\ Windows \subseteq Nat \X Nat
  /\ {SingRoom, CisumRoom, MaxFund, MaxNow} \subseteq Nat

VARIABLES
  platform_acct, registrar, max_issued, sing_issued, cisum_issued,   \* global
  funds,      \* <<inviter, token>> -> [available, reward, start, end]: the
              \* map balances of an inviter's row, which exists while it has one
  purse,      \* token -> the balance of poh.cisum
  clock,
  signups     \* history: rewarded newcomers

pohGlobal == <<platform_acct, registrar, max_issued, sing_issued, cisum_issued>>
pohVars == <<pohGlobal, funds, purse, clock, signups>>
pohWorld == <<pohVars, poeVars>>

Fund == [available : Nat \ {0}, reward : Nat \ {0}, start : Nat, end : Nat]

\* A fund that is used up is gone.
PohTypeOK ==
  /\ platform_acct \in PoeAccts \cup {NoOne} /\ registrar \in PoeAccts \cup {NoOne}
  /\ max_issued \in Nat /\ sing_issued \in Nat /\ cisum_issued \in Nat
  /\ DOMAIN funds \subseteq Inviters \X FundTokens /\ funds \in [DOMAIN funds -> Fund]
  /\ purse \in [FundTokens -> Nat]
  /\ clock \in Nat /\ signups \in Nat

PohInit ==
  /\ platform_acct = NoOne /\ registrar = NoOne
  /\ max_issued = 0 /\ sing_issued = 0 /\ cisum_issued = 0
  /\ funds = EmptyTable /\ purse = [t \in FundTokens |-> 0]
  /\ clock = 0 /\ signups = 0

-----------------------------------------------------------------------------
(***************************************************************************)
(* Configuration, signed by poh.cisum.                                     *)
(***************************************************************************)

CapFits(max) == max >= sing_issued

PohConfigure(platform, who, max) ==
  /\ CapFits(max)
  /\ platform_acct' = platform /\ registrar' = who /\ max_issued' = max
  /\ UNCHANGED <<sing_issued, cisum_issued, funds, purse, clock, signups>>

SetMaxIssued(max) ==
  /\ CapFits(max)
  /\ max_issued' = max
  /\ UNCHANGED <<platform_acct, registrar, sing_issued, cisum_issued, funds, purse, clock, signups>>

SetPlatform(platform) ==
  /\ platform_acct' = platform
  /\ UNCHANGED <<registrar, max_issued, sing_issued, cisum_issued, funds, purse, clock, signups>>

SetRegistrar(who) ==
  /\ registrar' = who
  /\ UNCHANGED <<platform_acct, max_issued, sing_issued, cisum_issued, funds, purse, clock, signups>>

-----------------------------------------------------------------------------
(***************************************************************************)
(* Funds.                                                                  *)
(***************************************************************************)

\* _merge_fund_balance_s; mutant: a new deposit replaces what is left.
Replaced(old, quantity) == quantity
Merged(old, quantity) == old + quantity

\* refuel:title:reward:start:end opens a fund or renews its terms.
RefuelWithTerms(inviter, token, quantity, reward, win) ==
  LET key == <<inviter, token>>
      old == IF key \in DOMAIN funds THEN funds[key].available ELSE 0
  IN
  /\ clock < win[1] /\ win[1] < win[2]
  /\ reward <= quantity
  /\ purse[token] + quantity <= MaxFund
  /\ funds' = Put(funds, key, [available |-> Merged(old, quantity), reward |-> reward,
                               start |-> win[1], end |-> win[2]])
  /\ purse' = [purse EXCEPT ![token] = @ + quantity]
  /\ UNCHANGED <<pohGlobal, clock, signups>>

\* refuel alone adds to a fund there is.
RefuelOnly(inviter, token, quantity) ==
  LET key == <<inviter, token>>
  IN
  /\ key \in DOMAIN funds
  /\ purse[token] + quantity <= MaxFund
  /\ funds' = [funds EXCEPT ![key].available = Merged(@, quantity)]
  /\ purse' = [purse EXCEPT ![token] = @ + quantity]
  /\ UNCHANGED <<pohGlobal, clock, signups>>

\* Only a new end is compared with the start.
SetFundInfo(signer, inviter, token, start, end) ==
  LET key == <<inviter, token>>
      from == IF start # {} THEN start ELSE {funds[key].start}
      to == IF end # {} THEN end ELSE {funds[key].end}
  IN
  /\ signer \in {POH, inviter, registrar}
  /\ key \in DOMAIN funds
  /\ \E s \in from, e \in to :
       /\ end # {} => e > s
       /\ funds' = [funds EXCEPT ![key].start = s, ![key].end = e]
  /\ UNCHANGED <<pohGlobal, purse, clock, signups>>

FundsOf(inviter) == {k \in DOMAIN funds : k[1] = inviter}

Refund(k) == funds[k].available

\* Anybody may redeem once every fund of the inviter has ended.
RedeemFund(oper, inviter) ==
  LET mine == FundsOf(inviter)
  IN
  /\ mine # {}
  /\ oper \in {inviter, registrar} \/ \A k \in mine : funds[k].end <= clock
  /\ \A k \in mine : Refund(k) <= purse[k[2]]
  /\ funds' = [k \in DOMAIN funds \ mine |-> funds[k]]
  /\ purse' = [t \in FundTokens |->
                 purse[t] - (IF <<inviter, t>> \in mine THEN Refund(<<inviter, t>>) ELSE 0)]
  /\ UNCHANGED <<pohGlobal, clock, signups>>

\* The rewards of one sign-up: what a fund has left if that is less.
Payout(k) == IF funds[k].available >= funds[k].reward THEN funds[k].reward ELSE funds[k].available

Open(k) == funds[k].start <= clock /\ clock <= funds[k].end

\* A fund that is used up is erased.
Exhausted(paying) == {k \in paying : funds[k].available <= funds[k].reward}

SendInviterFund(inviter) ==
  LET paying == {k \in FundsOf(inviter) : Open(k)}
  IN
  /\ \A k \in paying : Payout(k) <= purse[k[2]]
  /\ funds' = [k \in DOMAIN funds \ Exhausted(paying) |->
                 IF k \in paying THEN [funds[k] EXCEPT !.available = @ - Payout(k)] ELSE funds[k]]
  /\ purse' = [t \in FundTokens |->
                 purse[t] - (IF <<inviter, t>> \in paying THEN Payout(<<inviter, t>>) ELSE 0)]

-----------------------------------------------------------------------------
(***************************************************************************)
(* Sign-ups.                                                               *)
(***************************************************************************)

\* SING for the platform, as long as the reward fits under the cap.
CanIssueSing(reward) == sing_issued + reward <= max_issued

IssueSing(reward) ==
  \/ /\ CanIssueSing(reward)
     /\ sing_issued + reward <= SingRoom
     /\ sing_issued' = sing_issued + reward
  \/ ~ CanIssueSing(reward) /\ UNCHANGED sing_issued

\* The inline consumeact; mutant: poe.cisum is asked for as much again for the
\* newcomer.
AskedTwice(bonus) == ConsumeAct(POH, POH, Invite, 2 * bonus)
TakeInvitePoints(bonus) == ConsumeAct(POH, POH, Invite, bonus)

RegisterAlone(invitee, reward) ==
  /\ IssueSing(reward)
  /\ cisum_issued + Bonus <= CisumRoom
  /\ cisum_issued' = cisum_issued + Bonus
  /\ signups' = signups + 1
  /\ UNCHANGED <<platform_acct, registrar, max_issued, funds, purse, clock, poeVars>>

\* Without points at poe.cisum, or with a code worth 0, nobody is registered.
RegisterInvited(inviter, invitee, reward) ==
  LET bonus == rewardacts[Invite]
  IN
  /\ inviter # invitee
  /\ IssueSing(reward)
  /\ Invite \in DOMAIN rewardacts /\ bonus > 0
  /\ cisum_issued + Bonus + bonus <= CisumRoom
  /\ cisum_issued' = cisum_issued + Bonus + bonus
  /\ TakeInvitePoints(bonus)
  /\ SendInviterFund(inviter)
  /\ signups' = signups + 1
  /\ UNCHANGED <<platform_acct, registrar, max_issued, clock>>

RegistReward(submitter, inviter, invitee, reward) ==
  /\ submitter = registrar /\ registrar # NoOne /\ platform_acct # NoOne
  /\ \/ inviter = NoOne /\ RegisterAlone(invitee, reward)
     \/ inviter # NoOne /\ RegisterInvited(inviter, invitee, reward)

PohTick ==
  clock < MaxNow /\ clock' = clock + 1 /\ UNCHANGED <<pohGlobal, funds, purse, signups>>

-----------------------------------------------------------------------------
PohAdmin ==
  \/ \E p, r \in Registrars, m \in SingCaps : PohConfigure(p, r, m)
  \/ \E m \in SingCaps : SetMaxIssued(m)
  \/ \E p \in Registrars : SetPlatform(p) \/ SetRegistrar(p)

Singles(S) == {{x} : x \in S}

FundMoves ==
  \E i \in Inviters, t \in FundTokens :
    \/ \E q \in Amounts :
         \/ RefuelOnly(i, t, q)
         \/ \E r \in Amounts, w \in Windows : RefuelWithTerms(i, t, q, r, w)
    \/ \E s \in Users \cup {POH}, a, e \in {{}} \cup Singles(0..MaxNow) : SetFundInfo(s, i, t, a, e)
    \/ \E s \in Users : RedeemFund(s, i)

SignUp ==
  \E s \in Users, i \in Inviters \cup {NoOne}, n \in Invitees, q \in SingRewards :
    RegistReward(s, i, n, q)

PohNext ==
  \/ (PohAdmin \/ FundMoves \/ PohTick) /\ UNCHANGED poeVars
  \/ SignUp
  \/ PoeNext /\ UNCHANGED pohVars

PohSpec == PohInit /\ PoeInit /\ [][PohNext]_pohWorld

-----------------------------------------------------------------------------
(***************************************************************************)
(* Properties.                                                             *)
(***************************************************************************)

\* For every token, what the funds of all inviters have left is exactly what
\* the contract holds, through merged deposits, rewards that empty a fund and
\* redemptions (_merge_fund_balance_s, _send_inviter_fund, redeemfund).
FundsAddUp ==
  \A t \in FundTokens :
    purse[t] = SumFunction([k \in DOMAIN funds |-> IF k[2] = t THEN funds[k].available ELSE 0])

\* SING never leaves the cap behind, however it is lowered and raised.
SignupBudget == sing_issued <= max_issued

\* Across the two contracts: what poh.cisum minted is the newcomers' bonuses
\* and the points poe.cisum took off its books on its behalf.
InvitesAccounted == cisum_issued = Bonus * signups + consumed[POH]

\* Nothing is minted for a sign-up that the books of the two contracts do not
\* show (registreward, setmaxissued, consumeact).
IssuesAccounted == SignupBudget /\ InvitesAccounted
=============================================================================
