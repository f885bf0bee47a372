------------------------------ MODULE PosCisum ------------------------------
(***************************************************************************)
(* pos.cisum: staking.  A transfer of the principal token with the memo    *)
(* deposit opens a save under a plan; a cisumapr plan then releases        *)
(* interest by the day, a nestpont plan pays all of it as points at once;  *)
(* both lend MUSIC that must come back before the principal is redeemed.   *)
(* Interest is paid from what was refuelled to the plan.  The token        *)
(* ledgers are external: `held` is what they keep for pos.cisum.  The      *)
(* module starts from the state after the first init, with one principal   *)
(* token for good.                                                         *)
(***************************************************************************)
EXTENDS EosTable, FiniteSets, FiniteSetsExt, Sequences

CONSTANTS
  POS,            \* the account pos.cisum is deployed to, its own admin
  Savers,         \* the accounts that stake
  Principal,      \* the principal token, <<contract, symbol>>
  Music,          \* the MUSIC token
  CisumCoin,      \* CISUM at cisum.token, the other token that can refuel
  Tokens,         \* the tokens plans may name for interest, and the above
  PlanIds, Confs, \* the plans and the configurations setplan is called with
  Rates,          \* scheme -> rates of its three tiers
  Edge1, Edge2,   \* 1000 and 2000 units, where the tiers end
  UnitOf,         \* token -> 10^precision
  PctBoost,       \* 10000
  YearDays, Day,  \* 365, and the length of a day
  Minis,          \* the mini_deposit_amounts init is called with
  Sums,           \* the amounts of transfers
  MaxTime,        \* bound: the clock
  MaxSaves,       \* bound: saves ever opened since an init
  MaxHeld         \* bound: what is refuelled, staked and orphaned

\* As deployed, the principal token is SING: its symbol, MUSIC and CISUM differ.
ASSUME PosAssumption ==
  /\ {Principal, Music, CisumCoin} \subseteq Tokens
  /\ Principal[2] # Music[2] /\ Principal[2] # CisumCoin[2] /\ Music[2] # CisumCoin[2]
  /\ UnitOf \in [Tokens -> Nat \ {0}]
  /\ \A scheme \in DOMAIN Rates : Rates[scheme] \in [1..3 -> Nat]
  /\ Confs \subseteq [type : {"term", "demand"}, pool : {"cisumapr", "nestpont"},
                      scheme : DOMAIN Rates, days : Nat, allow : BOOLEAN, fine : Nat,
                      from : Nat, to : Nat, token : Tokens, music : Nat]
  /\ Sums \subseteq Nat \ {0} /\ Minis \subseteq Nat
  /\ {PctBoost, YearDays, Day} \subseteq Nat \ {0}
  /\ {Edge1, Edge2, MaxTime, MaxSaves, MaxHeld} \subseteq Nat
  /\ POS \notin Savers

VARIABLES
  mini_deposit_amount, last_save_id, music_treasury,   \* global
  plans,      \* id -> [conf, deposit, interest, paid]: what was redeemed in
              \* all is left out, of interest_redeemed only that it is not 0
  saves,      \* <<owner, save_id>> -> the saving account
  held,       \* token -> the balance of pos.cisum
  now,        \* the clock
  orphaned    \* history: plan id -> deposits its deleted rows had counted

posGlobal == <<mini_deposit_amount, last_save_id, music_treasury>>
posVars == <<posGlobal, plans, saves, held, now, orphaned>>

Plan == [conf : Confs, deposit : Nat, interest : Nat, paid : BOOLEAN]
Save == [plan : PlanIds, rate : Nat, deposit : Nat, term : Nat, collected : Nat,
         sym : {t[2] : t \in Tokens}, reward : Nat, returned : Nat, at : Nat, last : Nat]

\* The amounts are never negative, whatever plans were replaced and deleted.
PosTypeOK ==
  /\ mini_deposit_amount \in Nat /\ last_save_id \in Nat /\ music_treasury \in Nat
  /\ DOMAIN plans \subseteq PlanIds /\ plans \in [DOMAIN plans -> Plan]
  /\ DOMAIN saves \subseteq Savers \X (1..MaxSaves) /\ saves \in [DOMAIN saves -> Save]
  /\ held \in [Tokens -> Nat] /\ now \in Nat
  /\ orphaned \in [PlanIds -> Nat]

\* After the first init, with music in the treasury.
PosDeployed(mini, music) ==
  /\ mini_deposit_amount = mini /\ last_save_id = 0
  /\ music_treasury = music
  /\ plans = EmptyTable /\ saves = EmptyTable
  /\ held = [t \in Tokens |-> IF t = Music THEN music ELSE 0]
  /\ now = 0 /\ orphaned = [p \in PlanIds |-> 0]

SymOf(token) == token[2]
ConfOf(k) == plans[saves[k].plan].conf

\* Inline transfers out of pos.cisum: the ledger refuses what is not there.
Payable(balances) == \A t \in Tokens : balances[t] >= 0

-----------------------------------------------------------------------------
(***************************************************************************)
(* Administration.                                                         *)
(***************************************************************************)

\* init may be called again: save ids then start over.
PosInit(mini) ==
  /\ mini_deposit_amount' = mini
  /\ last_save_id' = 0
  /\ UNCHANGED <<music_treasury, plans, saves, held, now, orphaned>>

\* The terms of a plan change for the saves it already has.
SetPlan(pid, conf) ==
  /\ conf.type \in {"term", "demand"} /\ conf.pool \in {"cisumapr", "nestpont"}
  /\ conf.type = "term" => conf.days > 0
  /\ conf.from <= conf.to
  /\ pid \in DOMAIN plans /\ (plans[pid].interest # 0 \/ plans[pid].paid) =>
       SymOf(conf.token) = SymOf(plans[pid].conf.token)
  /\ plans' = Put(plans, pid,
       IF pid \in DOMAIN plans
         THEN [plans[pid] EXCEPT !.conf = conf]
         ELSE [conf |-> conf, deposit |-> 0, interest |-> 0, paid |-> FALSE])
  /\ UNCHANGED <<posGlobal, saves, held, now, orphaned>>

\* Nothing asks whether the plan still has saves.
DelPlan(pid) ==
  /\ pid \in DOMAIN plans
  /\ plans' = Drop(plans, pid)
  /\ orphaned[pid] + plans[pid].deposit <= MaxHeld
  /\ orphaned' = [orphaned EXCEPT ![pid] = @ + plans[pid].deposit]
  /\ UNCHANGED <<posGlobal, saves, held, now>>

-----------------------------------------------------------------------------
(***************************************************************************)
(* Staking.                                                                *)
(***************************************************************************)

\* mul_down and mul_up of safemath; the latter rounds half up.
MulDown(a, b, p) == (a * b) \div p
MulUp(a, b, p) == ((10 * a * b) \div p + 5) \div 10

InterestRate(scheme, quant) ==
  Rates[scheme][IF quant <= Edge1 THEN 1 ELSE IF quant <= Edge2 THEN 2 ELSE 3]

\* _term_interest
TermInterest(rate, quant, duration) ==
  MulDown(MulDown(rate * 100, duration, YearDays * Day), quant, PctBoost * 100)

MusicReward(conf, quant) ==
  (((quant * UnitOf[Music]) \div UnitOf[Principal]) * conf.music) \div PctBoost

\* What a nestpont plan pays at once.
Points(conf, quant) ==
  ((((quant * UnitOf[conf.token]) \div UnitOf[Principal])
    * InterestRate(conf.scheme, quant) * conf.days) \div PctBoost) \div YearDays

PointsDue(conf, quant) == IF conf.pool = "nestpont" THEN Points(conf, quant) ELSE 0

\* The checks on a deposit that look at the plan only.
CanDeposit(pid, quant) ==
  /\ pid \in DOMAIN plans
  /\ quant >= mini_deposit_amount
  /\ plans[pid].conf.from <= now /\ now <= plans[pid].conf.to
  /\ plans[pid].conf.days > 0

\* The balances after a deposit, the MUSIC lent and the points paid.
AfterDeposit(conf, quant) ==
  LET in == [held EXCEPT ![Principal] = @ + quant]
      lent == [in EXCEPT ![Music] = @ - MusicReward(conf, quant)]
  IN  [lent EXCEPT ![conf.token] = @ - PointsDue(conf, quant)]

\* emplace refuses an id the owner still has from before an init.
Deposit(owner, pid, quant) ==
  LET conf == plans[pid].conf
      id == last_save_id + 1
      rate == InterestRate(conf.scheme, quant)
      points == PointsDue(conf, quant)
  IN
  /\ CanDeposit(pid, quant)
  /\ conf.pool = "nestpont" => points > 0 /\ points <= plans[pid].interest
  /\ <<owner, id>> \notin DOMAIN saves /\ id <= MaxSaves
  /\ held[Principal] + quant <= MaxHeld
  /\ Payable(AfterDeposit(conf, quant))
  /\ plans' = [plans EXCEPT ![pid].deposit = @ + quant,
                            ![pid].interest = @ - points, ![pid].paid = @ \/ points > 0]
  /\ saves' = Put(saves, <<owner, id>>,
       [plan |-> pid, rate |-> rate, deposit |-> quant,
        term |-> IF conf.pool = "cisumapr"
                   THEN TermInterest(rate, quant, conf.days * Day) ELSE 0,
        collected |-> 0, sym |-> SymOf(conf.token),
        reward |-> MusicReward(conf, quant), returned |-> 0, at |-> now, last |-> now])
  /\ last_save_id' = id
  /\ held' = AfterDeposit(conf, quant)
  /\ UNCHANGED <<mini_deposit_amount, music_treasury, now, orphaned>>

\* refuel:plan, in the principal token or in CISUM, by anyone.
Refuel(token, pid, quant) ==
  /\ token \in {Principal, CisumCoin}
  /\ pid \in DOMAIN plans /\ plans[pid].conf.token = token
  /\ held[token] + quant <= MaxHeld
  /\ plans' = [plans EXCEPT ![pid].interest = @ + quant]
  /\ held' = [held EXCEPT ![token] = @ + quant]
  /\ UNCHANGED <<posGlobal, saves, now, orphaned>>

\* refuel in MUSIC.
RefuelMusic(quant) ==
  /\ music_treasury + quant <= MaxHeld
  /\ music_treasury' = music_treasury + quant
  /\ held' = [held EXCEPT ![Music] = @ + quant]
  /\ UNCHANGED <<mini_deposit_amount, last_save_id, plans, saves, now, orphaned>>

\* return:save_id, which leaves the treasury alone.
MusicBack(k, quant) ==
  saves' = [saves EXCEPT ![k].returned = @ + quant] /\ UNCHANGED music_treasury

ReturnMusic(k, quant) ==
  /\ k \in DOMAIN saves
  /\ saves[k].returned + quant <= saves[k].reward
  /\ MusicBack(k, quant)
  /\ held' = [held EXCEPT ![Music] = @ + quant]
  /\ UNCHANGED <<mini_deposit_amount, last_save_id, plans, now, orphaned>>

-----------------------------------------------------------------------------
(***************************************************************************)
(* Interest of a cisumapr plan.                                            *)
(***************************************************************************)

Accrued(k) ==
  LET s == saves[k]
      interest == TermInterest(s.rate, s.deposit, now - s.at)
  IN  IF interest > s.term THEN s.term ELSE interest

\* Mutant: what was collected before is forgotten.
InterestAgain(k) == Accrued(k)
InterestDue(k) == Accrued(k) - saves[k].collected

\* Assets of two symbols do not compare, so a save whose plan was switched to
\* another interest token collects nothing.
CollectInt(signer, k) ==
  LET pid == saves[k].plan
      due == InterestDue(k)
  IN
  /\ k \in DOMAIN saves /\ signer \in {k[1], POS}
  /\ pid \in DOMAIN plans
  /\ plans[pid].conf.pool = "cisumapr"
  /\ now - saves[k].last > Day
  /\ SymOf(plans[pid].conf.token) = saves[k].sym
  /\ due > 0 /\ due <= plans[pid].interest
  /\ due <= held[plans[pid].conf.token]
  /\ held' = [held EXCEPT ![plans[pid].conf.token] = @ - due]
  /\ saves' = [saves EXCEPT ![k].collected = @ + due, ![k].last = now]
  /\ plans' = [plans EXCEPT ![pid].interest = @ - due, ![pid].paid = TRUE]
  /\ UNCHANGED <<posGlobal, now, orphaned>>

-----------------------------------------------------------------------------
(***************************************************************************)
(* Redemption.                                                             *)
(***************************************************************************)

TermSeconds(k) == ConfOf(k).days * Day
Remaining(k) == saves[k].at + TermSeconds(k) - now
Premature(k) == ConfOf(k).type = "term" /\ Remaining(k) > 0

\* The fine falls from the plan's maximum to nothing over the term.
FineRate(k) ==
  LET max == ConfOf(k).fine
      rate == MulUp(max, Remaining(k), TermSeconds(k))
  IN  IF rate > max THEN max ELSE rate

Penalty(k) == IF Premature(k) THEN MulUp(saves[k].deposit, FineRate(k), PctBoost) ELSE 0

\* Mutant: the owner is paid the fine, too.
RedeemAll(k) == saves[k].deposit
Redeemable(k) == saves[k].deposit - Penalty(k)

\* Mutant: a plan made anew settles what it never received.
NoMatter(k) == TRUE
PlanCovers(k) == plans[saves[k].plan].deposit >= saves[k].deposit

\* A transfer of nothing is refused by the ledger, so there must be a fine.
CanWithdraw(k) ==
  /\ saves[k].plan \in DOMAIN plans
  /\ saves[k].returned >= saves[k].reward
  /\ Premature(k) => ConfOf(k).allow /\ Penalty(k) > 0
  /\ Redeemable(k) > 0
  /\ PlanCovers(k)

\* What leaves the plan; mutant: what the owner is paid.
PaidOut(k) == Redeemable(k)
Settled(k) == saves[k].deposit

Withdraw(signer, k) ==
  LET out == Penalty(k) + Redeemable(k)
  IN
  /\ k \in DOMAIN saves /\ signer \in {k[1], POS}
  /\ CanWithdraw(k)
  /\ out <= held[Principal]
  /\ plans' = [plans EXCEPT ![saves[k].plan].deposit = @ - Settled(k)]
  /\ saves' = Drop(saves, k)
  /\ held' = [held EXCEPT ![Principal] = @ - out]
  /\ UNCHANGED <<posGlobal, now, orphaned>>

Tick ==
  /\ now < MaxTime
  /\ now' = now + 1
  /\ UNCHANGED <<posGlobal, plans, saves, held, orphaned>>

-----------------------------------------------------------------------------
PosAdmin ==
  \/ \E m \in Minis : PosInit(m)
  \/ \E p \in PlanIds : DelPlan(p) \/ \E c \in Confs : SetPlan(p, c)

Funding ==
  \E q \in Sums :
    \/ RefuelMusic(q)
    \/ \E t \in Tokens, p \in PlanIds : Refuel(t, p, q)

Staking ==
  \/ \E u \in Savers, p \in DOMAIN plans, q \in Sums : Deposit(u, p, q)
  \/ \E k \in DOMAIN saves :
       \/ \E q \in Sums : ReturnMusic(k, q)
       \/ \E s \in Savers \cup {POS} : CollectInt(s, k) \/ Withdraw(s, k)

PosNext == PosAdmin \/ Funding \/ Staking \/ Tick

PosSpec == (\E mini, music \in Nat : PosDeployed(mini, music)) /\ [][PosNext]_posVars

-----------------------------------------------------------------------------
(***************************************************************************)
(* Properties.                                                             *)
(***************************************************************************)

DepositsInAll == SumFunction([k \in DOMAIN saves |-> saves[k].deposit])
DepositsOf(p) ==
  SumFunction([k \in DOMAIN saves |-> IF saves[k].plan = p THEN saves[k].deposit ELSE 0])

\* What the plans whose interest is kept in the principal token have for it.
InterestKept ==
  SumFunction([p \in DOMAIN plans |->
    IF SymOf(plans[p].conf.token) = SymOf(Principal) THEN plans[p].interest ELSE 0])

OnLoan == SumFunction([k \in DOMAIN saves |-> saves[k].reward - saves[k].returned])

\* The balance in the principal token covers every save and every interest
\* pool kept in that token, so fines, interest and points are never paid
\* with somebody's principal (withdraw, collectint, ontransfer).
PrincipalCovered == held[Principal] >= DepositsInAll + InterestKept

\* The MUSIC at hand is what the treasury took in less what savers still have
\* on loan; nobody redeems a save whose loan is missing (ontransfer, withdraw).
MusicBalanced == held[Music] = music_treasury - OnLoan

\* Savers' principal and the MUSIC on loan to them are covered at any time.
BalancesCovered == PrincipalCovered /\ MusicBalanced

\* A save never collects more interest than its term was worth when it was
\* opened, whatever setplan did to the plan since.
InterestWithinTerm == \A k \in DOMAIN saves : saves[k].collected <= saves[k].term

\* A plan accounts for the deposits of all its saves, less those that deleted
\* rows of the plan had counted: only delplan strands a save.
DepositsAccounted ==
  \A p \in PlanIds :
    DepositsOf(p) =
      orphaned[p] + (IF p \in DOMAIN plans THEN plans[p].deposit ELSE 0)

\* What the configuration says of a plan that allows advance redemption: a save
\* whose MUSIC is back can be redeemed before its term.
AdvanceRedeemAllowed ==
  \A k \in DOMAIN saves :
    saves[k].plan \in DOMAIN plans /\ Premature(k) =>
      (ConfOf(k).allow /\ saves[k].returned = saves[k].reward
         /\ PlanCovers(k) /\ Redeemable(k) > 0 => CanWithdraw(k))
=============================================================================
