------------------------------ MODULE MCAwards ------------------------------
(* The tokens and what spending them earns, in four scenes of contracts    *)
(* that share no table with those of another scene.                        *)
EXTENDS CisumToken, PopCisum

CONSTANTS Fan, Shop, Miner, SingCap, MaxDrift

\* 101 is the badge of the scenes that mint one as they start.
ASSUME SceneAssumption ==
  /\ Fan \in Spenders /\ {Fan, Shop} \subseteq Accounts /\ 101 \in Badges
  /\ Miner \in Minters /\ SingCap \in Nat /\ MaxDrift \in Nat

VARIABLE scene

mcVars == <<scene, storeVars, tokenVars, popVars, singVars>>

\* The store as deployed, with count badges of each kind and one notifier.
StoreDeployed(kinds, count, notifier) ==
  /\ badges = [n \in kinds |-> [supply |-> count, max_supply |-> count]]
  /\ stock = [a \in Accounts |-> [n \in Badges |->
                IF a = STORE /\ n \in kinds THEN count ELSE 0]]
  /\ store_admin = NoAcct /\ badge_contract = BADGE /\ badge_from = STORE
  /\ notifiers = {notifier}

-----------------------------------------------------------------------------
\* trade: after init, create, issue, addconsumewl, setbadge, addwhitelist,
\* createbadge and a first distribution.  The shop is the issuer, so what is
\* spent there comes back into circulation.
TradeInit ==
  /\ issuer = Shop /\ admin = NoAcct /\ badgestore_contract = STORE
  /\ transfer_wl = EmptyTable /\ redeem_wl = {Shop}
  /\ stats = [s \in TokenSymbols |-> [supply |-> 30, max_supply |-> 30]]
  /\ accounts = [k \in {Fan} \X TokenSymbols |-> [balance |-> 30, consumed |-> 0]]
  /\ RulesInit
  /\ StoreDeployed(Badges, 3, CISUMTOKEN)
  /\ PopInit /\ SingInit

\* Payments, rules and rows, the configuration left alone.
TradeNext ==
  /\ \/ RuleConfig /\ UNCHANGED storeVars
     \/ (\E sym \in TokenSymbols :
           \/ \E q \in TokenAmounts : TokenRetire(sym, q)
           \/ \E a \in Spenders : Open(a, sym) \/ Close(a, sym))
        /\ UNCHANGED storeVars
     \/ Payments
  /\ \A k \in DOMAIN accounts' : accounts'[k].consumed <= 40
  /\ UNCHANGED <<popVars, singVars>>

\* genesis: every action of the token and of the store from empty tables, with
\* one badge and one rule.
GenesisInit == AwardsInit /\ PopInit /\ SingInit

GenesisNext ==
  /\ AwardsNext
  /\ DOMAIN badges' \subseteq {101} /\ DOMAIN rules' \subseteq {0}
  /\ \A i \in DOMAIN rules' : rules'[i].step = 10
  /\ badge_from' # BADGE
  /\ \A n \in Badges : stock'[POP][n] = 0
  /\ \A k \in DOMAIN accounts' : accounts'[k].consumed <= 20
  /\ UNCHANGED <<popVars, singVars>>

\* mining: a fresh pop.cisum over sing.token and the store, after create at
\* sing.token and the deployment of the store.
MiningInit ==
  /\ TokenInit /\ PopInit
  /\ coinstat = Put(EmptyTable, SingCoin, [supply |-> 0, max_supply |-> SingCap, issuer |-> SING])
  /\ purse = EmptyTable /\ drift = [c \in Coins |-> 0]
  /\ StoreDeployed({101}, 2, POP)

MiningNext ==
  /\ PopNext
  /\ \A k \in DOMAIN purse' : k[1] # Miner
  /\ \A i \in DOMAIN rules' : rules'[i].nid = 101
  /\ UNCHANGED <<tokenGlobal, tokenLists, ledger>>

\* ledger: sing.token on its own, maintenance included.  What deletions leave
\* over grows with every cycle of create, issue and delete, so it is bounded.
LedgerInit == AwardsInit /\ PopInit /\ SingInit

LedgerNext ==
  /\ SingNext \/ Maintenance
  /\ \A c \in Coins : drift'[c] \in (- MaxDrift)..MaxDrift
  /\ UNCHANGED <<storeVars, tokenVars, popVars>>

-----------------------------------------------------------------------------
MCInit ==
  \/ scene = "trade" /\ TradeInit
  \/ scene = "genesis" /\ GenesisInit
  \/ scene = "mining" /\ MiningInit
  \/ scene = "ledger" /\ LedgerInit

MCNext ==
  /\ \/ scene = "trade" /\ TradeNext
     \/ scene = "genesis" /\ GenesisNext
     \/ scene = "mining" /\ MiningNext
     \/ scene = "ledger" /\ LedgerNext
  /\ UNCHANGED scene

\* Every table of the four contracts is well formed.
AwardsTypeOK == StoreTypeOK /\ TokenTypeOK /\ PopTypeOK /\ SingTypeOK

MCSpec == MCInit /\ [][MCNext]_mcVars
=============================================================================
