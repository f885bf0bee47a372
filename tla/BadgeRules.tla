----------------------------- MODULE BadgeRules -----------------------------
(***************************************************************************)
(* The rules cisum.token and pop.cisum hand out badges by: both keep the   *)
(* sum of what an account has spent and award a badge each time the sum    *)
(* crosses a multiple of a rule's threshold.  The badge goes through       *)
(* cvbadgestore (BadgeStore).                                              *)
(***************************************************************************)
EXTENDS BadgeStore

CONSTANTS
  Symbols,      \* token symbols
  Currency,     \* the symbol whose rules are applied
  Steps,        \* the thresholds rules are given
  RuleIds,      \* bound: the ids of rules, 0 included
  Spenders,     \* the accounts whose awards are accounted for
  MaxSpent      \* bound: what one account may spend in all

ASSUME RuleAssumption ==
  /\ Currency \in Symbols /\ Steps \subseteq Nat \ {0}
  /\ Spenders \subseteq Accounts
  /\ RuleIds \subseteq Nat /\ MaxSpent \in Nat

VARIABLES
  rules,     \* id -> [step, symbol, nid, enabled]
  tally      \* history: id -> spender -> [spent, awarded, closes] since the
             \* rule got the terms it has

ruleTbl == <<rules, tally>>

Rule == [step : Steps, symbol : Symbols, nid : Badges, enabled : BOOLEAN]
NoTally == [u \in Spenders |-> [spent |-> 0, awarded |-> 0, closes |-> 0]]

RulesTypeOK ==
  /\ DOMAIN rules \subseteq RuleIds
  /\ rules \in [DOMAIN rules -> Rule]
  /\ tally \in [DOMAIN rules ->
                 [Spenders -> [spent : Nat, awarded : Nat, closes : Nat]]]

RulesInit == rules = EmptyTable /\ tally = EmptyTable

-----------------------------------------------------------------------------
(***************************************************************************)
(* Editing the rules.                                                      *)
(***************************************************************************)

BadgeRuled(nid) == \E i \in DOMAIN rules : rules[i].nid = nid

\* available_primary_key of a table whose largest id may have been erased.
FreeId == IF rules = EmptyTable THEN 0 ELSE Max(DOMAIN rules) + 1

\* Id 0 asks for a new rule, so the rule that got id 0 keeps its terms until
\* it is deleted.
PutRule(id, rule) ==
  LET key == IF id = 0 THEN FreeId ELSE id
  IN
  /\ key \in RuleIds
  /\ id # 0 => id \in DOMAIN rules
  /\ IF id # 0 /\ rules[id].nid = rule.nid THEN TRUE ELSE ~ BadgeRuled(rule.nid)
  /\ rules' = Put(rules, key, rule)
  /\ tally' = Put(tally, key, NoTally)

EraseRule(id) ==
  /\ id \in DOMAIN rules
  /\ rules' = Drop(rules, id)
  /\ tally' = Drop(tally, id)

-----------------------------------------------------------------------------
(***************************************************************************)
(* Applying them.                                                          *)
(***************************************************************************)

\* Badges of one rule for a step from before to after; mutant: thresholds are
\* counted from what is spent now.
PacksOfAmount(step, before, after) == (after - before) \div step
PacksOf(step, before, after) == after \div step - before \div step

\* The rules that award something.
Crossed(before, after) ==
  {i \in DOMAIN rules : /\ rules[i].enabled
                        /\ rules[i].symbol = Currency
                        /\ PacksOf(rules[i].step, before, after) > 0}

\* No two rules name the same badge, so the packs are a function of the badge.
AwardPacks(before, after) ==
  LET awarding == Crossed(before, after)
  IN  [n \in {rules[i].nid : i \in awarding} |->
         LET i == CHOOSE j \in awarding : rules[j].nid = n
         IN  PacksOf(rules[i].step, before, after)]

\* notifyaward of a contract reaches the store that handles it; an account
\* without that code takes no notice.
Announce(contract, store, user, packs) ==
  IF packs # EmptyTable /\ store = STORE
    THEN OnNotifyAward(contract, user, packs)
    ELSE UNCHANGED storeVars

\* What the rules remember of a payment.  A rule that is off remembers
\* nothing until it is modified again.
Remember(user, sym, before, after) ==
  tally' = [i \in DOMAIN tally |-> [u \in Spenders |->
    IF u = user /\ rules[i].enabled
      THEN [tally[i][u] EXCEPT
              !.spent = @ + (IF sym = Currency THEN after - before ELSE 0),
              !.awarded = @ + (IF i \in Crossed(before, after)
                                 THEN PacksOf(rules[i].step, before, after) ELSE 0)]
      ELSE tally[i][u]]]

-----------------------------------------------------------------------------
(***************************************************************************)
(* Properties.                                                             *)
(***************************************************************************)

\* A badge has one rule, also after rules were pointed at other badges.
OneRulePerBadge ==
  \A i, j \in DOMAIN rules : rules[i].nid = rules[j].nid => i = j

\* While a rule keeps its terms, an account gets one badge per threshold it
\* spends: never one too many, wherever its sum stood when the rule was made,
\* and at most one too few for every time it closed its row (close of cisum.token
\* erases the sum that the next payment is compared with).
AwardsMatchSpending ==
  \A i \in DOMAIN rules, u \in Spenders :
    rules[i].enabled /\ rules[i].symbol = Currency =>
      LET t == tally[i][u]
      IN  /\ t.awarded * rules[i].step < t.spent + rules[i].step
          /\ t.spent < rules[i].step * (t.awarded + 1 + t.closes)

\* An account gets the badges its spending earns from a rule, and no badge
\* twice for one threshold, while rules are made, pointed elsewhere, switched
\* off and deleted between its payments (try_award_badges of
\* cisum.token and of pop.cisum, addrule, setrule).
BadgesFollowSpending == OneRulePerBadge /\ AwardsMatchSpending
=============================================================================
