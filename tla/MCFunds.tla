------------------------------ MODULE MCFunds -------------------------------
(* The contracts that hold deposits for others, in scenes of contracts     *)
(* that share no table with those of another scene.                        *)
EXTENDS PosCisum, PohCisum, BlindBox, CisumReserve, TLC

VARIABLE scene

mcVars == <<scene, posVars, pohWorld, boxVars, reserveVars>>

-----------------------------------------------------------------------------
\* Staking: the tokens, the terms plans are given, the rates.
Sing == <<"sing.token", "SING">>
MusicCoin == <<"sing.token", "MUSIC">>
Cisum == <<"cisum.token", "CISUM">>
Strange == <<"other.token", "SING">>

Term(pool_, days, allow, fine, token, music) ==
  [type |-> "term", pool |-> pool_, scheme |-> "lad1", days |-> days, allow |-> allow,
   fine |-> fine, from |-> 0, to |-> 2, token |-> token, music |-> music]

StakeConfs == {Term("cisumapr", 2, TRUE, 5, Sing, 5), Term("nestpont", 2, FALSE, 0, Cisum, 0)}
SwitchConfs == {Term("cisumapr", 2, TRUE, 3, Sing, 0), Term("cisumapr", 1, TRUE, 3, Strange, 0),
                Term("nestpont", 4, FALSE, 0, Sing, 0)}
Demand == [Term("cisumapr", 2, FALSE, 0, Sing, 0) EXCEPT !.type = "demand", !.scheme = "dem1"]
Free == Term("cisumapr", 2, TRUE, 0, Sing, 0)
AllConfs == StakeConfs \cup SwitchConfs \cup {Demand, Free}

StakeTokens == {Sing, MusicCoin, Cisum, Strange}
Units == [t \in StakeTokens |-> IF t = Cisum THEN 1 ELSE 2]
RateTable == [s \in {"lad1", "dem1"} |-> IF s = "lad1" THEN <<3, 4, 5>> ELSE <<1, 1, 1>>]
Alike == Permutations(Savers)

PlansWithin(confs) == \A p \in DOMAIN plans' : plans'[p].conf \in confs

\* stake: two savers, a term plan with a fine and a loan of MUSIC, and a plan
\* that pays points.
StakeNext == PosNext /\ PlansWithin(StakeConfs) /\ now' <= 3

\* switch: the saves of one saver while the plan is made shorter, longer, a
\* plan without a term, and one of another interest token.
SwitchNext ==
  /\ PosNext
  /\ PlansWithin(SwitchConfs \cup {Demand})
  /\ \A j, k \in DOMAIN saves' : j[1] = k[1]
  /\ music_treasury' = 0

\* early: a plan with no fine that allows advance redemption.
EarlyNext == PosNext /\ PlansWithin({Free})

-----------------------------------------------------------------------------
\* Engagement: single and paired claims and airdrops, and ones beyond the
\* limits.
Claim(c, to) == [code |-> c, to |-> to]
Drop1(to, q) == [to |-> to, quantity |-> q]
Claims == {<<Claim("signin", u)>> : u \in Inviters}
            \cup {<<Claim("signin", u), Claim("invite", x)>> :
                    u \in Inviters, x \in Inviters \cup Ghosts \cup {POE}}
            \cup {[i \in 1..MaxClaims + 1 |-> Claim("signin", u)] : u \in Inviters}
Drops == {<<Drop1(u, 1), Drop1(x, 2)>> : u \in Inviters, x \in Inviters \cup Ghosts}
           \cup {<<Drop1(u, DropLimit)>> : u \in Inviters}
TwoWindows == {<<1, 2>>, <<2, 3>>}

\* After init of poh.cisum and of poe.cisum with the code invite, worth a point.
ASSUME InviteAssumption == 1 \in PointSums

PohDeployed(points_) ==
  /\ platform_acct \in Registrars /\ registrar = platform_acct
  /\ max_issued \in SingCaps /\ sing_issued = 0 /\ cisum_issued = 0
  /\ funds = EmptyTable /\ purse = [t \in FundTokens |-> 0]
  /\ clock = 0 /\ signups = 0
  /\ available_points = points_ /\ claimed_points = 0 /\ total_points = points_
  /\ operators = {} /\ bank = points_
  /\ rewardacts = [c \in {Invite} |-> 1]
  /\ consumed = [a \in PoeAccts |-> 0]

\* funds: sponsors' funds in two tokens, drained by sign-ups.
FundsNext ==
  /\ ((PohAdmin \/ FundMoves \/ PohTick) /\ UNCHANGED poeVars) \/ SignUp
  /\ cisum_issued' <= 7

\* points: sign-ups and the operators of poe.cisum on one pool of points.
PointsNext ==
  /\ PohNext
  /\ operators' \subseteq Registrars
  /\ total_points' <= 3 /\ clock' <= 1
  /\ \A t \in FundTokens : purse'[t] <= IF t = "SING" THEN 1 ELSE 0
  /\ DOMAIN rewardacts' \subseteq {Invite} /\ \A c \in DOMAIN rewardacts' : rewardacts'[c] <= 1

\* poe: poe.cisum from its first day, one operator beside the contract.
PoeSceneNext ==
  /\ PoeNext
  /\ operators' \subseteq Inviters \cup {POE, POH}
  /\ \A a \in Users \ Inviters : consumed'[a] = 0
  /\ UNCHANGED pohVars

-----------------------------------------------------------------------------
\* Blind boxes: two booths of one owner on one ledger, two kinds of NFT.
Batch(k, n) == [kind |-> k, amount |-> n]
Shipments == {<<Batch(1, 1)>>, <<Batch(1, 2)>>, <<Batch(1, 1), Batch(2, 2)>>,
              <<Batch(2, 1), Batch(2, 1)>>}

\* repairs: one booth whose boxes maintenance edits.
RepairsNext == (BoxNext \/ Maintenance) /\ last_booth_id' <= 1

-----------------------------------------------------------------------------
Pos(step) == step /\ UNCHANGED <<pohWorld, boxVars, reserveVars>>
Poh(step) == step /\ UNCHANGED <<posVars, boxVars, reserveVars>>
Box(step) == step /\ UNCHANGED <<posVars, pohWorld, reserveVars>>

MCInit ==
  /\ scene \in {"stake", "switch", "funds", "points", "poe", "booths", "repairs", "reserve"}
  /\ PosDeployed(1, IF scene = "stake" THEN 2 ELSE 0)
  /\ IF scene \in {"funds", "points"}
       THEN PohDeployed(IF scene = "funds" THEN 3 ELSE 2)
       ELSE PohInit /\ PoeInit
  /\ BoxInit /\ ReserveInit

MCNext ==
  /\ UNCHANGED scene
  /\ \/ scene = "stake" /\ Pos(StakeNext)
     \/ scene = "switch" /\ Pos(SwitchNext)
     \/ scene = "funds" /\ Poh(FundsNext)
     \/ scene = "points" /\ Poh(PointsNext)
     \/ scene = "poe" /\ Poh(PoeSceneNext)
     \/ scene = "booths" /\ Box(BoxNext)
     \/ scene = "repairs" /\ Box(RepairsNext)
     \/ scene = "reserve" /\ ReserveNext /\ UNCHANGED <<posVars, pohWorld, boxVars>>

\* Every table of the five contracts is well formed.
FundsTypeOK == PosTypeOK /\ PohTypeOK /\ PoeTypeOK /\ BoxTypeOK /\ ReserveTypeOK

MCSpec == MCInit /\ [][MCNext]_mcVars

EarlySpec ==
  /\ scene = "early" /\ PosDeployed(1, 0) /\ PohInit /\ PoeInit /\ BoxInit /\ ReserveInit
  /\ [][Pos(EarlyNext) /\ UNCHANGED scene]_mcVars
=============================================================================
