---------------------------- MODULE MCRoundsChain ----------------------------
(***************************************************************************)
(* Fifteen masterchain blocks for RewardRounds over three elections, of    *)
(* which the second is whole: it begins late (the time of config 34 lies   *)
(* before its first block) and ends late.  A walk of three steps reaches   *)
(* either boundary from the block at that time, but not if lookups fail.   *)
(* Validators with nominators, with pending deposits only, and with none.  *)
(***************************************************************************)
EXTENDS Integers

MCUtime == [b \in 0..14 |-> 10 * b]
MCSince == [b \in 0..14 |-> IF b < 5 THEN 5 ELSE IF b < 10 THEN 48 ELSE 100]
MCUntil == [e \in {5, 48, 100} |-> CASE e = 5 -> 48 [] e = 48 -> 90 [] e = 100 -> 200]
MCTimes == {48, 63, 95}

MCKey == {"v1", "v2", "v3"}
MCFrozen == [e \in {5, 48, 100} |->
    CASE e = 5 -> [v1 |-> 5]
      [] e = 48 -> [v1 |-> 3, v2 |-> 4]
      [] e = 100 -> [v2 |-> 6, v3 |-> 2]]
MCBonuses == [e \in {5, 48, 100} |-> CASE e = 5 -> 7 [] e = 48 -> 10 [] e = 100 -> 0]
MCPast == [b \in 0..14 |->
    IF b < 3 THEN {} ELSE IF b < 8 THEN {5, 48} ELSE {48, 100}]
MCAmounts == [k \in MCKey |->
    CASE k = "v1" -> [n1 |-> 2, n2 |-> 1]
      [] k = "v2" -> [n3 |-> 0]
      [] k = "v3" -> <<>>]
MCRewardShare == [k \in MCKey |->
    CASE k = "v1" -> 4000 [] k = "v2" -> 20000 [] k = "v3" -> 0]
=============================================================================
