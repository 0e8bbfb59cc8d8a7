-------------------------- MODULE MCBundleContract --------------------------
(***************************************************************************)
(* Values of the constants for checking BundleContract with TLC.           *)
(***************************************************************************)
EXTENDS BundleContract

(* random.Random(seed).choice among n candidates, for two seeds            *)
MCPicksOf == [seed \in {1, 2} |-> IF seed = 1 THEN <<1, 1, 3>> ELSE <<1, 2, 1>>]

MCUtility == <<1, 5, 5>>   \* a tie between the second and the third

(* Two hypotheses; the third candidate tells them apart for certain.       *)
MCPrior == <<1, 2>>
MCThresholds == <<1>>
MCLikelihood ==
  << << <<1, 1>>, <<1, 1>> >>, << <<2, 1>>, <<0, 1>> >>, << <<2, 0>>, <<0, 2>> >> >>
MCGain(c, belief) == IF \E k \in DOMAIN belief : belief[k] = 0 THEN 0 ELSE c

Plan(version, policy, seed, count, cost, wording) ==
  [version |-> version, policy |-> policy, seed |-> seed, count |-> count,
   cost |-> cost, wording |-> wording]

MCSpecs ==
  {Plan("v1", "random", 1, 2, 3, "plain"),
   Plan("v1", "random", 2, 2, NoBudget, "absolute_path"),
   Plan("v2", "random", 2, 2, 2, "plain"),
   Plan("v2", "greedy_prior", None, 1, NoBudget, "hidden_truth"),
   Plan("v3", "greedy_prior", None, 2, 2, "plain"),
   Plan("v3", "information_gain_table", None, 2, 3, "plain")}

(* The costs are small enough to be added exactly.                         *)
ASSUME MCSumsAgree == SumsAgree /\ CostsGrow
=============================================================================
