-------------------------- MODULE MCWorkloadRunner --------------------------
(***************************************************************************)
(* Values of the constants for checking WorkloadRunner with TLC.           *)
(***************************************************************************)
EXTENDS WorkloadRunner

CONSTANTS r1, r2

(* random.Random(seed).choice among n candidates, for one seed             *)
MCPickLast == [n \in Candidates |-> IF n = 2 THEN 1 ELSE n]

(* a tie between the second and the third candidate                        *)
MCUtility == [c \in Candidates |-> IF c = 1 THEN 1 ELSE 5]

(* Two hypotheses, a low and a high outcome; weights by outcome, then by   *)
(* hypothesis.  The first candidate tells nothing, the second a little, the *)
(* third everything.                                                       *)
MCPrior == <<1, 1>>
MCThresholds == <<1>>
MCLikelihood ==
  << << <<1, 1>>, <<1, 1>> >>,
     << <<2, 1>>, <<0, 1>> >>,
     << <<2, 0>>, <<0, 2>> >>,
     << <<1, 1>>, <<1, 1>> >> >>

(* A stand-in for the decimal score: how far apart a candidate's outcomes  *)
(* pull the two hypotheses the belief still admits.                        *)
MCGain(c, belief) ==
  IF \E k \in DOMAIN belief : belief[k] = 0 THEN 0
  ELSE AbsValue(MCLikelihood[c][1][1] - MCLikelihood[c][1][2])

=============================================================================
