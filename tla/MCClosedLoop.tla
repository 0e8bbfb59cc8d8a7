---------------------------- MODULE MCClosedLoop ----------------------------
(***************************************************************************)
(* Six candidates in three comparisons, two of them in one public group,   *)
(* and a seventh that can never give evidence.  The costs are those of the *)
(* synthetic world, in tenths, with the arms of the third comparison       *)
(* swapped: there the adam run is cheaper and comes first.  Outcomes are   *)
(* 0 or 1, so a comparison falls into one of three bins.  One calibration  *)
(* effect in the first group: its sigma is calibrated from the arm's own   *)
(* first effect on.  Two in the second: calibrated from the start.         *)
(***************************************************************************)
EXTENDS ClosedLoop

MCCandidates == 1 .. 7
KeyOf == <<1, 1, 2, 2, 3, 3, 4>>
GroupOf == <<1, 1, 1, 1, 2, 2, 3>>
MCDesign == [c \in 1 .. 7 |->
  [eligible |-> c # 7, key |-> KeyOf[c], group |-> GroupOf[c],
   arm |-> IF c % 2 = 1 THEN "sgd" ELSE "adam"]]
MCCost == <<10, 12, 20, 24, 12, 10, 10>>

(* The rounding of the double nearest to d tenths, in units of 2^-52 / 10. *)
MCRoundingError ==
  [d \in 0 .. 98 |->
     LET band == IF d < 20 THEN <<6, 1>> ELSE IF d < 40 THEN <<8, 2>>
                 ELSE IF d < 80 THEN <<4, 4>> ELSE <<2, 8>>
         rest == (d * band[1]) % 10
     IN  IF d = 0 THEN 0 ELSE band[2] * (IF rest > 5 THEN 10 - rest ELSE -rest)]

MCOutcomes == -1 .. 1
Favours == [sgd |-> -1, equal |-> 0, adam |-> 1]
MCLikelihood ==
  [s \in {"fixed", "wide"} |-> [o \in MCOutcomes |-> [h \in Hypotheses |->
     IF s = "fixed" THEN (IF o = Favours[h] THEN 6 ELSE 1) ELSE (IF o = Favours[h] THEN 4 ELSE 2)]]]
Least(a, b) == IF a <= b THEN a ELSE b
MCEntropy(w) == Least(w.sgd, w.equal) + Least(w.sgd, w.adam) + Least(w.equal, w.adam)

MCArmSpec == [a \in {"l1", "l2", "lf", "if", "ic"} |->
  CASE a \in {"l1", "l2"} -> [model |-> "calibrated", policy |-> "lookahead", budget |-> 88]
    [] a = "lf" -> [model |-> "fixed", policy |-> "lookahead", budget |-> 45]
    [] a = "if" -> [model |-> "fixed", policy |-> "information_gain", budget |-> 98]
    [] a = "ic" -> [model |-> "calibrated", policy |-> "information_gain", budget |-> 74]]
MCOutcomeTables == {t \in [1 .. 7 -> 0 .. 1] : t[7] = 0}
MCBinOf(value) == value
MCCalibrationEffects ==
  {[id |-> <<"prefix", 1>>, group |-> 1, value |-> 1, available |-> 0],
   [id |-> <<"prefix", 2>>, group |-> 2, value |-> 0, available |-> 0],
   [id |-> <<"prefix", 3>>, group |-> 2, value |-> 1, available |-> 0]}
(* Whether the sample variance exceeds two fifths.                         *)
MCSigmaLevel(effects) ==
  LET n == Cardinality(effects)
      sum == MapThenSumSet(LAMBDA e : e.value, effects)
      squares == MapThenSumSet(LAMBDA e : e.value * e.value, effects)
  IN  IF 5 * (n * squares - sum * sum) > 2 * n * (n - 1) THEN "wide" ELSE "fixed"
Rare(w, sigma, bin, one_in) == one_in * Total(After(w, sigma, bin)) < Scale * Total(w)
MCIsOutlier(w, sigma, bin) == Rare(w, sigma, bin, 4)
MCIsTail(w, sigma, bin) == Rare(w, sigma, bin, 7)

(* What the theorems about plans suppose of the costs.                     *)
ASSUME MCCostsRound == TwoCostsAreAbsorbed /\ ExactCostsFit

=============================================================================
