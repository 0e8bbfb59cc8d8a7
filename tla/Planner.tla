------------------------------ MODULE Planner ------------------------------
(***************************************************************************)
(* The pure part of belief-guided selection: what an experiment would mean *)
(* for the evidence (the eligibility contract), the one-step information   *)
(* gain of a candidate, and the fixed two-step lookahead over it.          *)
(*                                                                         *)
(* A candidate is its position in the order of candidate ids, which breaks *)
(* ties; 0 is the STOP action, whose id sorts first.  A belief is a record *)
(* of unnormalized integer weights of the three hypotheses, and a Gaussian *)
(* discretized over the evidence bins is, at each sigma, a table of        *)
(* integer masses that add up to Scale for every hypothesis.  Entropy(w)   *)
(* stands for total weight times entropy, so expectations over the bins    *)
(* are plain sums, and both information gains and expected costs of the    *)
(* plans of one decision have one common denominator that no comparison    *)
(* needs.  With gain and cost tied, gain per cost is tied as well and the  *)
(* next key decides.                                                       *)
(***************************************************************************)
EXTENDS Integers, FiniteSets, FiniteSetsExt

CONSTANTS
  Candidates,     \* 1..n
  Design,         \* the public design of each: [eligible, key, group, arm]
  Cost,           \* its cost in decimal units
  Grain,          \* a decimal unit in units of rounding
  RoundingError,  \* of the float nearest to each decimal, in units of rounding
  Tolerance,      \* POSITIVE_INFORMATION_TOLERANCE, in the same units
  Outcomes,       \* evidence bins
  Sigmas,         \* the standard deviations that occur
  Likelihood,     \* Likelihood[sigma][bin][hypothesis]: mass of the bin
  Scale,
  Entropy(_),     \* concave and homogeneous of degree one
  None

Hypotheses == {"sgd", "equal", "adam"}
Arms == {"sgd", "adam"}
Stop == 0
Keys == {Design[c].key : c \in Candidates}
EligibleCandidates == {c \in Candidates : Design[c].eligible}
Groups == {Design[c].group : c \in EligibleCandidates}

ASSUME PlannerAssumption ==
  /\ IsFiniteSet(Candidates) /\ Candidates \subseteq Nat \ {Stop} /\ IsFiniteSet(Outcomes)
  /\ \A c \in Candidates : /\ Design[c].eligible \in BOOLEAN /\ Design[c].arm \in Arms
                            /\ Design[c].key \in Nat /\ Design[c].group \in Nat
  /\ Cost \in [Candidates -> Nat]
  /\ Grain \in Nat \ {0} /\ Tolerance \in Nat /\ Scale \in Nat \ {0}
  /\ \A s \in Sigmas, o \in Outcomes, h \in Hypotheses : Likelihood[s][o][h] \in Nat
  /\ \A s \in Sigmas : \A h \in Hypotheses :
       MapThenSumSet(LAMBDA o : Likelihood[s][o][h], Outcomes) = Scale

-----------------------------------------------------------------------------
(* Floats of decimals.                                                     *)

Fl(decimal) == decimal * Grain + RoundingError[decimal]
FlCost(c) == Fl(Cost[c])

(* The comparison the loop and the second action make, with a tolerance;   *)
(* the first action and the one-step policy compare without one.           *)
FitsRoughly(cost, budget) == cost <= budget + Tolerance

(* mistake: the tolerance has the wrong sign                               *)
FitsBelow(cost, budget) == cost <= budget - Tolerance

Fits(cost, budget) == cost <= budget

-----------------------------------------------------------------------------
(* The eligibility contract, on a set of completed candidates.             *)

SameComparison(c, d) == Design[d].eligible /\ Design[c].key = Design[d].key

Effect(c, done) ==
  LET related == {d \in done : SameComparison(c, d)}
      arms == {Design[d].arm : d \in related}
  IN  CASE c \in done -> "completed_candidate"
        [] c \notin done /\ ~Design[c].eligible -> "ineligible"
        [] c \notin done /\ Design[c].eligible ->
             IF arms = Arms THEN "already_completed_pair"
             ELSE IF Design[c].arm \in arms THEN "duplicate_arm"
             ELSE IF Cardinality(related) > 1 THEN "ambiguous_counterpart"
             ELSE IF related # {} THEN "completes_pair"
             ELSE "opens_pair"

(* The comparisons with exactly one experiment of each arm.                *)
ValidPairs(done) ==
  {k \in Keys : \A arm \in Arms :
     Cardinality({c \in done : Design[c].eligible /\ Design[c].key = k /\ Design[c].arm = arm}) = 1}

(* What a policy is willing to score.                                      *)
Scorable(cands, done, budget) ==
  {c \in cands \ done : /\ Fits(FlCost(c), budget)
                        /\ Effect(c, done) \in {"ineligible", "opens_pair", "completes_pair"}}

-----------------------------------------------------------------------------
(* Beliefs.                                                                *)

Total(w) == w.sgd + w.equal + w.adam

Weigh(w, masses) ==
  [sgd |-> w.sgd * masses.sgd, equal |-> w.equal * masses.equal, adam |-> w.adam * masses.adam]

(* The weights after evidence in a bin, and after each bin it may fall in. *)
After(w, sigma, o) == Weigh(w, Likelihood[sigma][o])

Posteriors(w, sigma) ==
  {p \in {[bin |-> o, weights |-> After(w, sigma, o)] : o \in Outcomes} : Total(p.weights) > 0}

Gain(w, sigma) ==
  Scale * Entropy(w) - MapThenSumSet(LAMBDA p : Entropy(p.weights), Posteriors(w, sigma))

(* The order of both policies, and of both actions of a plan: more gain,   *)
(* then less cost, then the identifier.                                    *)
Better(x, y) ==
  \/ x.gain > y.gain
  \/ x.gain = y.gain /\ x.cost < y.cost
  \/ x.gain = y.gain /\ x.cost = y.cost /\ x.candidate < y.candidate

IsBest(x, choices) == \A y \in choices \ {x} : Better(x, y)
BestOf(choices) == CHOOSE x \in choices : IsBest(x, choices)

(* A prediction snapshot gives every group its sigma.  One-step score: only *)
(* a candidate that completes a pair informs.                              *)
Score(c, done, w, snapshot) ==
  [candidate |-> c,
   gain |-> IF Effect(c, done) = "completes_pair" THEN Gain(w, snapshot[Design[c].group]) ELSE 0,
   cost |-> FlCost(c)]

-----------------------------------------------------------------------------
(* The two-step plan.                                                      *)

StopAction == [candidate |-> Stop, gain |-> 0, cost |-> 0]

(* mistake: a second experiment that uses the budget up is left out        *)
SecondActionsBelow(cands, done, w, remaining, snapshot) ==
  {StopAction} \cup
  {Score(c, done, w, snapshot) :
     c \in {c \in cands \ done : FitsBelow(FlCost(c), remaining)
                                 /\ Effect(c, done) = "completes_pair"}}

SecondActions(cands, done, w, remaining, snapshot) ==
  {StopAction} \cup
  {Score(c, done, w, snapshot) :
     c \in {c \in cands \ done : FitsRoughly(FlCost(c), remaining)
                                 /\ Effect(c, done) = "completes_pair"}}

(* The evidence branches of a first action: one per bin when it completes  *)
(* a pair, a single one without evidence otherwise.                        *)
NoEvidence(w) == {[bin |-> None, weights |-> Weigh(w, [h \in Hypotheses |-> Scale])]}

FirstBranches(c, done, w, snapshot) ==
  IF Effect(c, done) = "completes_pair" THEN Posteriors(w, snapshot[Design[c].group])
  ELSE NoEvidence(w)

(* A branch with the best second action in it.                             *)
PlanBranch(c, cands, done, branch, budget, snapshot) ==
  LET second == BestOf(SecondActions(cands, done \cup {c}, branch.weights,
                                     budget - FlCost(c), snapshot))
      left == Scale * Entropy(branch.weights) - second.gain
  IN  [bin |-> branch.bin, second |-> second.candidate,
       mass |-> Total(branch.weights), cost |-> FlCost(c) + second.cost,
       entropy |-> IF left > 0 THEN left ELSE 0]

PlanFirst(c, cands, done, w, budget, snapshot) ==
  LET branches == {PlanBranch(c, cands, done, b, budget, snapshot) :
                     b \in FirstBranches(c, done, w, snapshot)}
  IN  [candidate |-> c,
       gain |-> Scale * Scale * Entropy(w) - MapThenSumSet(LAMBDA b : b.entropy, branches),
       cost |-> MapThenSumSet(LAMBDA b : b.mass * b.cost, branches),
       affordable |-> \A b \in branches : FitsRoughly(b.cost, budget)]

=============================================================================
