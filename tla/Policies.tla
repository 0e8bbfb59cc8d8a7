------------------------------ MODULE Policies ------------------------------
(***************************************************************************)
(* The three deterministic selection policies of a generic RunSpec.  Each  *)
(* is a function of the history of completed experiments alone: `random`   *)
(* builds a fresh seeded generator for every selection, so its pick        *)
(* depends only on how many candidates are left; `greedy_prior` takes the  *)
(* highest declared utility left; `information_gain_table` replays its     *)
(* integer beliefs over the history and takes the highest expected gain.   *)
(*                                                                         *)
(* A candidate is its position in the RunSpec's candidate order, which is  *)
(* what breaks ties.  A history is a sequence of completed records         *)
(* [candidate, value, cost].                                               *)
(***************************************************************************)
EXTENDS Integers, FiniteSets, Sequences

CONSTANTS
  CandidateCount,   \* candidates of the RunSpec, 1..CandidateCount in RunSpec order
  PolicyId,         \* "random", "greedy_prior" or "information_gain_table"
  PickIndex,        \* what random.Random(seed).choice picks among n: PickIndex[n] \in 1..n
  Utility,          \* the declared prior utility of each candidate (greedy_prior)
  Prior,            \* prior weight of each hypothesis, a sequence (information_gain_table)
  Likelihood,       \* Likelihood[c][o][k]: weight of outcome o under hypothesis k
  Thresholds,       \* strictly increasing outcome thresholds, a sequence
  MaxWeight,        \* largest belief weight the integer bit bound admits
  Gain(_, _)        \* expected information gain of a candidate under a belief

Candidates == 1 .. CandidateCount
Hypotheses == DOMAIN Prior
Outcomes == 1 .. Len(Thresholds) + 1
Beliefs == [Hypotheses -> 0 .. MaxWeight]

ASSUME PolicyAssumption ==
  /\ CandidateCount \in Nat \ {0}
  /\ PolicyId \in {"random", "greedy_prior", "information_gain_table"}
  /\ PickIndex \in [Candidates -> Candidates]
  /\ \A n \in Candidates : PickIndex[n] <= n
  /\ Utility \in [Candidates -> Int]
  /\ MaxWeight \in Nat \ {0}

ASSUME GainAssumption ==
  \A c \in Candidates : \A b \in Beliefs : Gain(c, b) \in Int

-----------------------------------------------------------------------------

Completed(history) == {history[i].candidate : i \in DOMAIN history}

Available(history) == Candidates \ Completed(history)

(* available[k] where k is the seeded generator's choice among all of them *)
PicksRandom(history, c) ==
  LET available == Available(history)
  IN  Cardinality({d \in available : d <= c}) = PickIndex[Cardinality(available)]

(* c scores best, and no earlier candidate scores as well                  *)
FirstBest(score, available, c) ==
  \A d \in available : score[d] < score[c] \/ (score[d] = score[c] /\ c <= d)

PicksGreedyPrior(history, c) == FirstBest(Utility, Available(history), c)

-----------------------------------------------------------------------------
(* Integer beliefs.  NoBelief stands for every exception of the replay: an *)
(* outcome with zero weight under all current hypotheses, or a product     *)
(* beyond the bit bound.                                                   *)

NoBelief == << >>

(* The outcome of an objective value: one past the thresholds at or below  *)
ClassifyObservation(value) ==
  1 + Cardinality({i \in DOMAIN Thresholds : Thresholds[i] <= value})

Divides(d, n) == n % d = 0

GCDOf(weights) ==
  CHOOSE d \in 1 .. MaxWeight :
    /\ \A k \in DOMAIN weights : Divides(d, weights[k])
    /\ \A e \in (d + 1) .. MaxWeight : \E k \in DOMAIN weights : ~Divides(e, weights[k])

UpdateBelief(belief, c, outcome) ==
  LET products == [k \in Hypotheses |-> belief[k] * Likelihood[c][outcome][k]]
      divisor == GCDOf(products)
  IN  IF \/ \E k \in Hypotheses : products[k] > MaxWeight
         \/ \A k \in Hypotheses : products[k] = 0
      THEN NoBelief
      ELSE [k \in Hypotheses |-> products[k] \div divisor]

(* The belief after replaying a history from the prior, in order.          *)
BeliefAfter(history) ==
  LET replay[n \in 0 .. Len(history)] ==
        IF n = 0 THEN Prior
        ELSE LET belief == replay[n - 1]
                 rec == history[n]
             IN  IF belief = NoBelief THEN NoBelief
                 ELSE UpdateBelief(belief, rec.candidate, ClassifyObservation(rec.value))
  IN  replay[Len(history)]

PicksInformationGain(history, c) ==
  LET belief == BeliefAfter(history)
      gain == [d \in Candidates |-> Gain(d, belief)]
  IN  belief \in Beliefs /\ FirstBest(gain, Available(history), c)

-----------------------------------------------------------------------------

(* The policy selects candidate c after this history.                      *)
Picks(history, c) ==
  /\ c \in Available(history)
  /\ CASE PolicyId = "random" -> PicksRandom(history, c)
       [] PolicyId = "greedy_prior" -> PicksGreedyPrior(history, c)
       [] PolicyId = "information_gain_table" -> PicksInformationGain(history, c)

(* Only the information-gain policy computes a belief lineage, which fails *)
(* when the record's outcome is impossible under the belief before it.     *)
HasLineage(history, rec) ==
  PolicyId = "information_gain_table" => BeliefAfter(Append(history, rec)) \in Beliefs

=============================================================================
