------------------------------ MODULE Budgets ------------------------------
(***************************************************************************)
(* The two budgets of a RunSpec, and the three places the code checks them *)
(* and the policy: before and after an experiment, when a completed record *)
(* is captured as a trace step, and at the head of the trace loop.         *)
(***************************************************************************)
EXTENDS Policies, CostArithmetic

CONSTANTS
  CountBudget,    \* experiment_count_budget
  CostBudget,     \* cost_budget, or NoBudget
  NoBudget,
  Values,         \* objective values an adapter may report
  Costs           \* costs an adapter may report

ASSUME BudgetAssumption ==
  /\ CountBudget \in Candidates
  /\ CostBudget \in (Nat \ {0}) \cup {NoBudget}
  /\ Values \subseteq Int
  /\ Costs \subseteq Nat
  /\ \A cost \in Costs : Float(cost) = cost

(* A completed experiment: its candidate, objective value and cost.        *)
Record == [candidate : Candidates, value : Values, cost : Costs]

Prefix(history, n) == SubSeq(history, 1, n)

CostExhausted(cost) == CostBudget # NoBudget /\ cost >= CostBudget
CostExceeded(cost) == CostBudget # NoBudget /\ cost > CostBudget

(* run_workload_experiment refuses to start an experiment.                 *)
MayExperiment(history) ==
  /\ Len(history) < CountBudget
  /\ ~CostExhausted(SpentCost(history))

Affordable(history, cost) == ~CostExceeded(FAdd(SpentCost(history), cost))

(* _run_bundle_step_from_completion accepts a record after earlier steps.  *)
Capturable(earlier, rec) ==
  /\ ~CostExhausted(RunningCost(earlier))
  /\ Picks(earlier, rec.candidate)
  /\ ~CostExceeded(FAdd(RunningCost(earlier), rec.cost))
  /\ HasLineage(earlier, rec)

(* Every persisted record can be captured after the ones before it.        *)
Reconstructible(history) ==
  \A i \in DOMAIN history : Capturable(Prefix(history, i - 1), history[i])

(* The stop checks of _continue_workload_trace, in their order.            *)
Running == "running"
StopReason(trace) ==
  IF Len(trace) >= CountBudget THEN "experiment_budget_exhausted"
  ELSE IF CostExhausted(RunningCost(trace)) THEN "cost_budget_exhausted"
  ELSE IF Len(trace) >= CandidateCount THEN "candidate_space_exhausted"
  ELSE Running

StopReasons ==
  {"experiment_budget_exhausted", "cost_budget_exhausted", "candidate_space_exhausted"}

-----------------------------------------------------------------------------

(* A record that a runner seeing exactly this history may add to it.       *)
Admissible(history, rec) ==
  /\ MayExperiment(history)
  /\ Picks(history, rec.candidate)
  /\ Affordable(history, rec.cost)

(* Every record of the history was admissible where it was added.          *)
Follows(history) ==
  \A i \in DOMAIN history : Admissible(Prefix(history, i - 1), history[i])

=============================================================================
