----------------------------- MODULE ClosedLoop -----------------------------
(***************************************************************************)
(* A closed-loop evaluation condition: several arms, each with its own     *)
(* belief model, policy and budget, run one after the other against one    *)
(* oracle that has committed every outcome in advance and reveals only the *)
(* selected one.  An arm decides, pays for and observes an experiment,     *)
(* turns a pair it completes into evidence, updates its belief with the    *)
(* sigma its model selects, and decides again, until nothing is feasible.  *)
(*                                                                         *)
(* An exception ends the evaluation (phase "raised").  Evidence and        *)
(* effects are named by their run and comparison; the comparison's value   *)
(* is the adam outcome minus the sgd outcome, and falls into a bin.        *)
(***************************************************************************)
EXTENDS Planner, Sequences, SequencesExt

CONSTANTS
  ArmIds,
  ArmSpec,              \* [model, policy, budget] of each arm
  OutcomeTables,        \* the committed outcomes of every candidate
  BinOf(_),             \* the evidence bin of a comparison
  CalibrationEffects,   \* the prefix every calibrated arm reads
  MinimumPriorEffects,
  FixedSigma,
  SigmaLevel(_),        \* max(stdev, floor) of a set of effects
  IsOutlier(_, _, _),   \* residual outlier, of weights, sigma and bin
  IsTail(_, _, _),      \* tail alarm, of the same
  AlarmWindow,          \* earlier diagnostics the rolling count looks at
  AlarmCount, MinimumResiduals

VARIABLES
  table,      \* the committed outcomes
  accesses,   \* the oracle's log
  runs,       \* the finished arms
  arm,        \* the arm that runs, or None
  phase,      \* "idle", "loop", "decided", "observed" or "raised"
  completed,  \* its experiments, in order
  spent,      \* its cumulative cost, a decimal
  weights,    \* its belief
  updates,    \* its belief updates, in order: [pair, group, sigma, sources, bin]
  history,    \* the effects it has seen: [id, group, value, available]
  applied,    \* the comparisons whose evidence it has used
  diagnostics,
  decision    \* its last decision

lineage == <<weights, updates, diagnostics>>
vars == <<table, accesses, runs, arm, phase, completed, spent, lineage, history, applied, decision>>

Prior == [sgd |-> 1, equal |-> 1, adam |-> 1]
Current == ArmSpec[arm]
Done == ToSet(completed)

ASSUME ClosedLoopAssumption ==
  /\ \A a \in ArmIds : /\ ArmSpec[a].model \in {"fixed", "calibrated"}
                       /\ ArmSpec[a].policy \in {"information_gain", "lookahead"}
                       /\ ArmSpec[a].budget \in Nat \ {0}
  /\ IsFiniteSet(CalibrationEffects)
  /\ \A e \in CalibrationEffects : e.available = 0 /\ e.value \in Int /\ e.id \notin ArmIds \X Keys
  /\ OutcomeTables \subseteq [Candidates -> Int]
  /\ \A t \in OutcomeTables : \A c, d \in Candidates : BinOf(t[c] - t[d]) \in Outcomes
  /\ MinimumPriorEffects >= 2 /\ FixedSigma \in Sigmas
  /\ {AlarmWindow, AlarmCount, MinimumResiduals} \subseteq Nat
  /\ None \notin ArmIds
  (* The tolerance is more than what rounding adds up to when a cost is   *)
  (* compared with what is left of a budget, and far below a decimal unit. *)
  /\ \A a \in ArmIds, c \in Candidates : \A s \in 0 .. ArmSpec[a].budget :
       LET error == RoundingError[Cost[c]] - (RoundingError[ArmSpec[a].budget] - RoundingError[s])
       IN  /\ {RoundingError[Cost[c]], RoundingError[ArmSpec[a].budget], RoundingError[s]} \subseteq Int
           /\ -Tolerance <= error /\ error <= Tolerance /\ Tolerance - error < Grain

Init ==
  /\ table \in OutcomeTables
  /\ accesses = {} /\ runs = <<>> /\ arm = None /\ phase = "idle"
  /\ completed = <<>> /\ spent = 0 /\ weights = Prior /\ updates = <<>>
  /\ history = {} /\ applied = {} /\ diagnostics = <<>> /\ decision = None

-----------------------------------------------------------------------------
(* Sigma, before a decision (a snapshot for every group) and before an     *)
(* update (an estimate for one piece of evidence).                         *)

NextSequence == Len(updates) + 1

(* mistake: the effects of every group count                               *)
EligibleEffectsAnywhere(group) == {e \in history : e.available < NextSequence}

EligibleEffects(group) ==
  {e \in history : e.group = group /\ e.available < NextSequence}

Calibrate(sources) ==
  IF Cardinality(sources) < MinimumPriorEffects THEN FixedSigma ELSE SigmaLevel(sources)

Snapshot(group) ==
  IF Current.model = "fixed" THEN FixedSigma ELSE Calibrate(EligibleEffects(group))

Snapshots == CHOOSE s \in [Groups -> Sigmas] : \A g \in Groups : s[g] = Snapshot(g)

(* mistake: the update estimates from all it has, the decision did not     *)
SelectSigmaOfAll(group, id) ==
  LET sources == {e \in EligibleEffects(group) : e.id # id}
  IN  IF Current.model = "fixed" THEN [sigma |-> FixedSigma, sources |-> {}]
      ELSE [sigma |-> SigmaLevel(history), sources |-> {e.id : e \in sources}]

SelectSigma(group, id) ==
  LET sources == {e \in EligibleEffects(group) : e.id # id}
  IN  IF Current.model = "fixed" THEN [sigma |-> FixedSigma, sources |-> {}]
      ELSE [sigma |-> Calibrate(sources), sources |-> {e.id : e \in sources}]

-----------------------------------------------------------------------------
(* The decision.                                                           *)

RemainingBudget == Fl(Current.budget) - Fl(spent)

(* mistake: an experiment that uses the budget up does not fit             *)
FeasibleStrictly ==
  {c \in Candidates \ Done : FlCost(c) < RemainingBudget + Tolerance /\ FlCost(c) # RemainingBudget}

Feasible == {c \in Candidates \ Done : FitsRoughly(FlCost(c), RemainingBudget)}

(* The scores of the one-step policy and of the two-step policy.           *)
InformationGain(cands, snapshot) ==
  {Score(c, Done, weights, snapshot) : c \in Scorable(cands, Done, RemainingBudget)}

Lookahead(cands, snapshot) ==
  {PlanFirst(c, cands, Done, weights, RemainingBudget, snapshot) :
     c \in Scorable(cands, Done, RemainingBudget)}

Ranking(cands, snapshot) ==
  IF Current.policy = "lookahead" THEN Lookahead(cands, snapshot)
  ELSE InformationGain(cands, snapshot)

(* The fixed arms decide a second time, with the sigma of the first group. *)
Canonical(snapshot) ==
  LET first == CHOOSE g \in Groups : \A h \in Groups : g <= h
  IN  CHOOSE s \in [Groups -> {snapshot[first]}] : TRUE

UnchangedRanking(snapshot) == Ranking(Feasible, Canonical(snapshot))

RegressionMatches(plans, snapshot) ==
  Current.model = "fixed" => plans = UnchangedRanking(snapshot)

DecisionTrace(best, snapshot) ==
  [candidate |-> best.candidate, effect |-> Effect(best.candidate, Done), step |-> Len(completed) + 1,
   gain |-> best.gain, cost |-> best.cost, remaining |-> RemainingBudget, snapshot |-> snapshot]

Decides(plans, snapshot) ==
  /\ plans # {} /\ RegressionMatches(plans, snapshot)
  /\ Current.policy = "lookahead" => \A p \in plans : p.affordable /\ p.gain >= 0

Decide ==
  /\ phase = "loop" /\ Feasible # {}
  /\ LET plans == Ranking(Feasible, Snapshots)
     IN  IF Decides(plans, Snapshots)
         THEN /\ \E best \in plans : IsBest(best, plans) /\ decision' = DecisionTrace(best, Snapshots)
              /\ phase' = "decided"
         ELSE phase' = "raised" /\ UNCHANGED decision
  /\ UNCHANGED <<table, accesses, runs, arm, completed, spent, lineage, history, applied>>

-----------------------------------------------------------------------------
(* The experiment.                                                         *)

Access(a, step, c) == [run |-> a, step |-> step, candidate |-> c, value |-> table[c]]

(* mistake: a candidate is revealed to one run only                        *)
RevealedToAnyone(a, c) == \E x \in accesses : x.candidate = c

Revealed(a, c) == \E x \in accesses : x.run = a /\ x.candidate = c

(* The oracle reveals the decided candidate, the budget is debited and the *)
(* experiment appended.                                                    *)
Experiment ==
  /\ phase = "decided"
  /\ LET c == decision.candidate
         cost == spent + Cost[c]
     IN  IF Revealed(arm, c)
         THEN phase' = "raised" /\ UNCHANGED <<accesses, spent, completed>>
         ELSE /\ accesses' = accesses \cup {Access(arm, decision.step, c)}
              /\ spent' = cost
              /\ IF FitsRoughly(Fl(cost), Fl(Current.budget))
                 THEN completed' = Append(completed, c) /\ phase' = "observed"
                 ELSE phase' = "raised" /\ UNCHANGED completed
  /\ UNCHANGED <<table, runs, arm, lineage, history, applied, decision>>

-----------------------------------------------------------------------------
(* The evidence.                                                           *)

Unapplied == ValidPairs(Done) \ applied

ArmOf(k, a) == CHOOSE c \in Done : Design[c].eligible /\ Design[c].key = k /\ Design[c].arm = a
(* mistake: the later outcome minus the earlier one                        *)
ComparisonInOrder(k) ==
  LET place == {i \in DOMAIN completed : completed[i] \in {ArmOf(k, "sgd"), ArmOf(k, "adam")}}
      first == CHOOSE i \in place : \A j \in place : i <= j
      last == CHOOSE i \in place : \A j \in place : j <= i
  IN  table[completed[last]] - table[completed[first]]

Comparison(k) == table[ArmOf(k, "adam")] - table[ArmOf(k, "sgd")]

Adequacy(outlier, tail) ==
  LET recent == {i \in DOMAIN diagnostics : i > Len(diagnostics) - AlarmWindow
                                            /\ diagnostics[i].outlier}
      rolling == Cardinality(recent) + (IF outlier THEN 1 ELSE 0)
  IN  IF tail \/ rolling >= AlarmCount THEN "appears_misspecified"
      ELSE IF Len(diagnostics) + 1 < MinimumResiduals \/ tail # outlier THEN "uncertain"
      ELSE "adequate"

(* The prequential diagnostic: scored against the belief before the update. *)
Diagnose(sigma, bin) ==
  LET outlier == IsOutlier(weights, sigma, bin)
      tail == IsTail(weights, sigma, bin)
  IN  [outlier |-> outlier, tail |-> tail, state |-> Adequacy(outlier, tail)]

EffectId(k) == <<arm, k>>

(* model.update: sigma, diagnostic, posterior, and the effect for later.   *)
Update(k) ==
  LET group == Design[ArmOf(k, "sgd")].group
      estimate == SelectSigma(group, EffectId(k))
      bin == BinOf(Comparison(k))
  IN  /\ diagnostics' = Append(diagnostics, Diagnose(estimate.sigma, bin))
      /\ weights' = After(weights, estimate.sigma, bin)
      /\ updates' = Append(updates, [pair |-> k, group |-> group, sigma |-> estimate.sigma,
                                     sources |-> estimate.sources, bin |-> bin])
      /\ history' = history \cup {[id |-> EffectId(k), group |-> group,
                                   value |-> Comparison(k), available |-> NextSequence]}

(* Apply the next pair; evidence that the lineage holds already is an      *)
(* error, and so is evidence that no hypothesis admits.                    *)
Apply ==
  /\ phase = "observed" /\ Unapplied # {}
  /\ LET k == CHOOSE k \in Unapplied : \A j \in Unapplied : k <= j
         estimate == SelectSigma(Design[ArmOf(k, "sgd")].group, EffectId(k))
     IN  IF \/ \E i \in DOMAIN updates : updates[i].pair = k
            \/ Total(After(weights, estimate.sigma, BinOf(Comparison(k)))) = 0
         THEN phase' = "raised" /\ UNCHANGED <<lineage, history, applied>>
         ELSE Update(k) /\ applied' = applied \cup {k} /\ UNCHANGED phase
  /\ UNCHANGED <<table, accesses, runs, arm, completed, spent, decision>>

(* No pair is left to apply; the loop goes round.                          *)
Recompute ==
  /\ phase = "observed" /\ Unapplied = {}
  /\ phase' = "loop"
  /\ UNCHANGED <<table, accesses, runs, arm, completed, spent, lineage, history, applied, decision>>

-----------------------------------------------------------------------------
(* The arm.                                                                *)

(* mistake: the list of effects is shared by the arms                      *)
SharedHistory(a) ==
  history \cup (IF ArmSpec[a].model = "calibrated" THEN CalibrationEffects ELSE {})

InitialHistory(a) == IF ArmSpec[a].model = "calibrated" THEN CalibrationEffects ELSE {}

Start(a) ==
  /\ phase = "idle" /\ a \notin DOMAIN runs
  /\ arm' = a /\ phase' = "loop"
  /\ completed' = <<>> /\ spent' = 0 /\ weights' = Prior /\ updates' = <<>>
  /\ history' = InitialHistory(a)
  /\ applied' = {} /\ diagnostics' = <<>> /\ decision' = None
  /\ UNCHANGED <<table, accesses, runs>>

StopReason == IF Candidates \subseteq Done THEN "candidate_space_exhausted" ELSE "budget_exhausted"

Run == [experiments |-> completed, updates |-> [i \in DOMAIN updates |-> updates[i].sigma],
        weights |-> weights, spent |-> spent, stop |-> StopReason]

(* Nothing is feasible: the run is returned, if the oracle has one access  *)
(* for each of its experiments.                                            *)
Finish ==
  /\ phase = "loop" /\ Feasible = {}
  /\ IF Cardinality({x \in accesses : x.run = arm}) = Len(completed)
     THEN /\ runs' = [a \in DOMAIN runs \cup {arm} |-> IF a = arm THEN Run ELSE runs[a]]
          /\ arm' = None /\ phase' = "idle"
     ELSE phase' = "raised" /\ UNCHANGED <<runs, arm>>
  /\ UNCHANGED <<table, accesses, completed, spent, lineage, history, applied, decision>>

Running == phase # "raised" /\ (phase = "idle" => DOMAIN runs # ArmIds)

(* The evaluation has returned or raised.                                  *)
Over == ~Running /\ UNCHANGED vars

Next ==
  \/ \E a \in ArmIds : Start(a)
  \/ Decide
  \/ Experiment
  \/ Apply
  \/ Recompute
  \/ Finish
  \/ Over

Spec == Init /\ [][Next]_vars

(* The evaluation is a plain loop in one thread, which goes on while it    *)
(* runs.  This is WF_vars(Next), with the state predicate it is enabled by *)
(* (that it is, TLC's deadlock check shows) written out.                   *)
FairSpec == Spec /\ ([]<>~Running \/ []<><<TRUE>>_vars)

-----------------------------------------------------------------------------
(* The type of the state.  Evidence keeps the name of its run.             *)
TypeOK ==
  /\ table \in OutcomeTables
  /\ DOMAIN runs \subseteq ArmIds
  /\ phase \in {"idle", "loop", "decided", "observed", "raised"}
  /\ arm \in ArmIds \cup {None} /\ (phase # "idle" => arm # None)
  /\ accesses \subseteq [run : ArmIds, step : Nat, candidate : Candidates, value : Int]
  /\ completed \in Seq(Candidates) /\ applied \subseteq Keys
  /\ weights \in [Hypotheses -> Nat] /\ spent \in Nat
  /\ Range(updates) \subseteq
       [pair : Keys, group : Groups, sigma : Sigmas, sources : SUBSET {e.id : e \in history},
        bin : Outcomes]
  /\ \A e \in history : e.id \in {x.id : x \in CalibrationEffects} \cup (ArmIds \X Keys)

-----------------------------------------------------------------------------
(* A strategy of two steps: the first experiment, and for every branch of  *)
(* its evidence whether and with which pair to go on, within the budget.   *)
Left == Current.budget - spent

Closers(c) ==
  {d \in Candidates \ Done : /\ d # c /\ Cost[c] + Cost[d] <= Left
                             /\ Effect(d, Done \cup {c}) = "completes_pair"}

FirstOf(c) == FirstBranches(c, Done, weights, decision.snapshot)

(* Its gain by enumerating the evidence of both steps, and its mean cost.  *)
FinalEntropy(b, d) ==
  IF d = Stop THEN Scale * Entropy(b.weights)
  ELSE MapThenSumSet(LAMBDA o : Entropy(After(b.weights, decision.snapshot[Design[d].group], o)),
                     Outcomes)
Price(c, d) == FlCost(c) + (IF d = Stop THEN 0 ELSE FlCost(d))

StrategyValue(c, f) ==
  [candidate |-> c,
   gain |-> Scale * Scale * Entropy(weights) - MapThenSumSet(LAMBDA b : FinalEntropy(b, f[b]), DOMAIN f),
   cost |-> MapThenSumSet(LAMBDA b : Total(b.weights) * Price(c, f[b]), DOMAIN f)]

StrategyValues(c) == {StrategyValue(c, f) : f \in [FirstOf(c) -> {Stop} \cup Closers(c)]}

(* Where the rounding of two costs and of what is left of a budget is less *)
(* than the tolerance, and a cost that is exactly what is left does not    *)
(* round up: the first action of a plan is compared without a tolerance.   *)
TwoCostsAreAbsorbed ==
  \A a \in ArmIds, c, d \in Candidates : \A s \in 0 .. ArmSpec[a].budget :
    LET error == RoundingError[Cost[c]] + RoundingError[Cost[d]]
                 - (RoundingError[ArmSpec[a].budget] - RoundingError[s])
    IN  -Tolerance <= error /\ error <= Tolerance /\ Tolerance - error < Grain

ExactCostsFit ==
  \A a \in ArmIds, c \in Candidates : \A s \in 0 .. ArmSpec[a].budget :
    Cost[c] <= ArmSpec[a].budget - s => FlCost(c) <= Fl(ArmSpec[a].budget) - Fl(s)

(* A lookahead decision is the first step of the best affordable two-step  *)
(* strategy: no choice of a first experiment and of a continuation per     *)
(* branch gains more, or as much at a lower mean cost; and some strategy   *)
(* delivers what the plan states.                                          *)
PlanIsBest ==
  phase = "decided" /\ Current.policy = "lookahead" =>
    /\ \E v \in StrategyValues(decision.candidate) :
         v.gain = decision.gain /\ v.cost = decision.cost
    /\ \A c \in {c \in Candidates \ Done : Cost[c] <= Left} :
         Effect(c, Done) \in {"ineligible", "opens_pair", "completes_pair"} =>
           \A v \in StrategyValues(c) : ~Better(v, decision)

(* Sigma is estimated from the past of the arm's own group only: for a     *)
(* calibrated arm the prefix and the earlier updates of the same group,    *)
(* for a fixed arm nothing; never the evidence itself, another group's or  *)
(* another arm's.                                                          *)
SigmaUsesOnlyThePast ==
  arm # None => \A i \in DOMAIN updates :
    updates[i].sources =
      IF Current.model = "fixed" THEN {}
      ELSE {e.id : e \in {e \in CalibrationEffects : e.group = updates[i].group}}
           \cup {<<arm, updates[j].pair>> : j \in {j \in 1 .. i - 1 :
                                                    updates[j].group = updates[i].group}}

(* Before every decision the belief has consumed every comparison whose    *)
(* two experiments the arm has made, each once and with the adam minus the *)
(* sgd outcome, however far apart they were made.                          *)
BeliefIsTheEvidence ==
  phase \in {"loop", "decided"} =>
    /\ {updates[i].pair : i \in DOMAIN updates}
         = {Design[c].key : c \in {c \in Done : \E d \in Done :
              /\ Design[c].eligible /\ Design[d].eligible
              /\ Design[c].key = Design[d].key /\ Design[c].arm # Design[d].arm}}
    /\ \A i, j \in DOMAIN updates : updates[i].pair = updates[j].pair => i = j
    /\ \A h \in Hypotheses :
         LET outcome(i, a) == CHOOSE v \in {table[c] : c \in {c \in Done :
                                /\ Design[c].eligible
                                /\ Design[c].key = updates[i].pair /\ Design[c].arm = a}} : TRUE
             bin(i) == BinOf(outcome(i, "adam") - outcome(i, "sgd"))
             weight[n \in 0 .. Len(updates)] ==
               IF n = 0 THEN Prior[h] ELSE weight[n - 1] * Likelihood[updates[n].sigma][bin(n)][h]
         IN  weights[h] = weight[Len(updates)]

(* Arms do not influence one another: two runs of the same specification   *)
(* make the same experiments, reach the same belief with the same sigmas   *)
(* and stop for the same reason, whatever ran before or between them.      *)
ArmsAreIsolated ==
  \A a, b \in DOMAIN runs : ArmSpec[a] = ArmSpec[b] => runs[a] = runs[b]

(* The reason a run gives for its end is true: it has made every           *)
(* experiment, or none of those left costs no more than what its budget    *)
(* leaves; it has paid for every experiment once, and has not spent more   *)
(* than its budget.                                                        *)
StopIsTrue ==
  \A a \in DOMAIN runs :
    LET order == runs[a].experiments
        made == ToSet(order)
        price[n \in 0 .. Len(order)] == IF n = 0 THEN 0 ELSE price[n - 1] + Cost[order[n]]
        left == ArmSpec[a].budget - price[Len(order)]
    IN  /\ left >= 0 /\ Cardinality(made) = Len(order)
        /\ (runs[a].stop = "candidate_space_exhausted") <=> (made = Candidates)
        /\ \A c \in Candidates \ made : Cost[c] > left

(* Repeated outliers within the rolling window are always reported, and a  *)
(* model never looks adequate with an alarm or too few residuals.          *)
AdequacyIsRolling ==
  \A i \in DOMAIN diagnostics :
    LET window == {j \in DOMAIN diagnostics : i - AlarmWindow <= j /\ j <= i /\ diagnostics[j].outlier}
        repeated == Cardinality(window) >= AlarmCount
    IN  /\ repeated \/ diagnostics[i].tail => diagnostics[i].state = "appears_misspecified"
        /\ diagnostics[i].state = "adequate" => i >= MinimumResiduals /\ ~diagnostics[i].outlier

(* What holds of an arm's belief throughout.                               *)
BeliefInv == TypeOK /\ BeliefIsTheEvidence /\ AdequacyIsRolling

(* A plan keeps its promise: after an experiment that opens a pair, the    *)
(* arm does not stop, and its next decision promises no less information   *)
(* than the plan that chose the opener did.                                *)
PlanIsKept ==
  [][phase = "loop" /\ decision # None =>
       (Current.policy = "lookahead" /\ decision.effect # "completes_pair" /\ decision.gain > 0
          => phase' = "decided" /\ decision'.gain >= decision.gain)]_vars

(* An update uses the sigma that the decision it follows from was made     *)
(* with.                                                                   *)
PromisedSigma ==
  [][Len(updates') > Len(updates) =>
       LET last == updates'[Len(updates')]
       IN  last.sigma = decision.snapshot[last.group]]_vars

(* The evaluation ends: every arm stops by itself, and none raises.        *)
EveryArmFinishes == <>(DOMAIN runs = ArmIds)

=============================================================================
