---------------------------- MODULE BundleContract ----------------------------
(***************************************************************************)
(* What a RunBundle document says and when its three versions accept it.   *)
(* A run of a RunSpec is captured step by step into a trace, the trace is  *)
(* exported as a document, and a document is verified and replayed: every  *)
(* policy decision is computed again from the recorded observations.  In   *)
(* between anybody may edit the trace, through the constructor of a step,  *)
(* or the document, and may compute again what follows from the edit.      *)
(*                                                                         *)
(* A digest is the tag "sha256" with what it digests.  A fixed text        *)
(* (selection rule) is its name.  How a directory is published around the  *)
(* document is the matter of BundleExport and BundleReplay.                *)
(***************************************************************************)
EXTENDS CostArithmetic, SequencesExt

CONSTANTS
  CandidateCount, Utility, Prior, Likelihood, Thresholds, MaxWeight, Gain(_, _),
  NoBudget, Values, Costs,   \* see Policies and Budgets
  PicksOf,    \* what each seed makes random.Random choose; see PickIndex
  Specs,      \* the RunSpecs
  MaxEdits,   \* bound on the edits
  Forged,     \* a value of no run
  Refused,    \* what an exception leaves
  None

VARIABLES
  spec,       \* the RunSpec that is run
  history,    \* its completed records
  trace,      \* the captured trace, or None
  document,   \* the document: None, Refused by the export, or what it says
  edits,
  verdict,    \* what verification said of the document
  database    \* what replay persisted: None, Refused or a history

vars == <<spec, history, trace, document, edits, verdict, database>>

Run(PolicyId, PickIndex, CountBudget, CostBudget) == INSTANCE Budgets

Candidates == 1 .. CandidateCount
Seeds == DOMAIN PicksOf
PickIndexOf(sp) == IF sp.seed = None THEN [n \in Candidates |-> 1] ELSE PicksOf[sp.seed]
Observation == [candidate : Candidates, value : Values, cost : Costs]

PoliciesOf(version) ==
  CASE version = "v1" -> {"random"}
    [] version = "v2" -> {"random", "greedy_prior"}
    [] version = "v3" -> {"random", "greedy_prior", "information_gain_table"}

Digest(x) == <<"sha256", x>>

(* A RunSpec: its schema version, policy and seed, its two budgets, and    *)
(* whether a free text of it is a path or names a hidden truth.            *)
Versions == {"v1", "v2", "v3"}
Wordings == {"plain", "absolute_path", "hidden_truth"}

ASSUME ContractAssumption ==
  /\ CandidateCount \in Nat \ {0}
  /\ \A sp \in Specs :
       /\ sp.version \in Versions /\ sp.policy \in PoliciesOf(sp.version)
       /\ sp.seed \in IF sp.policy = "random" THEN Seeds ELSE {None}
       /\ sp.count \in Candidates /\ sp.wording \in Wordings
  /\ Utility \in [Candidates -> Int] /\ Costs \subseteq Nat
  /\ Thresholds \in Seq(Int) /\ MaxWeight \in Nat
  /\ Prior \in Seq(1 .. MaxWeight) /\ Prior # <<>>
  /\ \A c \in Candidates : \A o \in 1 .. Len(Thresholds) + 1 : \A k \in DOMAIN Prior :
       Likelihood[c][o][k] \in Nat
  /\ \A c \in Candidates : \A belief \in [DOMAIN Prior -> 0 .. MaxWeight] : Gain(c, belief) \in Int
  /\ MaxEdits \in Nat
  /\ None # Refused /\ Refused # "valid" /\ None # "valid" /\ Refused \notin Seq(Observation)
  /\ \A x \in {Forged, None} : x # Digest(Likelihood) /\ x \notin {"sha256"} \X Seq(Nat)

----------------------------------------------------------------------------
(* A selection and the payload that documents it.                          *)

Selects(sp, earlier, c) ==
  Run(sp.policy, PickIndexOf(sp), sp.count, sp.cost)!Picks(earlier, c)
Selectable(sp, earlier) == \E c \in Candidates : Selects(sp, earlier, c)
Selected(sp, earlier) == CHOOSE c \in Candidates : Selects(sp, earlier, c)

(* What a run of the RunSpec may add to a history and resume; see Budgets. *)
Admissible(sp, earlier, rec) ==
  Run(sp.policy, PickIndexOf(sp), sp.count, sp.cost)!Admissible(earlier, rec)
Resumable(sp, records) ==
  Run(sp.policy, PickIndexOf(sp), sp.count, sp.cost)!Reconstructible(records)

(* Otherwise the evidence is impossible and computing its lineage raises.  *)
HasLineage(sp, earlier, rec) ==
  Run(sp.policy, PickIndexOf(sp), sp.count, sp.cost)!HasLineage(earlier, rec)

Belief(sp, earlier) == Run(sp.policy, PickIndexOf(sp), sp.count, sp.cost)!BeliefAfter(earlier)
Exhausted(sp, cost) == sp.cost # NoBudget /\ cost >= sp.cost
Exceeded(sp, cost) == sp.cost # NoBudget /\ cost > sp.cost

CompletedIds(earlier) == [i \in DOMAIN earlier |-> earlier[i].candidate]
EligibleIds(earlier) ==
  LET ids[c \in 0 .. CandidateCount] ==
        IF c = 0 THEN <<>>
        ELSE IF Contains(CompletedIds(earlier), c) THEN ids[c - 1] ELSE Append(ids[c - 1], c)
  IN  ids[CandidateCount]

DecisionV1(sp, c) == [policy_id |-> sp.policy, policy_seed |-> sp.seed, selected |-> c]
RationaleV1(earlier) ==
  [available |-> EligibleIds(earlier), completed |-> CompletedIds(earlier), rule |-> "random/v1"]

(* _decision_payload of version 2, and of the same policies in version 3.  *)
DecisionV2(sp, earlier) ==
  LET c == Selected(sp, earlier)
  IN [policy_id |-> sp.policy, policy_seed |-> sp.seed, selected |-> c,
      utility |-> IF sp.policy = "greedy_prior" THEN Utility[c] ELSE None,
      eligible |-> Len(EligibleIds(earlier))]

Explain(decision, earlier, rule) ==
  LET context == [eligible_ids |-> EligibleIds(earlier),
                  completed_ids |-> CompletedIds(earlier), rule |-> rule]
  IN  [f \in (DOMAIN decision \ {"policy_seed"}) \cup DOMAIN context |->
         IF f \in DOMAIN context THEN context[f] ELSE decision[f]]

RuleOf(policy) ==
  CASE policy = "random" -> "random/v2" [] policy = "greedy_prior" -> "greedy/v1"
    [] policy = "information_gain_table" -> "gain/v1"

RationaleV2(sp, earlier) == Explain(DecisionV2(sp, earlier), earlier, RuleOf(sp.policy))

(* selection_metadata of the information-gain policy.                      *)
GainDecision(sp, earlier) ==
  LET c == Selected(sp, earlier)
  IN [policy_identity |-> sp.policy, selected |-> c, gain |-> Gain(c, Belief(sp, earlier)),
      eligible |-> Len(EligibleIds(earlier)), belief |-> Digest(Belief(sp, earlier)),
      model |-> Digest(Likelihood)]

DecisionV3(sp, earlier) ==
  IF sp.policy = "information_gain_table" THEN GainDecision(sp, earlier)
  ELSE DecisionV2(sp, earlier)
RationaleV3(sp, earlier) == Explain(DecisionV3(sp, earlier), earlier, RuleOf(sp.policy))

LineageFor(sp, earlier, rec) ==
  IF sp.policy # "information_gain_table" THEN <<>>
  ELSE LET before == Belief(sp, earlier)
           after == Belief(sp, Append(earlier, rec))
       IN <<[index |-> Len(earlier), candidate |-> rec.candidate,
             outcome |-> Run(sp.policy, PickIndexOf(sp), sp.count, sp.cost)!ClassifyObservation(rec.value),
             before |-> before, after |-> after,
             digest_before |-> Digest(before), digest_after |-> Digest(after)]>>

----------------------------------------------------------------------------
(* The constructor of a step: what is wrong with it by itself.             *)

PolicyKeys == {"policy_id", "policy_seed", "selected", "utility", "eligible"}
GainKeys == {"policy_identity", "selected", "gain", "eligible", "belief", "model"}
Shaped(step, keys) ==
  /\ DOMAIN step.decision = keys
  /\ DOMAIN step.rationale =
       (keys \ {"policy_seed"}) \cup {"eligible_ids", "completed_ids", "rule"}

IdLists(one, other, index) ==
  /\ one \in Seq(Candidates) /\ other \in Seq(Candidates)
  /\ IsInjective(one) /\ IsInjective(other)
  /\ Range(one) \cap Range(other) = {} /\ Len(other) = index

Observed(step) ==
  /\ step.observation \in Observation /\ step.observation.candidate = step.selected
  /\ step.cumulative >= step.observation.cost

ClosedV1(step) ==
  /\ DOMAIN step.decision = {"policy_id", "policy_seed", "selected"}
  /\ DOMAIN step.rationale = {"available", "completed", "rule"}
  /\ step.index \in Nat /\ step.selected \in Candidates /\ step.cumulative \in Nat
  /\ step.decision.selected = step.selected /\ step.decision.policy_id = "random"
  /\ step.decision.policy_seed \in Seeds
  /\ IdLists(step.rationale.available, step.rationale.completed, step.index)
  /\ step.selected \in Range(step.rationale.available)
  /\ step.rationale.rule = "random/v1"
  /\ step.lineage = <<>>
  /\ Observed(step)

Context(step) ==
  /\ \A f \in DOMAIN step.decision \ {"policy_seed"} : step.rationale[f] = step.decision[f]
  /\ step.decision.selected = step.selected
  /\ step.decision.eligible \in Nat \ {0}
  /\ IdLists(step.rationale.eligible_ids, step.rationale.completed_ids, step.index)
  /\ Len(step.rationale.eligible_ids) = step.decision.eligible
  /\ step.selected \in Range(step.rationale.eligible_ids)

(* _validate_closed_decision_and_rationale.                                *)
ClosedPolicy(step) ==
  /\ Shaped(step, PolicyKeys) /\ Context(step)
  /\ \/ /\ step.decision.policy_id = "random"
        /\ step.decision.policy_seed \in Seeds /\ step.decision.utility = None
     \/ /\ step.decision.policy_id = "greedy_prior"
        /\ step.decision.policy_seed = None /\ step.decision.utility \in Int
  /\ step.rationale.rule = RuleOf(step.decision.policy_id)
  /\ step.lineage = <<>>

ClosedV2(step) ==
  /\ step.index \in Nat /\ step.selected \in Candidates /\ step.cumulative \in Nat
  /\ ClosedPolicy(step) /\ Observed(step)

IsDigest(x) == x # Forged /\ x # None

(* _validate_information_gain_closed_payloads.                             *)
ClosedGain(step) ==
  /\ Shaped(step, GainKeys) /\ Context(step)
  /\ IsDigest(step.decision.belief) /\ IsDigest(step.decision.model)
  /\ step.decision.gain \in Int /\ step.rationale.rule = "gain/v1"
  /\ Len(step.lineage) = 1
  /\ LET line == step.lineage[1]
     IN /\ line.index = step.index /\ line.candidate = step.selected
        /\ \A f \in {"before", "after"} :
             line[f] \in Seq(Nat) /\ \E k \in DOMAIN line[f] : line[f][k] # 0
        /\ IsDigest(line.digest_before) /\ IsDigest(line.digest_after)
        /\ line.digest_before = step.decision.belief

IsGainStep(step) == "policy_identity" \in DOMAIN step.decision

ClosedV3(step) ==
  /\ step.index \in Nat /\ step.selected \in Candidates /\ step.cumulative \in Nat
  /\ IF IsGainStep(step)
     THEN step.decision.policy_identity = "information_gain_table" /\ ClosedGain(step)
     ELSE ClosedPolicy(step)
  /\ Observed(step)

Closed(version, step) ==
  CASE version = "v1" -> ClosedV1(step) [] version = "v2" -> ClosedV2(step)
    [] version = "v3" -> ClosedV3(step)

----------------------------------------------------------------------------
(* Capture of a completed record as the next step of a trace.              *)

Cumulative(steps) == IF steps = <<>> THEN 0 ELSE Last(steps).cumulative

StepOf(sp, earlier, rec, cumulative, decision, rationale) ==
  [index |-> Len(earlier), selected |-> rec.candidate,
   decision |-> decision, rationale |-> rationale, observation |-> rec,
   lineage |-> LineageFor(sp, earlier, rec), cumulative |-> FAdd(cumulative, rec.cost)]

CaptureV1(sp, earlier, rec, cumulative) ==
  StepOf(sp, earlier, rec, cumulative, DecisionV1(sp, rec.candidate), RationaleV1(earlier))
CaptureV2(sp, earlier, rec, cumulative) ==
  StepOf(sp, earlier, rec, cumulative, DecisionV2(sp, earlier), RationaleV2(sp, earlier))
CaptureV3(sp, earlier, rec, cumulative) ==
  StepOf(sp, earlier, rec, cumulative, DecisionV3(sp, earlier), RationaleV3(sp, earlier))

Capture(sp, earlier, rec, cumulative) ==
  CASE sp.version = "v1" -> CaptureV1(sp, earlier, rec, cumulative)
    [] sp.version = "v2" -> CaptureV2(sp, earlier, rec, cumulative)
    [] sp.version = "v3" -> CaptureV3(sp, earlier, rec, cumulative)

(* Each step adds its cost to the cumulative cost of the one before it.    *)
Captured(sp, records) ==
  [i \in DOMAIN records |->
    LET earlier == SubSeq(records, 1, i - 1)
    IN Capture(sp, earlier, records[i], RunningCost(earlier))]

----------------------------------------------------------------------------
(* The document.                                                           *)

(* _final_belief_fingerprint.                                              *)
FinalBelief(sp, steps) ==
  IF sp.policy # "information_gain_table" THEN None
  ELSE IF steps = <<>> THEN Digest(Prior) ELSE Last(steps).lineage[1].digest_after

Terminal(sp, steps, stop) ==
  [completed |-> Len(steps), selected |-> [i \in DOMAIN steps |-> steps[i].selected],
   total |-> Cumulative(steps), stop |-> stop, belief |-> FinalBelief(sp, steps),
   steps |-> Digest(steps)]

Sections(sp, steps, terminal) ==
  [run_spec |-> Digest(sp), steps |-> Digest(steps), terminal |-> Digest(terminal)]

Document(sp, steps, stop) ==
  LET terminal == Terminal(sp, steps, stop)
  IN [schema |-> sp.version, run_spec |-> sp, run_spec_digest |-> Digest(sp), steps |-> steps,
      terminal |-> terminal, sections |-> Sections(sp, steps, terminal)]

StopReasons == {"completed", "experiment_budget_exhausted", "cost_budget_exhausted",
                "candidate_space_exhausted", "stopped_by_caller"}

StopAllowed(sp, stop, completed, total) ==
  /\ stop = "experiment_budget_exhausted" => completed = sp.count
  /\ stop = "cost_budget_exhausted" => Exhausted(sp, total)
  /\ stop = "candidate_space_exhausted" => completed = CandidateCount

----------------------------------------------------------------------------
(* Verification of a document, step by step in the order of the document.  *)

Records(steps) == [i \in DOMAIN steps |-> steps[i].observation]
Before(steps, i) == SubSeq(steps, 1, i - 1)

(* mistake: the recorded selection is trusted if it was available          *)
TrustSelection(sp, earlier, previous, step, index) ==
  /\ ~Exhausted(sp, previous)
  /\ step.index = index
  /\ step.selected \in Range(EligibleIds(earlier))
  /\ step.decision = DecisionV1(sp, step.selected)
  /\ step.rationale = RationaleV1(earlier)
  /\ step.observation \in Observation /\ step.observation.candidate = step.selected
  /\ step.lineage = <<>>
  /\ step.cumulative = FAdd(previous, step.observation.cost)
  /\ ~Exceeded(sp, step.cumulative)
  /\ ClosedV1(step)

ValidStepV1(sp, earlier, previous, step, index) ==
  /\ ~Exhausted(sp, previous)
  /\ step.index = index
  /\ step.selected \in Range(EligibleIds(earlier)) /\ Selects(sp, earlier, step.selected)
  /\ step.decision = DecisionV1(sp, step.selected)
  /\ step.rationale = RationaleV1(earlier)
  /\ step.observation \in Observation /\ step.observation.candidate = step.selected
  /\ step.lineage = <<>>
  /\ step.cumulative = FAdd(previous, step.observation.cost)
  /\ ~Exceeded(sp, step.cumulative)
  /\ ClosedV1(step)

(* mistake: the budget must not be exhausted after the step                *)
ExhaustedAfter(sp, earlier, previous, step, index) ==
  /\ ClosedV2(step)
  /\ step.index = index
  /\ ~Contains(CompletedIds(earlier), step.selected) /\ Selects(sp, earlier, step.selected)
  /\ step.decision = DecisionV2(sp, earlier) /\ step.rationale = RationaleV2(sp, earlier)
  /\ step.cumulative = FAdd(previous, step.observation.cost)
  /\ ~Exhausted(sp, step.cumulative)

ValidStepV2(sp, earlier, previous, step, index) ==
  /\ ~Exhausted(sp, previous)
  /\ ClosedV2(step)
  /\ step.index = index
  /\ ~Contains(CompletedIds(earlier), step.selected) /\ Selects(sp, earlier, step.selected)
  /\ step.decision = DecisionV2(sp, earlier) /\ step.rationale = RationaleV2(sp, earlier)
  /\ step.cumulative = FAdd(previous, step.observation.cost)
  /\ ~Exceeded(sp, step.cumulative)

(* _compare_selection.                                                     *)
SameSelection(sp, earlier, step) ==
  /\ Selects(sp, earlier, step.selected)
  /\ step.decision = DecisionV3(sp, earlier) /\ step.rationale = RationaleV3(sp, earlier)

(* mistake: the running cost is bounded and not added up again             *)
TrustCost(sp, earlier, previous, step, index) ==
  /\ ~Exhausted(sp, previous)
  /\ ClosedV3(step)
  /\ step.index = index
  /\ ~Contains(CompletedIds(earlier), step.selected)
  /\ SameSelection(sp, earlier, step)
  /\ ~Exceeded(sp, step.cumulative)
  /\ HasLineage(sp, earlier, step.observation)
  /\ step.lineage = LineageFor(sp, earlier, step.observation)

ValidStepV3(sp, earlier, previous, step, index) ==
  /\ ~Exhausted(sp, previous)
  /\ ClosedV3(step)
  /\ step.index = index
  /\ ~Contains(CompletedIds(earlier), step.selected)
  /\ SameSelection(sp, earlier, step)
  /\ step.cumulative = FAdd(previous, step.observation.cost)
  /\ ~Exceeded(sp, step.cumulative)
  /\ HasLineage(sp, earlier, step.observation)
  /\ step.lineage = LineageFor(sp, earlier, step.observation)

ValidSteps(doc, Valid(_, _, _, _, _)) ==
  \A i \in DOMAIN doc.steps :
    Valid(doc.run_spec, Records(Before(doc.steps, i)), Cumulative(Before(doc.steps, i)),
          doc.steps[i], i - 1)

ValidTerminal(sp, steps, terminal) ==
  /\ terminal.completed = Len(steps)
  /\ terminal.selected = [i \in DOMAIN steps |-> steps[i].selected]
  /\ terminal.total = Cumulative(steps)
  /\ terminal.stop \in StopReasons
  /\ StopAllowed(sp, terminal.stop, Len(steps), terminal.total)
  /\ terminal.belief = FinalBelief(sp, steps)
  /\ terminal.steps = Digest(steps)

(* _reject_hidden_truth and _reject_absolute_paths, over the whole of it.  *)
Clean(sp) == sp.wording = "plain"

Identified(version, doc) ==
  /\ Clean(doc.run_spec)
  /\ doc.schema = version /\ doc.run_spec.version = version
  /\ doc.run_spec_digest = Digest(doc.run_spec)
  /\ doc.sections.run_spec = doc.run_spec_digest

Concluded(doc) ==
  /\ Len(doc.steps) <= doc.run_spec.count
  /\ doc.sections.steps = Digest(doc.steps)
  /\ ValidTerminal(doc.run_spec, doc.steps, doc.terminal)
  /\ doc.sections.terminal = Digest(doc.terminal)

(* _validated_bundle of each version.                                      *)
ValidV1(doc) == Identified("v1", doc) /\ ValidSteps(doc, ValidStepV1) /\ Concluded(doc)
ValidV2(doc) == Identified("v2", doc) /\ ValidSteps(doc, ValidStepV2) /\ Concluded(doc)
ValidV3(doc) == Identified("v3", doc) /\ ValidSteps(doc, ValidStepV3) /\ Concluded(doc)

ValidDocument(version, doc) ==
  CASE version = "v1" -> ValidV1(doc) [] version = "v2" -> ValidV2(doc)
    [] version = "v3" -> ValidV3(doc)

(* _build_run_bundle of each version: what is built is verified too.       *)
Built(tr, Valid(_)) ==
  LET doc == Document(tr.spec, tr.steps, tr.stop)
  IN IF StopAllowed(tr.spec, tr.stop, Len(tr.steps), Cumulative(tr.steps)) /\ Valid(doc)
     THEN doc ELSE Refused
BuiltV1(tr) == Built(tr, ValidV1)
BuiltV2(tr) == Built(tr, ValidV2)
BuiltV3(tr) == Built(tr, ValidV3)

Exported(tr) ==
  CASE tr.spec.version = "v1" -> BuiltV1(tr) [] tr.spec.version = "v2" -> BuiltV2(tr)
    [] tr.spec.version = "v3" -> BuiltV3(tr)

----------------------------------------------------------------------------
(* Replay: the decisions computed again over the recorded observations,    *)
(* each persisted as the record of a run.                                  *)

ReplaysStepV1(sp, earlier, previous, step) ==
  /\ ~Exhausted(sp, previous)
  /\ Selects(sp, earlier, step.selected)
  /\ DecisionV1(sp, Selected(sp, earlier)) = step.decision
  /\ RationaleV1(earlier) = step.rationale
  /\ ~Exceeded(sp, FAdd(previous, step.observation.cost))
  /\ FAdd(previous, step.observation.cost) = step.cumulative
  /\ step.lineage = <<>>

(* mistake: an experiment that costs the rest of the budget exceeds it      *)
ReplaysBelowBudget(sp, earlier, previous, step) ==
  /\ Selects(sp, earlier, step.selected)
  /\ DecisionV2(sp, earlier) = step.decision /\ RationaleV2(sp, earlier) = step.rationale
  /\ ~Exhausted(sp, FAdd(previous, step.observation.cost))
  /\ FAdd(previous, step.observation.cost) = step.cumulative

ReplaysStepV2(sp, earlier, previous, step) ==
  /\ ~Exhausted(sp, previous)
  /\ Selects(sp, earlier, step.selected)
  /\ DecisionV2(sp, earlier) = step.decision /\ RationaleV2(sp, earlier) = step.rationale
  /\ ~Exceeded(sp, FAdd(previous, step.observation.cost))
  /\ FAdd(previous, step.observation.cost) = step.cumulative

(* Version 3 captures the record again, and compares the whole step.       *)
ReplaysStepV3(sp, earlier, previous, step) ==
  /\ ~Exhausted(sp, previous)
  /\ SameSelection(sp, earlier, step)
  /\ ~Exceeded(sp, FAdd(previous, step.observation.cost))
  /\ HasLineage(sp, earlier, step.observation)
  /\ CaptureV3(sp, earlier, step.observation, previous) = step

ReplaysSteps(doc, Replays(_, _, _, _)) ==
  \A i \in DOMAIN doc.steps :
    Replays(doc.run_spec, Records(Before(doc.steps, i)), Cumulative(Before(doc.steps, i)),
            doc.steps[i])

(* The terminal summary is computed again from the steps captured again.   *)
SameTerminal(doc) ==
  Terminal(doc.run_spec, Captured(doc.run_spec, Records(doc.steps)), doc.terminal.stop)
    = doc.terminal

(* mistake: the replayed history is persisted newest first                 *)
NewestFirst(doc) == Reverse(Records(doc.steps))

Persisted(doc) == Records(doc.steps)

(* The loops of replay_run_bundle, _v2 and _v3.                            *)
ReplayedV1(doc) ==
  IF ReplaysSteps(doc, ReplaysStepV1) /\ SameTerminal(doc) THEN Persisted(doc) ELSE Refused
ReplayedV2(doc) ==
  IF ReplaysSteps(doc, ReplaysStepV2) /\ SameTerminal(doc) THEN Persisted(doc) ELSE Refused
ReplayedV3(doc) ==
  IF ReplaysSteps(doc, ReplaysStepV3) /\ SameTerminal(doc) THEN Persisted(doc) ELSE Refused

Replayed(doc) ==
  CASE doc.schema = "v1" -> ReplayedV1(doc) [] doc.schema = "v2" -> ReplayedV2(doc)
    [] doc.schema = "v3" -> ReplayedV3(doc)

----------------------------------------------------------------------------
(* The run.                                                                *)

Init ==
  /\ spec \in Specs
  /\ history = <<>> /\ trace = None /\ document = None
  /\ edits = 0 /\ verdict = None /\ database = None

(* run_workload_experiment, of a run whose evidence is possible.           *)
Complete(rec) ==
  /\ trace = None
  /\ Admissible(spec, history, rec)
  /\ HasLineage(spec, history, rec)
  /\ history' = Append(history, rec)
  /\ UNCHANGED <<spec, trace, document, edits, verdict, database>>

(* A caller makes a trace of what is completed and says why it ends.       *)
MakeTrace(stop) ==
  /\ trace = None
  /\ trace' = [spec |-> spec, steps |-> Captured(spec, history), stop |-> stop]
  /\ UNCHANGED <<spec, history, document, edits, verdict, database>>

Export ==
  /\ trace # None /\ document = None
  /\ document' = Exported(trace)
  /\ UNCHANGED <<spec, history, trace, edits, verdict, database>>

Exists == document \notin {None, Refused}

(* verify_run_bundle, _v2 or _v3.                                          *)
Verify(version) ==
  /\ Exists /\ verdict = None
  /\ verdict' = IF ValidDocument(version, document) THEN "valid" ELSE Refused
  /\ UNCHANGED <<spec, history, trace, document, edits, database>>

(* The replay of the document's version, which verifies it first.          *)
Replay ==
  /\ Exists /\ database = None /\ verdict # None
  /\ database' = IF ValidDocument(document.schema, document) THEN Replayed(document) ELSE Refused
  /\ UNCHANGED <<spec, history, trace, document, edits, verdict>>

----------------------------------------------------------------------------
(* Edits.  Each changes one place of a step, of a trace or of a document.  *)

Renamed(f, c) == [k \in DOMAIN f |-> IF k = "selected" THEN c ELSE f[k]]

(* The step as if another candidate had been selected and observed.        *)
Reselected(step, c) ==
  [step EXCEPT !.selected = c, !.decision = Renamed(@, c), !.rationale = Renamed(@, c),
               !.observation.candidate = c]

StepEdits(step) ==
  {Reselected(step, c) : c \in Candidates}
    \cup {[step EXCEPT !.index = k] : k \in 0 .. 2}
    \cup {[step EXCEPT !.selected = c] : c \in Candidates}
    \cup {[step EXCEPT !.observation = rec] : rec \in Observation}
    \cup {[step EXCEPT !.cumulative = @ + k] : k \in {-1, 1}}
    \cup {[step EXCEPT !.decision[f] = Forged] : f \in DOMAIN step.decision}
    \cup {[step EXCEPT !.decision.policy_seed = seed] :
            seed \in IF "policy_seed" \in DOMAIN step.decision THEN Seeds ELSE {}}
    \cup {[step EXCEPT !.rationale[f] = Forged] : f \in DOMAIN step.rationale}
    \cup {[step EXCEPT !.lineage = <<>>]}
    \cup {[step EXCEPT !.lineage[1][f] = Forged] :
            f \in IF step.lineage = <<>> THEN {} ELSE DOMAIN step.lineage[1]}

MayEdit == edits < MaxEdits /\ edits' = edits + 1

EditTrace ==
  /\ trace # None /\ document = None /\ MayEdit
  /\ \E i \in DOMAIN trace.steps : \E step \in StepEdits(trace.steps[i]) :
       /\ Closed(spec.version, step)
       /\ trace' = [trace EXCEPT !.steps[i] = step]
  /\ UNCHANGED <<spec, history, document, verdict, database>>

(* Steps of up to two observations that the run never made.                *)
Invented(sp) ==
  {records \in BoundedSeq(Observation, 2) :
    \A i \in DOMAIN records : Selectable(sp, SubSeq(records, 1, i - 1))}
Inventions == {Captured(document.run_spec, records) : records \in Invented(document.run_spec)}

EditDocument ==
  /\ Exists /\ verdict = None /\ MayEdit
  /\ document' \in
       {[document EXCEPT !.schema = version] : version \in Versions}
         \cup {[document EXCEPT !.run_spec = sp] : sp \in Specs}
         \cup {[document EXCEPT !.run_spec_digest = Digest(Forged)]}
         \cup (UNION {{[document EXCEPT !.steps[i] = step] : step \in StepEdits(document.steps[i])} :
                        i \in DOMAIN document.steps})
         \cup {[document EXCEPT !.steps = steps] : steps \in Inventions}
         \cup {[document EXCEPT !.terminal.stop = stop] : stop \in StopReasons}
         \cup {[document EXCEPT !.terminal.total = @ + 1], [document EXCEPT !.terminal.completed = @ + 1]}
         \cup {[document EXCEPT !.terminal[f] = Forged] : f \in {"selected", "belief", "steps"}}
         \cup {[document EXCEPT !.sections[f] = Digest(Forged)] : f \in DOMAIN document.sections}
  /\ document' # document
  /\ UNCHANGED <<spec, history, trace, verdict, database>>

(* Everything that follows from an edit is computed again.                 *)
Reseal ==
  /\ Exists /\ verdict = None /\ edits > 0
  /\ \A i \in DOMAIN document.steps :
       document.run_spec.policy = "information_gain_table" => Len(document.steps[i].lineage) = 1
  /\ document' = Document(document.run_spec, document.steps, document.terminal.stop)
  /\ document' # document
  /\ UNCHANGED <<spec, history, trace, edits, verdict, database>>

Next ==
  \/ \E rec \in Observation : Complete(rec)
  \/ \E stop \in StopReasons : MakeTrace(stop)
  \/ Export
  \/ \E version \in Versions : Verify(version)
  \/ Replay
  \/ EditTrace \/ EditDocument \/ Reseal

Spec == Init /\ [][Next]_vars

----------------------------------------------------------------------------
(* What is promised.                                                       *)

(* An untouched trace of a run, with a stop reason that is true of it and  *)
(* no forbidden wording, is exported: capture and verification agree.      *)
EveryTraceExports ==
  document = Refused =>
    \/ edits > 0
    \/ ~Clean(trace.spec)
    \/ ~StopAllowed(spec, trace.stop, Len(history), Cumulative(trace.steps))

(* A document says what an honest run of its RunSpec would have exported.  *)
Genuine(doc) ==
  LET sp == doc.run_spec
      records == Records(doc.steps)
  IN /\ records \in Seq(Observation)
     /\ \A i \in DOMAIN records : Admissible(sp, SubSeq(records, 1, i - 1), records[i])
     /\ Resumable(sp, records)
     /\ doc = Document(sp, Captured(sp, records), doc.terminal.stop)
     /\ StopAllowed(sp, doc.terminal.stop, Len(records), doc.terminal.total)

(* The runner, which sums the costs of a history anew, and the trace, which *)
(* adds them up one by one, agree on the costs of every history; otherwise *)
(* a run may be captured that the runner would not have made.              *)
SumsAgree ==
  \A n \in 0 .. CandidateCount : \A records \in [1 .. n -> Observation] :
    SpentCost(records) = RunningCost(records)

(* Rounded sums of costs grow: none is below the last cost in it.          *)
CostsGrow ==
  \A n \in 1 .. CandidateCount : \A records \in [1 .. n -> Observation] :
    RunningCost(records) \in Nat /\ RunningCost(records) >= records[n].cost

(* Nothing else is exported, however the steps of a trace were made, and   *)
(* nothing else is verified, however a document was edited and sealed.     *)
ExportedIsGenuine == Exists /\ document = Exported(trace) => Genuine(document)
AcceptedIsGenuine == verdict = "valid" => Genuine(document)

(* Replay agrees with verification, which computes the same decisions in   *)
(* another way: what one accepts the other does.                           *)
ReplayAgrees == database = Refused => ~ValidDocument(document.schema, document)

(* What replay persists is a history that the runner can resume.           *)
ReplayedRunResumes ==
  database \notin {None, Refused} =>
    Resumable(document.run_spec, database)
=============================================================================
