-------------------------- MODULE ClosedLoop_proofs --------------------------
(***************************************************************************)
(* Whatever the candidates, the outcomes and the arms are: a belief is     *)
(* exactly the evidence of the pairs its arm has completed, its sigmas     *)
(* come from the past alone and are those a decision was made with, a run  *)
(* has spent what it was allowed to and stops for the reason it gives,     *)
(* arms of one specification have the same run, a lookahead decision is    *)
(* the best two-step strategy, and the next decision keeps its promise.    *)
(***************************************************************************)
EXTENDS ClosedLoop, FiniteSetTheorems, WellFoundedInduction, TLAPS

(* Sigmas is the set of the standard deviations that occur.                *)
SigmasOccur == \A sources : SigmaLevel(sources) \in Sigmas

-----------------------------------------------------------------------------
(* Sequences as they grow.                                                 *)

LEMMA Appended ==
  ASSUME NEW S, NEW s \in Seq(S), NEW x \in S
  PROVE  /\ Append(s, x) \in Seq(S) /\ Len(Append(s, x)) = Len(s) + 1
         /\ DOMAIN s = 1 .. Len(s) /\ DOMAIN Append(s, x) = 1 .. Len(s) + 1 /\ Len(s) \in Nat
         /\ \A i \in 1 .. Len(s) : Append(s, x)[i] = s[i]
         /\ Append(s, x)[Len(s) + 1] = x
OBVIOUS

LEMMA SetOfAppended ==
  ASSUME NEW S, NEW s \in Seq(S), NEW x \in S
  PROVE  ToSet(Append(s, x)) = ToSet(s) \cup {x}
<1>1. 1 .. Len(s) + 1 = (1 .. Len(s)) \cup {Len(s) + 1} BY Appended
<1>2. QED BY <1>1, Appended DEF ToSet

(* Every nonempty set of naturals has a least element.                     *)
LEMMA LeastElement ==
  ASSUME NEW T \in SUBSET Nat, T # {}
  PROVE  \E x \in T : \A y \in T : x <= y
<1>1. PICK x \in T : \A y \in T : ~ (<<y, x>> \in OpToRel(<, Nat)) BY NatLessThanWellFounded, WFMin
<1>2. \A y \in T : y < x => <<y, x>> \in OpToRel(<, Nat) BY DEF OpToRel
<1>3. \A y \in T : ~ (y < x) BY <1>1, <1>2
<1>4. \A y \in T : x \in Nat /\ y \in Nat OBVIOUS
<1>5. QED BY <1>3, <1>4

-----------------------------------------------------------------------------
(* What a decision is about.                                               *)

Scored == {"ineligible", "opens_pair", "completes_pair"}

LEMMA PlanIsOfItsCandidate ==
  ASSUME NEW c, NEW cands, NEW done, NEW w, NEW budget, NEW snapshot
  PROVE  /\ PlanFirst(c, cands, done, w, budget, snapshot).candidate = c
         /\ Score(c, done, w, snapshot).candidate = c
<1>1. PlanFirst(c, cands, done, w, budget, snapshot).candidate = c BY DEF PlanFirst
<1>2. Score(c, done, w, snapshot).candidate = c BY DEF Score
<1>3. QED BY <1>1, <1>2

LEMMA PlansAreScorable ==
  ASSUME NEW cands, NEW snapshot, NEW plan \in Ranking(cands, snapshot)
  PROVE  /\ plan.candidate \in cands \ Done /\ Effect(plan.candidate, Done) \in Scored
<1>1. PICK c \in Scorable(cands, Done, RemainingBudget) : plan.candidate = c
  BY PlanIsOfItsCandidate DEF Ranking, Lookahead, InformationGain
<1>2. QED BY <1>1 DEF Scorable, Scored

-----------------------------------------------------------------------------
(* The types.                                                              *)

Ids == {x.id : x \in CalibrationEffects} \cup (ArmIds \X Keys)
Updates == [pair : Keys, group : Groups, sigma : Sigmas, sources : SUBSET Ids, bin : Outcomes]
Diagnoses ==
  [outlier : {IsOutlier(w, s, b) : w \in [Hypotheses -> Nat], s \in Sigmas, b \in Outcomes},
   tail : {IsTail(w, s, b) : w \in [Hypotheses -> Nat], s \in Sigmas, b \in Outcomes},
   state : {"appears_misspecified", "uncertain", "adequate"}]

Chosen(c) ==
  /\ c \in Candidates \ Done /\ Effect(c, Done) \in Scored
  /\ FlCost(c) <= RemainingBudget + Tolerance

Typed ==
  /\ table \in OutcomeTables
  /\ accesses \subseteq [run : ArmIds, step : Nat, candidate : Candidates, value : Int]
  /\ DOMAIN runs \subseteq ArmIds
  /\ phase \in {"idle", "loop", "decided", "observed", "raised"}
  /\ arm \in ArmIds \cup {None} /\ (phase = "idle" <=> arm = None)
  /\ completed \in Seq(Candidates) /\ spent \in Nat
  /\ weights \in [Hypotheses -> Nat]
  /\ updates \in Seq(Updates)
  /\ \A e \in history : e.id \in Ids
  /\ \A i \in DOMAIN updates : updates[i].sources \subseteq {e.id : e \in history}
  /\ applied \subseteq Keys
  /\ diagnostics \in Seq(Diagnoses)
  /\ phase = "decided" => Chosen(decision.candidate) /\ decision.step \in Nat

(* The two experiments of a comparison.                                    *)
Member(c, k, a) == c \in Done /\ Design[c].eligible /\ Design[c].key = k /\ Design[c].arm = a
OneEach == \A c, d \in Done : \A k, a : Member(c, k, a) /\ Member(d, k, a) => c = d
Met(k) == \A a \in Arms : \E c \in Done : Member(c, k, a)

LEMMA DoneIsTyped == ASSUME Typed PROVE Done \subseteq Candidates
BY DEF Typed, Done, ToSet

LEMMA ValidPairsAreMet ==
  ASSUME OneEach, Done \subseteq Candidates
  PROVE  ValidPairs(Done) = {k \in Keys : Met(k)}
<1>1. ASSUME NEW k \in Keys, NEW a \in Arms
      PROVE  LET M == {c \in Done : Design[c].eligible /\ Design[c].key = k /\ Design[c].arm = a}
             IN  Cardinality(M) = 1 <=> \E c \in Done : Member(c, k, a)
  <2>. DEFINE M == {c \in Done : Design[c].eligible /\ Design[c].key = k /\ Design[c].arm = a}
  <2>1. IsFiniteSet(Candidates) BY PlannerAssumption
  <2>2. IsFiniteSet(M) BY <2>1, FS_Subset
  <2>3. Cardinality(M) = 1 <=> \E c : M = {c} BY <2>2, FS_Singleton
  <2>4. (\E c : M = {c}) <=> \E c \in Done : Member(c, k, a)
    BY DEF OneEach, Member
  <2>5. QED BY <2>3, <2>4
<1>2. QED BY <1>1 DEF ValidPairs, Met

LEMMA ArmIsFound ==
  ASSUME NEW k, NEW a \in Arms, Met(k)
  PROVE  Member(ArmOf(k, a), k, a)
BY DEF Met, Member, ArmOf

LEMMA KeyOfMember ==
  ASSUME Typed, NEW k, NEW a, NEW c, Member(c, k, a)
  PROVE  c \in Candidates /\ k \in Keys /\ Design[c].group \in Groups /\ k \in Nat
BY DoneIsTyped, PlannerAssumption DEF Member, Keys, Groups, EligibleCandidates

LEMMA Compared ==
  ASSUME Typed, NEW k, Met(k)
  PROVE  /\ BinOf(Comparison(k)) \in Outcomes
         /\ k \in Keys /\ Design[ArmOf(k, "sgd")].group \in Groups
<1>1. Member(ArmOf(k, "sgd"), k, "sgd") /\ Member(ArmOf(k, "adam"), k, "adam")
  BY ArmIsFound DEF Arms
<1>2. ArmOf(k, "sgd") \in Candidates /\ ArmOf(k, "adam") \in Candidates
  BY <1>1, KeyOfMember
<1>3. table \in OutcomeTables BY DEF Typed
<1>4. QED BY <1>1, <1>2, <1>3, KeyOfMember, ClosedLoopAssumption DEF Comparison

LEMMA SigmaIsTyped ==
  ASSUME SigmasOccur, NEW group, NEW id
  PROVE  /\ SelectSigma(group, id).sigma \in Sigmas
         /\ SelectSigma(group, id).sources \subseteq {e.id : e \in history}
         /\ Snapshot(group) \in Sigmas
<1>1. FixedSigma \in Sigmas BY ClosedLoopAssumption
<1>2. \A sources : Calibrate(sources) \in Sigmas BY <1>1 DEF Calibrate, SigmasOccur
<1>3. Snapshot(group) \in Sigmas BY <1>1, <1>2 DEF Snapshot
<1>4. SelectSigma(group, id).sigma \in Sigmas BY <1>1, <1>2 DEF SelectSigma
<1>5. SelectSigma(group, id).sources \subseteq {e.id : e \in history}
  BY DEF SelectSigma, EligibleEffects
<1>6. QED BY <1>3, <1>4, <1>5

LEMMA SnapshotsAreTaken ==
  ASSUME SigmasOccur, NEW group \in Groups
  PROVE  Snapshots[group] = Snapshot(group)
<1>1. \A g : Snapshot(g) \in Sigmas BY SigmaIsTyped
<1>2. [g \in Groups |-> Snapshot(g)] \in [Groups -> Sigmas] BY <1>1
<1>3. \E s \in [Groups -> Sigmas] : \A g \in Groups : s[g] = Snapshot(g) BY <1>2
<1>4. QED BY <1>3 DEF Snapshots

LEMMA WeighedIsTyped ==
  ASSUME NEW w \in [Hypotheses -> Nat], NEW s \in Sigmas, NEW o \in Outcomes
  PROVE  /\ After(w, s, o) \in [Hypotheses -> Nat]
         /\ \A h \in Hypotheses : After(w, s, o)[h] = w[h] * Likelihood[s][o][h]
<1>1. \A h \in Hypotheses : Likelihood[s][o][h] \in Nat /\ w[h] \in Nat BY PlannerAssumption
<1>2. \A h \in Hypotheses : w[h] * Likelihood[s][o][h] \in Nat BY <1>1
<1>3. After(w, s, o) = [h \in Hypotheses |-> w[h] * Likelihood[s][o][h]]
  BY DEF After, Weigh, Hypotheses
<1>4. QED BY <1>2, <1>3

-----------------------------------------------------------------------------
(* What the actions do.                                                    *)

LEMMA DecideChooses ==
  ASSUME Typed, Decide
  PROVE  \/ phase' = "raised" /\ UNCHANGED decision
         \/ /\ phase' = "decided" /\ Chosen(decision'.candidate)
            /\ decision'.step = Len(completed) + 1 /\ decision'.snapshot = Snapshots
<1>1. SUFFICES ASSUME NEW best \in Ranking(Feasible, Snapshots),
                      phase' = "decided", decision' = DecisionTrace(best, Snapshots)
               PROVE  /\ Chosen(decision'.candidate)
                      /\ decision'.step = Len(completed) + 1 /\ decision'.snapshot = Snapshots
  BY DEF Decide
<1>2. decision'.candidate = best.candidate
  BY <1>1 DEF DecisionTrace
<1>3. decision'.step = Len(completed) + 1 /\ decision'.snapshot = Snapshots
  BY <1>1 DEF DecisionTrace
<1>4. best.candidate \in Feasible \ Done /\ Effect(best.candidate, Done) \in Scored
  BY PlansAreScorable
<1>5. Chosen(best.candidate) BY <1>4 DEF Feasible, FitsRoughly, Chosen
<1>6. QED BY <1>2, <1>3, <1>5

LEMMA NextPair ==
  ASSUME Typed, OneEach, Unapplied # {}
  PROVE  LET k == CHOOSE k \in Unapplied : \A j \in Unapplied : k <= j
         IN  k \in Keys \ applied /\ Met(k)
<1>1. Unapplied = {k \in Keys : Met(k)} \ applied
  BY DoneIsTyped, ValidPairsAreMet DEF Unapplied
<1>2. Keys \subseteq Nat BY PlannerAssumption DEF Keys
<1>3. Unapplied \in SUBSET Nat BY <1>1, <1>2
<1>4. \E k \in Unapplied : \A j \in Unapplied : k <= j BY <1>3, LeastElement
<1>5. QED BY <1>1, <1>4

Fresh(k) == \A i \in DOMAIN updates : updates[i].pair # k

LEMMA ApplyUpdates ==
  ASSUME Typed, OneEach, Apply
  PROVE  \/ phase' = "raised" /\ UNCHANGED <<lineage, history, applied>>
         \/ /\ UNCHANGED phase
            /\ \E k \in Keys \ applied :
                 Met(k) /\ Fresh(k) /\ Update(k) /\ applied' = applied \cup {k}
<1>. DEFINE k == CHOOSE k \in Unapplied : \A j \in Unapplied : k <= j
            estimate == SelectSigma(Design[ArmOf(k, "sgd")].group, EffectId(k))
            refused == \/ \E i \in DOMAIN updates : updates[i].pair = k
                       \/ Total(After(weights, estimate.sigma, BinOf(Comparison(k)))) = 0
<1>1. Unapplied # {} BY DEF Apply
<1>2. k \in Keys \ applied /\ Met(k) BY <1>1, NextPair
<1>3. IF refused THEN phase' = "raised" /\ UNCHANGED <<lineage, history, applied>>
      ELSE Update(k) /\ applied' = applied \cup {k} /\ UNCHANGED phase
  BY DEF Apply
<1>4. CASE refused BY <1>3, <1>4
<1>5. CASE ~refused
  <2>1. Fresh(k) BY <1>5 DEF Fresh
  <2>. HIDE DEF k, refused
  <2>2. QED BY <1>2, <1>3, <1>5, <2>1
<1>6. QED BY <1>4, <1>5

(* An update, written out.                                                 *)
LEMMA Updated ==
  ASSUME SigmasOccur, Typed, NEW k \in Keys \ applied, Met(k), Update(k), arm \in ArmIds
  PROVE  \E new \in Updates, diagnosis \in Diagnoses, effect \in history' :
           /\ new.pair = k /\ new.group = Design[ArmOf(k, "sgd")].group
           /\ new.bin = BinOf(Comparison(k))
           /\ new.sigma = SelectSigma(new.group, EffectId(k)).sigma
           /\ new.sources = SelectSigma(new.group, EffectId(k)).sources
           /\ updates' = Append(updates, new)
           /\ diagnosis = Diagnose(new.sigma, new.bin) /\ diagnostics' = Append(diagnostics, diagnosis)
           /\ weights' = After(weights, new.sigma, new.bin)
           /\ history' = history \cup {effect}
           /\ effect.id = EffectId(k) /\ effect.group = new.group
           /\ effect.available = NextSequence /\ effect.id \in Ids
<1>. DEFINE group == Design[ArmOf(k, "sgd")].group
            sigma == SelectSigma(group, EffectId(k)).sigma
            sources == SelectSigma(group, EffectId(k)).sources
            bin == BinOf(Comparison(k))
            new == [pair |-> k, group |-> group, sigma |-> sigma, sources |-> sources, bin |-> bin]
            diagnosis == Diagnose(sigma, bin)
            effect == [id |-> EffectId(k), group |-> group, value |-> Comparison(k),
                       available |-> NextSequence]
<1>1. bin \in Outcomes /\ group \in Groups BY Compared
<1>2. sigma \in Sigmas /\ sources \subseteq {e.id : e \in history} BY SigmaIsTyped
<1>3. {e.id : e \in history} \subseteq Ids BY DEF Typed
<1>4. new \in Updates BY <1>1, <1>2, <1>3 DEF Updates
<1>5. diagnosis \in Diagnoses
  <2>1. weights \in [Hypotheses -> Nat] BY DEF Typed
  <2>2. \A o, t : Adequacy(o, t) \in {"appears_misspecified", "uncertain", "adequate"}
    BY DEF Adequacy
  <2>. HIDE DEF sigma, bin
  <2>3. QED BY <1>1, <1>2, <2>1, <2>2 DEF Diagnose, Diagnoses
<1>6. EffectId(k) \in Ids BY DEF EffectId, Ids
<1>7. /\ updates' = Append(updates, new) /\ diagnostics' = Append(diagnostics, diagnosis)
      /\ weights' = After(weights, sigma, bin) /\ history' = history \cup {effect}
  BY DEF Update
<1>8. /\ new.pair = k /\ new.group = group /\ new.bin = bin /\ new.sigma = sigma
      /\ new.sources = sources
  OBVIOUS
<1>9. effect.id = EffectId(k) /\ effect.group = group /\ effect.available = NextSequence
  OBVIOUS
<1>. HIDE DEF new, diagnosis, effect, sigma, sources, bin
<1>10. diagnosis = Diagnose(sigma, bin) BY DEF diagnosis
<1>11. bin = BinOf(Comparison(k)) /\ sigma = SelectSigma(group, EffectId(k)).sigma
       /\ sources = SelectSigma(group, EffectId(k)).sources
  BY DEF bin, sigma, sources
<1>12. QED BY <1>4, <1>5, <1>6, <1>7, <1>8, <1>9, <1>10, <1>11

-----------------------------------------------------------------------------
(* The types hold throughout.                                              *)

LEMMA TypedInit == ASSUME Init PROVE Typed
<1>1. Prior \in [Hypotheses -> Nat] BY DEF Prior, Hypotheses
<1>2. QED BY <1>1 DEF Init, Typed

LEMMA TypedExperiment ==
  ASSUME Typed, Experiment PROVE Typed'
<1>. DEFINE c == decision.candidate
<1>1. c \in Candidates /\ decision.step \in Nat BY DEF Typed, Experiment, Chosen
<1>2. arm \in ArmIds BY DEF Typed, Experiment
<1>3. Access(arm, decision.step, c) \in [run : ArmIds, step : Nat, candidate : Candidates, value : Int]
  <2>1. table[c] \in Int BY <1>1, ClosedLoopAssumption DEF Typed
  <2>2. QED BY <1>1, <1>2, <2>1 DEF Access
<1>4. Cost[c] \in Nat BY <1>1, PlannerAssumption
<1>. HIDE DEF c
<1>5. \/ phase' = "raised" /\ UNCHANGED <<accesses, spent, completed>>
      \/ /\ accesses' = accesses \cup {Access(arm, decision.step, c)} /\ spent' = spent + Cost[c]
         /\ \/ completed' = Append(completed, c) /\ phase' = "observed"
            \/ phase' = "raised" /\ UNCHANGED completed
  BY DEF Experiment, c
<1>6. accesses' \subseteq [run : ArmIds, step : Nat, candidate : Candidates, value : Int]
  BY <1>3, <1>5 DEF Typed
<1>7. spent' \in Nat /\ completed' \in Seq(Candidates) /\ phase' \in {"observed", "raised"}
  <2>1. spent + Cost[c] \in Nat /\ Append(completed, c) \in Seq(Candidates) BY <1>1, <1>4 DEF Typed
  <2>2. QED BY <1>5, <2>1 DEF Typed, Experiment
<1>8. QED BY <1>2, <1>6, <1>7 DEF Typed, Experiment, lineage

LEMMA TypedApply ==
  ASSUME SigmasOccur, Typed, OneEach, Apply PROVE Typed'
<1>1. arm \in ArmIds BY DEF Typed, Apply
<1>2. UNCHANGED <<table, accesses, runs, arm, completed, spent, decision>> BY DEF Apply
<1>3. CASE phase' = "raised" /\ UNCHANGED <<lineage, history, applied>>
  BY <1>1, <1>2, <1>3 DEF Typed, lineage, Apply
<1>4. CASE UNCHANGED phase /\ \E k \in Keys \ applied :
                 Met(k) /\ Fresh(k) /\ Update(k) /\ applied' = applied \cup {k}
  <2>1. PICK k \in Keys \ applied : Met(k) /\ Update(k) /\ applied' = applied \cup {k} BY <1>4
  <2>2. PICK new \in Updates, diagnosis \in Diagnoses, effect \in history' :
           /\ new.sigma = SelectSigma(new.group, EffectId(k)).sigma
           /\ new.sources = SelectSigma(new.group, EffectId(k)).sources
           /\ updates' = Append(updates, new) /\ diagnostics' = Append(diagnostics, diagnosis)
           /\ weights' = After(weights, new.sigma, new.bin)
           /\ history' = history \cup {effect} /\ effect.id \in Ids
    BY <1>1, <2>1, Updated
  <2>3. updates' \in Seq(Updates) /\ diagnostics' \in Seq(Diagnoses) BY <2>2 DEF Typed
  <2>4. weights' \in [Hypotheses -> Nat] BY <2>2, WeighedIsTyped DEF Typed, Updates
  <2>5. \A e \in history' : e.id \in Ids BY <2>2 DEF Typed
  <2>6. applied' \subseteq Keys BY <2>1 DEF Typed
  <2>7. {e.id : e \in history} \subseteq {e.id : e \in history'} BY <2>2
  <2>8. \A i \in DOMAIN updates' : updates'[i].sources \subseteq {e.id : e \in history'}
    <3>1. new.sources \subseteq {e.id : e \in history} BY <2>2, SigmaIsTyped
    <3>2. updates \in Seq(Updates) BY DEF Typed
    <3>3. QED BY <2>2, <2>7, <3>1, <3>2, Appended DEF Typed
  <2>9. QED BY <1>1, <1>2, <1>4, <2>3, <2>4, <2>5, <2>6, <2>8 DEF Typed, Apply
<1>5. QED BY <1>3, <1>4, ApplyUpdates

LEMMA TypedNext ==
  ASSUME SigmasOccur, Typed, OneEach, [Next]_vars PROVE Typed'
<1>1. ASSUME NEW a \in ArmIds, Start(a) PROVE Typed'
  <2>1. Prior \in [Hypotheses -> Nat] BY DEF Prior, Hypotheses
  <2>2. \A e \in InitialHistory(a) : e.id \in Ids BY DEF InitialHistory, Ids
  <2>3. a # None BY ClosedLoopAssumption
  <2>4. QED BY <1>1, <2>1, <2>2, <2>3 DEF Start, Typed
<1>2. CASE Decide
  <2>1. CASE phase' = "raised" /\ UNCHANGED decision
    BY <1>2, <2>1 DEF Decide, Typed, lineage, Chosen
  <2>2. CASE /\ phase' = "decided" /\ Chosen(decision'.candidate)
             /\ decision'.step = Len(completed) + 1 /\ decision'.snapshot = Snapshots
    <3>1. UNCHANGED <<completed, spent, arm>> BY <1>2 DEF Decide
    <3>2. Chosen(decision'.candidate) <=> Chosen(decision.candidate)'
      BY <3>1 DEF Chosen, Done, RemainingBudget, Current
    <3>3. decision'.step \in Nat BY <2>2 DEF Typed
    <3>4. QED BY <1>2, <2>2, <3>2, <3>3 DEF Decide, Typed, lineage
  <2>3. QED BY <1>2, <2>1, <2>2, DecideChooses
<1>3. CASE Experiment BY <1>3, TypedExperiment
<1>4. CASE Apply BY <1>4, TypedApply
<1>5. CASE Recompute BY <1>5 DEF Recompute, Typed, lineage
<1>6. CASE Finish
  <2>1. arm \in ArmIds /\ phase' \in {"idle", "raised"} /\ (phase' = "idle" <=> arm' = None)
    BY <1>6, ClosedLoopAssumption DEF Finish, Typed
  <2>2. DOMAIN runs' \subseteq ArmIds BY <1>6, <2>1 DEF Finish, Typed
  <2>3. arm' \in ArmIds \cup {None} BY <1>6, <2>1 DEF Finish
  <2>4. QED BY <1>6, <2>1, <2>2, <2>3 DEF Finish, Typed, lineage
<1>7. CASE UNCHANGED vars BY <1>7 DEF vars, lineage, Typed, Chosen, Done, RemainingBudget, Current
<1>8. CASE Over BY <1>7, <1>8 DEF Over
<1>9. QED BY <1>1, <1>2, <1>3, <1>4, <1>5, <1>6, <1>7, <1>8 DEF Next

-----------------------------------------------------------------------------
(* The pairs: what is applied is what has been completed, once.            *)

Paired ==
  /\ \A i, j \in DOMAIN completed : completed[i] = completed[j] => i = j
  /\ OneEach
  /\ applied = {updates[i].pair : i \in DOMAIN updates}
  /\ \A i, j \in DOMAIN updates : updates[i].pair = updates[j].pair => i = j
  /\ \A k \in applied : Met(k)
  /\ phase \in {"loop", "decided"} => \A k \in Keys : Met(k) => k \in applied
  /\ phase = "observed" => \A j, k \in Keys \ applied : Met(j) /\ Met(k) => j = k

(* A candidate that is scored has no counterpart of its own arm.           *)
LEMMA ScoredIsNew ==
  ASSUME NEW c, c \notin Done, Effect(c, Done) \in Scored,
         NEW d, NEW k, NEW a, Member(d, k, a), Design[c].eligible
  PROVE  ~ (Design[c].key = k /\ Design[c].arm = a)
<1>. DEFINE related == {e \in Done : SameComparison(c, e)}
            arms == {Design[e].arm : e \in related}
<1>1. SUFFICES ASSUME Design[c].key = k, Design[c].arm = a PROVE FALSE
  OBVIOUS
<1>2. d \in related BY <1>1 DEF Member, SameComparison
<1>3. Design[c].arm \in arms BY <1>1, <1>2 DEF Member
<1>. HIDE DEF arms, related
<1>4. Effect(c, Done) = IF arms = Arms THEN "already_completed_pair"
                        ELSE IF Design[c].arm \in arms THEN "duplicate_arm"
                        ELSE IF Cardinality(related) > 1 THEN "ambiguous_counterpart"
                        ELSE IF related # {} THEN "completes_pair"
                        ELSE "opens_pair"
  BY DEF Effect, arms, related
<1>5. Effect(c, Done) \in {"already_completed_pair", "duplicate_arm"} BY <1>3, <1>4
<1>6. QED BY <1>5 DEF Scored

LEMMA ExperimentGrows ==
  ASSUME Typed, Experiment
  PROVE  LET c == decision.candidate
         IN  /\ Chosen(c)
             /\ \/ phase' = "raised" /\ UNCHANGED completed
                \/ /\ phase' = "observed" /\ completed' = Append(completed, c)
                   /\ Done' = Done \cup {c}
                   /\ spent' = spent + Cost[c] /\ FitsRoughly(Fl(spent + Cost[c]), Fl(Current.budget))
<1>. DEFINE c == decision.candidate
<1>1. Chosen(c) BY DEF Typed, Experiment
<1>2. c \in Candidates /\ completed \in Seq(Candidates) BY <1>1 DEF Chosen, Typed
<1>. HIDE DEF c
<1>3. \/ phase' = "raised" /\ UNCHANGED completed
      \/ /\ phase' = "observed" /\ completed' = Append(completed, c)
         /\ spent' = spent + Cost[c] /\ FitsRoughly(Fl(spent + Cost[c]), Fl(Current.budget))
  BY DEF Experiment, c
<1>4. completed' = Append(completed, c) => Done' = Done \cup {c}
  BY <1>2, SetOfAppended DEF Done
<1>5. QED BY <1>1, <1>3, <1>4 DEF c

LEMMA PairedExperiment ==
  ASSUME Typed, Paired, Experiment PROVE Paired'
<1>. DEFINE c == decision.candidate
<1>1. UNCHANGED <<updates, applied>> /\ phase = "decided" BY DEF Experiment, lineage
<1>2. /\ Chosen(c)
      /\ \/ phase' = "raised" /\ UNCHANGED completed
         \/ phase' = "observed" /\ completed' = Append(completed, c) /\ Done' = Done \cup {c}
  BY ExperimentGrows
<1>. HIDE DEF c
<1>3. CASE phase' = "raised" /\ UNCHANGED completed
  BY <1>1, <1>3 DEF Paired, OneEach, Met, Member, Done
<1>4. CASE phase' = "observed" /\ completed' = Append(completed, c) /\ Done' = Done \cup {c}
  <2>1. completed \in Seq(Candidates) /\ c \in Candidates /\ c \notin Done /\ Effect(c, Done) \in Scored
    BY <1>2 DEF Typed, Chosen
  <2>2. \A d, k, a : Member(d, k, a)' <=>
                       \/ Member(d, k, a)
                       \/ d = c /\ Design[c].eligible /\ Design[c].key = k /\ Design[c].arm = a
    BY <1>4 DEF Member
  <2>3. \A i, j \in DOMAIN completed' : completed'[i] = completed'[j] => i = j
    <3>1. \A i \in DOMAIN completed : completed[i] # c BY <2>1 DEF Done, ToSet
    <3>2. QED BY <1>4, <2>1, <3>1, Appended DEF Paired
  <2>4. OneEach'
    <3>1. ASSUME NEW d \in Done', NEW e \in Done', NEW k, NEW a, Member(d, k, a)', Member(e, k, a)'
          PROVE  d = e
      <4>1. CASE Member(d, k, a) /\ Member(e, k, a) BY <4>1 DEF Paired, OneEach, Member
      <4>2. CASE d = c /\ e = c BY <4>2
      <4>3. CASE Member(d, k, a) /\ ~Member(e, k, a) BY <2>1, <2>2, <3>1, <4>3, ScoredIsNew
      <4>4. CASE Member(e, k, a) /\ ~Member(d, k, a) BY <2>1, <2>2, <3>1, <4>4, ScoredIsNew
      <4>5. QED BY <2>2, <3>1, <4>1, <4>2, <4>3, <4>4
    <3>2. QED BY <3>1 DEF OneEach
  <2>5. \A k : Met(k) => Met(k)' BY <1>4, <2>2 DEF Met, Member
  <2>6. \A k : Met(k)' => Met(k) \/ k = Design[c].key
    <3>1. \A k, a : k # Design[c].key => \A d : Member(d, k, a)' => Member(d, k, a) BY <2>2
    <3>2. \A d, k, a : Member(d, k, a) => d \in Done BY DEF Member
    <3>3. QED BY <3>1, <3>2 DEF Met
  <2>7. \A k \in Keys : Met(k) => k \in applied BY <1>1 DEF Paired
  <2>8. \A j, k \in Keys \ applied' : Met(j)' /\ Met(k)' => j = k BY <1>1, <2>6, <2>7
  <2>9. \A k \in applied' : Met(k)' BY <1>1, <2>5 DEF Paired
  <2>10. QED BY <1>1, <1>4, <2>3, <2>4, <2>8, <2>9 DEF Paired
<1>5. QED BY <1>2, <1>3, <1>4

LEMMA PairedApply ==
  ASSUME SigmasOccur, Typed, Paired, Apply PROVE Paired'
<1>1. UNCHANGED completed /\ phase = "observed" /\ arm \in ArmIds BY DEF Apply, Typed
<1>2. \A k : Met(k)' <=> Met(k) BY <1>1 DEF Met, Member, Done
<1>3. OneEach' BY <1>1 DEF Paired, OneEach, Member, Done
<1>4. CASE phase' = "raised" /\ UNCHANGED <<lineage, history, applied>>
  BY <1>1, <1>2, <1>3, <1>4 DEF Paired, lineage
<1>5. CASE UNCHANGED phase /\ \E k \in Keys \ applied :
             Met(k) /\ Fresh(k) /\ Update(k) /\ applied' = applied \cup {k}
  <2>1. PICK k \in Keys \ applied : Met(k) /\ Fresh(k) /\ Update(k) /\ applied' = applied \cup {k}
    BY <1>5
  <2>2. PICK new \in Updates : new.pair = k /\ updates' = Append(updates, new)
    BY <1>1, <2>1, Updated
  <2>3. updates \in Seq(Updates) BY DEF Typed
  <2>4. /\ DOMAIN updates = 1 .. Len(updates) /\ DOMAIN updates' = 1 .. Len(updates) + 1
        /\ Len(updates) \in Nat
        /\ \A i \in DOMAIN updates : updates'[i] = updates[i]
        /\ updates'[Len(updates) + 1] = new
    BY <2>2, <2>3, Appended
  <2>5. DOMAIN updates' = DOMAIN updates \cup {Len(updates) + 1} BY <2>4
  <2>6. {updates'[i].pair : i \in DOMAIN updates'} = {updates[i].pair : i \in DOMAIN updates} \cup {k}
    BY <2>2, <2>4, <2>5
  <2>7. \A i, j \in DOMAIN updates' : updates'[i].pair = updates'[j].pair => i = j
    BY <2>1, <2>2, <2>4, <2>5 DEF Paired, Fresh
  <2>8. \A j, l \in Keys \ applied' : Met(j)' /\ Met(l)' => j = l BY <1>1, <1>2, <2>1 DEF Paired
  <2>9. applied' = {updates'[i].pair : i \in DOMAIN updates'} BY <2>1, <2>6 DEF Paired
  <2>10. \A j \in applied' : Met(j)' BY <1>2, <2>1 DEF Paired
  <2>11. QED BY <1>1, <1>3, <1>5, <2>7, <2>8, <2>9, <2>10 DEF Paired
<1>6. OneEach BY DEF Paired
<1>7. QED BY <1>4, <1>5, <1>6, ApplyUpdates

LEMMA PairedInit == ASSUME Init PROVE Paired
<1>1. DOMAIN completed = {} /\ DOMAIN updates = {} /\ Done = {} /\ applied = {} /\ phase = "idle"
  BY DEF Init, Done, ToSet
<1>2. QED BY <1>1 DEF Paired, OneEach, Member, Met

LEMMA PairedNext ==
  ASSUME SigmasOccur, Typed, Paired, [Next]_vars PROVE Paired'
<1>1. ASSUME NEW a \in ArmIds, Start(a) PROVE Paired'
  <2>1. DOMAIN completed' = {} /\ DOMAIN updates' = {} /\ Done' = {} /\ applied' = {} /\ phase' = "loop"
    BY <1>1 DEF Start, Done, ToSet
  <2>2. \A k : ~Met(k)' BY <2>1 DEF Met, Arms
  <2>3. QED BY <2>1, <2>2 DEF Paired, OneEach
<1>2. CASE Decide
  <2>1. UNCHANGED <<completed, updates, applied>> /\ phase = "loop" /\ phase' \in {"decided", "raised"}
    BY <1>2 DEF Decide, lineage
  <2>2. QED BY <2>1 DEF Paired, OneEach, Met, Member, Done
<1>3. CASE Experiment BY <1>3, PairedExperiment
<1>4. CASE Apply BY <1>4, PairedApply
<1>5. CASE Recompute
  <2>1. UNCHANGED <<completed, updates, applied>> /\ Unapplied = {} /\ phase' = "loop"
    BY <1>5 DEF Recompute, lineage
  <2>2. Unapplied = {k \in Keys : Met(k)} \ applied
    BY DoneIsTyped, ValidPairsAreMet DEF Paired, Unapplied
  <2>3. \A k \in Keys : Met(k) => k \in applied BY <2>1, <2>2
  <2>4. \A k : Met(k)' <=> Met(k) BY <2>1 DEF Met, Member, Done
  <2>5. OneEach' BY <2>1 DEF Paired, OneEach, Member, Done
  <2>6. QED BY <2>1, <2>3, <2>4, <2>5 DEF Paired
<1>6. CASE Finish
  <2>1. UNCHANGED <<completed, updates, applied>> /\ phase' \in {"idle", "raised"}
    BY <1>6 DEF Finish, lineage
  <2>2. QED BY <2>1 DEF Paired, OneEach, Met, Member, Done
<1>7. CASE UNCHANGED vars BY <1>7 DEF vars, lineage, Paired, OneEach, Met, Member, Done
<1>8. CASE Over BY <1>7, <1>8 DEF Over
<1>9. QED BY <1>1, <1>2, <1>3, <1>4, <1>5, <1>6, <1>7, <1>8 DEF Next

-----------------------------------------------------------------------------
(* The effects: the prefix, and one for every update, with its number.     *)

Stems(e, j) == e.id = <<arm, updates[j].pair>> /\ e.group = updates[j].group /\ e.available = j

Remembered ==
  arm # None =>
    /\ InitialHistory(arm) \subseteq history
    /\ \A e \in history : e \in InitialHistory(arm) \/ \E j \in DOMAIN updates : Stems(e, j)
    /\ \A j \in DOMAIN updates : \E e \in history : Stems(e, j)

Past(i) ==
  IF Current.model = "fixed" THEN {}
  ELSE {e.id : e \in {e \in CalibrationEffects : e.group = updates[i].group}}
       \cup {<<arm, updates[j].pair>> : j \in {j \in 1 .. i - 1 : updates[j].group = updates[i].group}}

LEMMA QuietMemory ==
  ASSUME UNCHANGED <<arm, lineage, history>>
  PROVE  /\ Remembered => Remembered'
         /\ SigmaUsesOnlyThePast => SigmaUsesOnlyThePast'
<1>1. arm' = arm /\ updates' = updates /\ history' = history BY DEF lineage
<1>2. InitialHistory(arm)' = InitialHistory(arm) /\ Current' = Current BY <1>1 DEF InitialHistory, Current
<1>3. \A e : \A j \in DOMAIN updates : Stems(e, j)' <=> Stems(e, j) BY <1>1 DEF Stems
<1>4. Remembered => Remembered' BY <1>1, <1>2, <1>3 DEF Remembered
<1>5. SigmaUsesOnlyThePast => SigmaUsesOnlyThePast' BY <1>1, <1>2, Zenon DEF SigmaUsesOnlyThePast
<1>6. QED BY <1>4, <1>5

(* The effects that are estimated from are those of the whole past.        *)
LEMMA SourcesAreThePast ==
  ASSUME Typed, Remembered, arm # None, NEW k \in Keys, Fresh(k), NEW group
  PROVE  /\ {e \in EligibleEffects(group) : e.id # EffectId(k)} = EligibleEffects(group)
         /\ Current.model # "fixed" =>
              {e.id : e \in EligibleEffects(group)} =
                {e.id : e \in {e \in CalibrationEffects : e.group = group}}
                \cup {<<arm, updates[j].pair>> : j \in {j \in DOMAIN updates : updates[j].group = group}}
<1>1. arm \in ArmIds /\ updates \in Seq(Updates) BY DEF Typed
<1>2. DOMAIN updates = 1 .. Len(updates) /\ Len(updates) \in Nat BY <1>1
<1>3. \A e \in InitialHistory(arm) : e \in CalibrationEffects BY DEF InitialHistory
<1>4. \A e \in InitialHistory(arm) : e.id # EffectId(k) /\ e.available < NextSequence
  <2>1. \A e \in CalibrationEffects : e.available = 0 /\ e.id \notin ArmIds \X Keys
    BY ClosedLoopAssumption
  <2>2. EffectId(k) \in ArmIds \X Keys BY <1>1 DEF EffectId
  <2>3. 0 < NextSequence BY <1>2 DEF NextSequence
  <2>4. QED BY <1>3, <2>1, <2>2, <2>3
<1>5. \A e \in history : \A j \in DOMAIN updates :
        Stems(e, j) => e.id # EffectId(k) /\ e.available < NextSequence
  BY <1>2 DEF Stems, EffectId, Fresh, NextSequence
<1>6. \A e \in history : e.id # EffectId(k) /\ e.available < NextSequence
  BY <1>4, <1>5 DEF Remembered
<1>7. EligibleEffects(group) = {e \in history : e.group = group} BY <1>6 DEF EligibleEffects
<1>8. {e \in EligibleEffects(group) : e.id # EffectId(k)} = EligibleEffects(group) BY <1>6, <1>7
<1>9. ASSUME Current.model # "fixed"
      PROVE  {e.id : e \in EligibleEffects(group)} =
                {e.id : e \in {e \in CalibrationEffects : e.group = group}}
                \cup {<<arm, updates[j].pair>> : j \in {j \in DOMAIN updates : updates[j].group = group}}
  <2>1. InitialHistory(arm) = CalibrationEffects
    BY <1>1, <1>9, ClosedLoopAssumption DEF InitialHistory, Current
  <2>2. ASSUME NEW e \in EligibleEffects(group)
        PROVE  \/ e \in CalibrationEffects /\ e.group = group
               \/ \E j \in DOMAIN updates : updates[j].group = group /\ e.id = <<arm, updates[j].pair>>
    BY <1>7, <2>1, <2>2 DEF Remembered, Stems
  <2>3. ASSUME NEW e \in CalibrationEffects, e.group = group PROVE e \in EligibleEffects(group)
    BY <1>7, <2>1, <2>3 DEF Remembered
  <2>4. ASSUME NEW j \in DOMAIN updates, updates[j].group = group
        PROVE  \E e \in EligibleEffects(group) : e.id = <<arm, updates[j].pair>>
    BY <1>7, <2>4 DEF Remembered, Stems
  <2>5. QED BY <2>2, <2>3, <2>4
<1>10. QED BY <1>8, <1>9

LEMMA RememberedApply ==
  ASSUME SigmasOccur, Typed, OneEach, Remembered, SigmaUsesOnlyThePast, Apply
  PROVE  Remembered' /\ SigmaUsesOnlyThePast'
<1>1. UNCHANGED arm /\ arm \in ArmIds /\ arm # None BY DEF Apply, Typed
<1>2. Current' = Current BY <1>1 DEF Current
<1>3. CASE UNCHANGED <<lineage, history, applied>>
  <2>1. UNCHANGED <<arm, lineage, history>> BY <1>1, <1>3
  <2>2. QED BY <2>1, QuietMemory
<1>4. CASE \E k \in Keys \ applied : Met(k) /\ Fresh(k) /\ Update(k)
  <2>1. PICK k \in Keys \ applied : Met(k) /\ Fresh(k) /\ Update(k) BY <1>4
  <2>2. PICK new \in Updates, effect \in history' :
          /\ new.pair = k /\ new.sources = SelectSigma(new.group, EffectId(k)).sources
          /\ updates' = Append(updates, new)
          /\ history' = history \cup {effect}
          /\ effect.id = EffectId(k) /\ effect.group = new.group /\ effect.available = NextSequence
    BY <1>1, <2>1, Updated
  <2>3. updates \in Seq(Updates) BY DEF Typed
  <2>n. PICK n \in Nat : n = Len(updates) + 1 BY <2>3
  <2>4. /\ DOMAIN updates = 1 .. Len(updates) /\ DOMAIN updates' = 1 .. n /\ Len(updates) \in Nat
        /\ \A i \in DOMAIN updates : updates'[i] = updates[i]
        /\ updates'[n] = new /\ DOMAIN updates = 1 .. n - 1 /\ n \in Nat
    BY <2>2, <2>3, <2>n, Appended
  <2>5. n = NextSequence BY <2>n DEF NextSequence
  <2>6. DOMAIN updates' = DOMAIN updates \cup {n}
    <3>1. n >= 1 BY <2>n, <2>4
    <3>2. 1 .. n = (1 .. n - 1) \cup {n} BY <3>1
    <3>3. QED BY <2>4, <3>2
  <2>7. \A e : \A j \in DOMAIN updates : Stems(e, j)' <=> Stems(e, j) BY <1>1, <2>4 DEF Stems
  <2>8. Stems(effect, n)' BY <1>1, <2>2, <2>4, <2>5 DEF Stems, EffectId
  <2>9. InitialHistory(arm)' = InitialHistory(arm) BY <1>1 DEF InitialHistory
  <2>10. Remembered'
    <3>1. InitialHistory(arm)' \subseteq history' BY <1>1, <2>2, <2>9 DEF Remembered
    <3>2. ASSUME NEW e \in history'
          PROVE  e \in InitialHistory(arm)' \/ \E j \in DOMAIN updates' : Stems(e, j)'
      <4>1. CASE e = effect BY <2>6, <2>8, <4>1
      <4>2. CASE e \in history BY <1>1, <2>6, <2>7, <2>9, <4>2 DEF Remembered
      <4>3. QED BY <2>2, <4>1, <4>2
    <3>3. ASSUME NEW j \in DOMAIN updates' PROVE \E e \in history' : Stems(e, j)'
      <4>1. CASE j = n BY <2>2, <2>8, <4>1
      <4>2. CASE j \in DOMAIN updates BY <1>1, <2>2, <2>7, <4>2 DEF Remembered
      <4>3. QED BY <2>6, <4>1, <4>2
    <3>4. QED BY <3>1, <3>2, <3>3 DEF Remembered
  <2>11. \A i \in DOMAIN updates : updates[i].sources = Past(i)
    BY <1>1 DEF SigmaUsesOnlyThePast, Past
  <2>12. ASSUME NEW i \in DOMAIN updates PROVE updates'[i].sources = Past(i)'
    <3>1. Past(i)' = Past(i)
      <4>1. 1 .. i - 1 \subseteq DOMAIN updates BY <2>4
      <4>2. \A j \in 1 .. i - 1 : updates'[j] = updates[j] BY <2>4, <4>1
      <4>3. updates'[i] = updates[i] BY <2>4
      <4>4. {j \in 1 .. i - 1 : updates'[j].group = updates'[i].group}
              = {j \in 1 .. i - 1 : updates[j].group = updates[i].group}
        BY <4>2, <4>3
      <4>5. {<<arm, updates'[j].pair>> : j \in {j \in 1 .. i - 1 : updates[j].group = updates[i].group}}
              = {<<arm, updates[j].pair>> : j \in {j \in 1 .. i - 1 : updates[j].group = updates[i].group}}
        BY <4>2
      <4>6. QED BY <1>1, <1>2, <4>3, <4>4, <4>5 DEF Past
    <3>2. QED BY <2>4, <2>11, <3>1
  <2>13. updates'[n].sources = Past(n)'
    <3>1. CASE Current.model = "fixed" BY <1>2, <2>2, <2>4, <3>1 DEF Past, SelectSigma
    <3>2. CASE Current.model # "fixed"
      <4>1. new.sources = {e.id : e \in EligibleEffects(new.group)}
        BY <1>1, <2>1, <2>2, <3>2, SourcesAreThePast DEF SelectSigma
      <4>2. new.sources = {e.id : e \in {e \in CalibrationEffects : e.group = new.group}}
                \cup {<<arm, updates[j].pair>> : j \in {j \in DOMAIN updates : updates[j].group = new.group}}
        BY <1>1, <2>1, <3>2, <4>1, SourcesAreThePast
      <4>3. {j \in DOMAIN updates : updates[j].group = new.group}
              = {j \in 1 .. n - 1 : updates'[j].group = updates'[n].group}
        BY <2>4
      <4>4. {<<arm, updates[j].pair>> : j \in {j \in DOMAIN updates : updates[j].group = new.group}}
              = {<<arm, updates'[j].pair>> : j \in {j \in 1 .. n - 1 : updates'[j].group = updates'[n].group}}
        BY <2>4, <4>3
      <4>5. QED BY <1>1, <1>2, <2>4, <3>2, <4>2, <4>4 DEF Past
    <3>3. QED BY <3>1, <3>2
  <2>14. \A i \in DOMAIN updates' : updates'[i].sources = Past(i)' BY <2>6, <2>12, <2>13
  <2>15. QED BY <2>10, <2>14 DEF SigmaUsesOnlyThePast, Past
<1>5. QED BY <1>3, <1>4, ApplyUpdates

LEMMA RememberedNext ==
  ASSUME SigmasOccur, Typed, OneEach, Remembered, SigmaUsesOnlyThePast, [Next]_vars
  PROVE  Remembered' /\ SigmaUsesOnlyThePast'
<1>1. ASSUME NEW a \in ArmIds, Start(a) PROVE Remembered' /\ SigmaUsesOnlyThePast'
  <2>1. DOMAIN updates' = {} /\ arm' = a /\ history' = InitialHistory(a) BY <1>1 DEF Start
  <2>2. InitialHistory(arm)' = InitialHistory(a) BY <2>1 DEF InitialHistory
  <2>3. QED BY <2>1, <2>2 DEF Remembered, SigmaUsesOnlyThePast
<1>2. CASE Apply BY <1>2, RememberedApply
<1>3. CASE UNCHANGED <<arm, lineage, history>>
  BY <1>3, QuietMemory
<1>4. CASE Finish
  <2>1. UNCHANGED <<lineage, history>> /\ (arm' = None \/ UNCHANGED arm) BY <1>4 DEF Finish
  <2>2. CASE UNCHANGED arm BY <1>3, <2>1, <2>2
  <2>3. CASE arm' = None BY <2>3 DEF Remembered, SigmaUsesOnlyThePast
  <2>4. QED BY <2>1, <2>2, <2>3
<1>5. Decide \/ Experiment \/ Recompute \/ Over \/ UNCHANGED vars => UNCHANGED <<arm, lineage, history>>
  BY DEF Decide, Experiment, Recompute, Over, vars
<1>6. QED BY <1>1, <1>2, <1>3, <1>4, <1>5 DEF Next

-----------------------------------------------------------------------------
(* The sigma of a decision is that of the update it leads to.              *)

Promised ==
  \/ phase = "decided"
  \/ phase = "observed" /\ \E k \in Keys \ applied : Met(k)
  => \A g \in Groups : decision.snapshot[g] = Snapshot(g)

LEMMA PromisedNext ==
  ASSUME SigmasOccur, Typed, Paired, Promised, [Next]_vars
  PROVE  Promised'
<1>1. ASSUME UNCHANGED <<arm, lineage, history>>
      PROVE  \A g \in Groups : Snapshot(g)' = Snapshot(g)
  BY <1>1 DEF Snapshot, EligibleEffects, NextSequence, Current, Calibrate, lineage
<1>2. ASSUME NEW a \in ArmIds, Start(a) PROVE Promised' BY <1>2 DEF Start, Promised
<1>3. CASE Decide
  <2>1. UNCHANGED <<arm, lineage, history>> /\ phase' \in {"decided", "raised"} BY <1>3 DEF Decide
  <2>2. phase' = "decided" => decision'.snapshot = Snapshots BY <1>3, DecideChooses
  <2>3. phase' = "decided" => \A g \in Groups : decision'.snapshot[g] = Snapshot(g)'
    BY <1>1, <2>1, <2>2, SnapshotsAreTaken
  <2>4. QED BY <2>1, <2>3 DEF Promised
<1>4. CASE Experiment
  <2>1. UNCHANGED <<arm, lineage, history, decision>> /\ phase = "decided" /\ phase' \in {"observed", "raised"}
    BY <1>4 DEF Experiment
  <2>2. \A g \in Groups : Snapshot(g)' = Snapshot(g) BY <1>1, <2>1
  <2>3. decision' = decision BY <2>1
  <2>4. \A g \in Groups : decision'.snapshot[g] = Snapshot(g)'
    <3>1. \A g \in Groups : decision.snapshot[g] = Snapshot(g) BY <2>1 DEF Promised
    <3>2. QED BY <2>2, <2>3, <3>1
  <2>5. QED BY <2>4 DEF Promised
<1>5. CASE Apply
  <2>1. phase = "observed" BY <1>5 DEF Apply
  <2>2. CASE phase' = "raised" BY <2>2 DEF Promised
  <2>3. CASE UNCHANGED phase /\ \E k \in Keys \ applied :
               Met(k) /\ Fresh(k) /\ Update(k) /\ applied' = applied \cup {k}
    <3>1. PICK k \in Keys \ applied : Met(k) /\ applied' = applied \cup {k} BY <2>3
    <3>2. \A j : Met(j)' <=> Met(j) BY <1>5 DEF Apply, Met, Member, Done
    <3>3. ~ \E j \in Keys \ applied' : Met(j)' BY <2>1, <3>1, <3>2 DEF Paired
    <3>4. QED BY <2>1, <2>3, <3>3 DEF Promised
  <2>4. OneEach BY DEF Paired
  <2>5. QED BY <1>5, <2>2, <2>3, <2>4, ApplyUpdates
<1>6. CASE Recompute BY <1>6 DEF Recompute, Promised
<1>7. CASE Finish BY <1>7 DEF Finish, Promised
<1>8. CASE UNCHANGED vars
  BY <1>1, <1>8 DEF vars, lineage, Promised, Met, Member, Done
<1>9. CASE Over BY <1>8, <1>9 DEF Over
<1>10. QED BY <1>2, <1>3, <1>4, <1>5, <1>6, <1>7, <1>8, <1>9 DEF Next

LEMMA PromiseIsKept ==
  ASSUME SigmasOccur, Typed, Paired, Remembered, Promised, [Next]_vars, Len(updates') > Len(updates)
  PROVE  LET last == updates'[Len(updates')] IN last.sigma = decision.snapshot[last.group]
<1>1. CASE Apply
  <2>1. OneEach /\ arm \in ArmIds /\ arm # None /\ phase = "observed" BY <1>1 DEF Paired, Typed, Apply
  <2>2. PICK k \in Keys \ applied : Met(k) /\ Fresh(k) /\ Update(k)
    <3>1. Len(updates) \in Nat BY DEF Typed
    <3>2. updates' # updates BY <3>1
    <3>3. QED BY <1>1, <2>1, <3>2, ApplyUpdates DEF lineage
  <2>3. PICK new \in Updates :
          new.sigma = SelectSigma(new.group, EffectId(k)).sigma /\ updates' = Append(updates, new)
    BY <2>1, <2>2, Updated
  <2>4. updates'[Len(updates')] = new BY <2>3, Appended DEF Typed
  <2>5. SelectSigma(new.group, EffectId(k)).sigma = Snapshot(new.group)
    <3>1. {e \in EligibleEffects(new.group) : e.id # EffectId(k)} = EligibleEffects(new.group)
      BY <2>1, <2>2, SourcesAreThePast
    <3>2. QED BY <3>1 DEF SelectSigma, Snapshot
  <2>6. new.group \in Groups BY DEF Updates
  <2>7. decision.snapshot[new.group] = Snapshot(new.group) BY <2>1, <2>2, <2>6 DEF Promised
  <2>8. QED BY <2>3, <2>4, <2>5, <2>7
<1>2. ASSUME NEW a \in ArmIds, Start(a) PROVE FALSE
  <2>1. Len(updates') = 0 BY <1>2 DEF Start
  <2>2. Len(updates) \in Nat BY DEF Typed
  <2>3. QED BY <2>1, <2>2
<1>3. Decide \/ Experiment \/ Recompute \/ Finish \/ Over \/ UNCHANGED vars => updates' = updates
  BY DEF Decide, Experiment, Recompute, Finish, Over, vars, lineage
<1>4. Len(updates) \in Nat BY DEF Typed
<1>5. QED BY <1>1, <1>2, <1>3, <1>4 DEF Next

-----------------------------------------------------------------------------
(* Values along a sequence.                                                *)

(* Two recurrences that start alike and go on alike are the same.          *)
LEMMA RecurrencesAgree ==
  ASSUME NEW N \in Nat, NEW v, NEW w, v[0] = w[0],
         \A n \in 1 .. N : v[n - 1] = w[n - 1] => v[n] = w[n]
  PROVE  \A n \in 0 .. N : v[n] = w[n]
<1>. DEFINE T == {n \in 0 .. N : v[n] # w[n]}
<1>1. SUFFICES ASSUME T # {} PROVE FALSE OBVIOUS
<1>2. T \in SUBSET Nat OBVIOUS
<1>3. PICK n \in T : \A m \in T : n <= m BY <1>1, <1>2, LeastElement
<1>4. n \in 1 .. N BY <1>3
<1>5. n - 1 \in 0 .. N /\ n - 1 \notin T BY <1>3, <1>4
<1>6. QED BY <1>3, <1>4, <1>5

-----------------------------------------------------------------------------
(* The belief.                                                             *)

Witnessed(i) ==
  \E c, d \in Done : /\ Member(c, updates[i].pair, "adam") /\ Member(d, updates[i].pair, "sgd")
                     /\ updates[i].bin = BinOf(table[c] - table[d])

Mass(i, h) == Likelihood[updates[i].sigma][updates[i].bin][h]

Weights(w, h) ==
  /\ w \in [Nat -> Nat] /\ w[0] = Prior[h]
  /\ \A n \in DOMAIN updates : w[n] = w[n - 1] * Mass(n, h)
  /\ w[Len(updates)] = weights[h]

Weighed ==
  /\ \A i \in DOMAIN updates : Witnessed(i)
  /\ \A h \in Hypotheses : \E w : Weights(w, h)

LEMMA PriorIsTyped == Prior \in [Hypotheses -> Nat]
BY DEF Prior, Hypotheses

LEMMA WeighedApply ==
  ASSUME SigmasOccur, Typed, OneEach, Weighed, Apply PROVE Weighed'
<1>1. UNCHANGED <<completed, table>> /\ arm \in ArmIds BY DEF Apply, Typed
<1>2. \A c, k, a : Member(c, k, a)' <=> Member(c, k, a) BY <1>1 DEF Member, Done
<1>3. Done' = Done BY <1>1 DEF Done
<1>4. CASE UNCHANGED <<lineage, history, applied>>
  <2>1. updates' = updates /\ weights' = weights BY <1>4 DEF lineage
  <2>2. \A i : Witnessed(i)' <=> Witnessed(i) BY <1>1, <1>2, <1>3, <2>1 DEF Witnessed
  <2>3. \A w, h : Weights(w, h)' <=> Weights(w, h) BY <2>1 DEF Weights, Mass
  <2>4. QED BY <2>1, <2>2, <2>3 DEF Weighed
<1>5. CASE \E k \in Keys \ applied : Met(k) /\ Fresh(k) /\ Update(k)
  <2>1. PICK k \in Keys \ applied : Met(k) /\ Update(k) BY <1>5
  <2>2. PICK new \in Updates :
          /\ new.pair = k /\ new.bin = BinOf(Comparison(k))
          /\ updates' = Append(updates, new) /\ weights' = After(weights, new.sigma, new.bin)
    BY <1>1, <2>1, Updated
  <2>3. updates \in Seq(Updates) BY DEF Typed
  <2>n. PICK n \in Nat : n = Len(updates) + 1 BY <2>3
  <2>4. /\ DOMAIN updates = 1 .. n - 1 /\ DOMAIN updates' = 1 .. n /\ n >= 1
        /\ \A i \in DOMAIN updates : updates'[i] = updates[i]
        /\ updates'[n] = new /\ Len(updates) = n - 1 /\ Len(updates') = n
    BY <2>2, <2>3, <2>n, Appended
  <2>5. DOMAIN updates' = DOMAIN updates \cup {n}
    <3>1. 1 .. n = (1 .. n - 1) \cup {n} BY <2>4
    <3>2. QED BY <2>4, <3>1
  <2>6. \A i \in DOMAIN updates : Witnessed(i)'
    BY <1>1, <1>2, <1>3, <2>4 DEF Witnessed, Weighed
  <2>7. Witnessed(n)'
    <3>1. Member(ArmOf(k, "sgd"), k, "sgd") /\ Member(ArmOf(k, "adam"), k, "adam")
      BY <2>1, ArmIsFound DEF Arms
    <3>2. ArmOf(k, "sgd") \in Done /\ ArmOf(k, "adam") \in Done BY <3>1 DEF Member
    <3>3. QED BY <1>1, <1>2, <1>3, <2>2, <2>4, <3>1, <3>2 DEF Witnessed, Comparison
  <2>8. ASSUME NEW h \in Hypotheses PROVE \E w : Weights(w, h)'
    <3>1. PICK w : Weights(w, h) BY DEF Weighed
    <3>2. weights \in [Hypotheses -> Nat] /\ new.sigma \in Sigmas /\ new.bin \in Outcomes
      BY DEF Typed, Updates
    <3>3. weights'[h] = weights[h] * Mass(n, h)' /\ weights'[h] \in Nat
      BY <2>2, <2>4, <3>2, WeighedIsTyped DEF Mass
    <3>v. PICK v : v = [m \in Nat |-> IF m = n THEN weights'[h] ELSE w[m]] OBVIOUS
    <3>4. w \in [Nat -> Nat] /\ w[0] = Prior[h] /\ w[n - 1] = weights[h]
          /\ \A m \in DOMAIN updates : w[m] = w[m - 1] * Mass(m, h)
      BY <2>4, <3>1 DEF Weights
    <3>5. v \in [Nat -> Nat] BY <3>v, <3>3, <3>4
    <3>6. v[0] = Prior[h] /\ v[n] = weights'[h] BY <2>4, <3>v, <3>4
    <3>7. \A m \in DOMAIN updates : v[m] = w[m] /\ v[m - 1] = w[m - 1] /\ Mass(m, h)' = Mass(m, h)
      BY <2>4, <3>v DEF Mass
    <3>8. v[n - 1] = weights[h] BY <2>4, <3>v, <3>4
    <3>9. \A m \in DOMAIN updates' : v[m] = v[m - 1] * Mass(m, h)'
      BY <2>5, <3>3, <3>4, <3>6, <3>7, <3>8
    <3>10. v[Len(updates')] = weights'[h] BY <2>4, <3>6
    <3>11. Weights(v, h)' BY <3>5, <3>6, <3>9, <3>10 DEF Weights
    <3>12. QED BY <3>11
  <2>9. QED BY <2>5, <2>6, <2>7, <2>8 DEF Weighed
<1>6. QED BY <1>4, <1>5, ApplyUpdates

LEMMA WeighedNext ==
  ASSUME SigmasOccur, Typed, OneEach, Weighed, [Next]_vars PROVE Weighed'
<1>1. ASSUME NEW a \in ArmIds, Start(a) PROVE Weighed'
  <2>1. updates' = <<>> /\ weights' = Prior BY <1>1 DEF Start
  <2>2. ASSUME NEW h \in Hypotheses PROVE Weights([n \in Nat |-> Prior[h]], h)'
    BY <2>1, PriorIsTyped DEF Weights
  <2>3. DOMAIN updates' = {} BY <2>1
  <2>4. \A h \in Hypotheses : \E w : Weights(w, h)' BY <2>2
  <2>5. QED BY <2>3, <2>4 DEF Weighed
<1>2. ASSUME UNCHANGED <<table, lineage>>, Done \subseteq Done' PROVE Weighed'
  <2>1. table' = table /\ updates' = updates /\ weights' = weights BY <1>2 DEF lineage
  <2>2. \A c, k, a : Member(c, k, a) => Member(c, k, a)' BY <1>2 DEF Member
  <2>3. \A i \in DOMAIN updates : Witnessed(i)' BY <1>2, <2>1, <2>2 DEF Weighed, Witnessed
  <2>4. \A w, h : Weights(w, h)' <=> Weights(w, h) BY <2>1 DEF Weights, Mass
  <2>5. QED BY <2>1, <2>3, <2>4 DEF Weighed
<1>3. CASE Apply BY <1>3, WeighedApply
<1>4. CASE Experiment
  <2>1. Done \subseteq Done' BY <1>4, ExperimentGrows DEF Done
  <2>2. UNCHANGED <<table, lineage>> BY <1>4 DEF Experiment
  <2>3. QED BY <1>2, <2>1, <2>2
<1>5. Decide \/ Recompute \/ Finish \/ Over \/ UNCHANGED vars => UNCHANGED <<table, lineage>> /\ Done' = Done
  BY DEF Decide, Recompute, Finish, Over, vars, Done
<1>6. QED BY <1>1, <1>2, <1>3, <1>4, <1>5 DEF Next

LEMMA BeliefFollows ==
  ASSUME Typed, Paired, Weighed
  PROVE  BeliefIsTheEvidence
<1>1. SUFFICES ASSUME phase \in {"loop", "decided"} PROVE BeliefIsTheEvidence
  BY DEF BeliefIsTheEvidence
<1>. DEFINE Compare == {Design[c].key : c \in {c \in Done : \E d \in Done :
              /\ Design[c].eligible /\ Design[d].eligible
              /\ Design[c].key = Design[d].key /\ Design[c].arm # Design[d].arm}}
            outcome(i, a) == CHOOSE v \in {table[c] : c \in {c \in Done :
                                /\ Design[c].eligible
                                /\ Design[c].key = updates[i].pair /\ Design[c].arm = a}} : TRUE
            bin(i) == BinOf(outcome(i, "adam") - outcome(i, "sgd"))
<1>2. {updates[i].pair : i \in DOMAIN updates} = Compare
  <2>1. \A k \in Keys : Met(k) <=> k \in Compare
    <3>1. \A c \in Done : c \in Candidates /\ Design[c].arm \in {"sgd", "adam"}
      BY DoneIsTyped, PlannerAssumption DEF Arms
    <3>2. ASSUME NEW k \in Keys, Met(k) PROVE k \in Compare
      <4>1. PICK c \in Done, d \in Done : Member(c, k, "sgd") /\ Member(d, k, "adam")
        BY <3>2 DEF Met, Arms
      <4>2. QED BY <4>1 DEF Member
    <3>3. ASSUME NEW k \in Compare PROVE Met(k)
      <4>1. PICK c \in Done, d \in Done :
              /\ Design[c].eligible /\ Design[d].eligible /\ Design[c].key = k
              /\ Design[c].key = Design[d].key /\ Design[c].arm # Design[d].arm
        OBVIOUS
      <4>2. QED BY <3>1, <4>1 DEF Met, Member, Arms
    <3>4. QED BY <3>2, <3>3
  <2>2. Compare \subseteq Keys BY DoneIsTyped DEF Keys
  <2>3. applied = {k \in Keys : Met(k)} BY <1>1 DEF Paired, Typed
  <2>. HIDE DEF Compare
  <2>4. QED BY <2>1, <2>2, <2>3 DEF Paired
<1>3. \A i \in DOMAIN updates : bin(i) = updates[i].bin
  <2>1. ASSUME NEW i \in DOMAIN updates PROVE bin(i) = updates[i].bin
    <3>1. PICK c \in Done, d \in Done :
            /\ Member(c, updates[i].pair, "adam") /\ Member(d, updates[i].pair, "sgd")
            /\ updates[i].bin = BinOf(table[c] - table[d])
      BY DEF Weighed, Witnessed
    <3>2. {table[e] : e \in {e \in Done : /\ Design[e].eligible
                      /\ Design[e].key = updates[i].pair /\ Design[e].arm = "adam"}} = {table[c]}
      BY <3>1 DEF Paired, OneEach, Member
    <3>3. {table[e] : e \in {e \in Done : /\ Design[e].eligible
                      /\ Design[e].key = updates[i].pair /\ Design[e].arm = "sgd"}} = {table[d]}
      BY <3>1 DEF Paired, OneEach, Member
    <3>4. outcome(i, "adam") = table[c] /\ outcome(i, "sgd") = table[d] BY <3>2, <3>3
    <3>. HIDE DEF outcome
    <3>5. QED BY <3>1, <3>4
  <2>2. QED BY <2>1
<1>4. ASSUME NEW h \in Hypotheses
      PROVE  LET weight[n \in 0 .. Len(updates)] ==
                   IF n = 0 THEN Prior[h] ELSE weight[n - 1] * Likelihood[updates[n].sigma][bin(n)][h]
             IN  weights[h] = weight[Len(updates)]
  <2>. HIDE DEF bin
  <2>n. PICK N \in Nat : N = Len(updates) BY DEF Typed
  <2>. DEFINE Unrolls(v) == v = [n \in 0 .. N |-> IF n = 0 THEN Prior[h]
                                   ELSE v[n - 1] * Likelihood[updates[n].sigma][bin(n)][h]]
  <2>v. PICK weight : weight = CHOOSE v : Unrolls(v) OBVIOUS
  <2>1. PICK w : Weights(w, h) BY DEF Weighed
  <2>2. N \in Nat /\ DOMAIN updates = 1 .. N BY <2>n DEF Typed
  <2>3. \A n \in 1 .. N : Mass(n, h) = Likelihood[updates[n].sigma][bin(n)][h] BY <1>3, <2>2 DEF Mass
  <2>4. w[0] = Prior[h] /\ w[N] = weights[h] /\ \A n \in 1 .. N : w[n] = w[n - 1] * Mass(n, h)
    BY <2>1, <2>2, <2>n DEF Weights
  <2>5. Unrolls([n \in 0 .. N |-> w[n]])
    <3>. DEFINE v == [n \in 0 .. N |-> w[n]]
    <3>1. \A n \in 0 .. N : v[n] = IF n = 0 THEN Prior[h]
                                   ELSE v[n - 1] * Likelihood[updates[n].sigma][bin(n)][h]
      BY <2>2, <2>3, <2>4
    <3>2. QED BY <3>1
  <2>6. Unrolls(weight) BY <2>5, <2>v
  <2>7. /\ weight[0] = Prior[h]
        /\ \A n \in 1 .. N : weight[n] = weight[n - 1] * Likelihood[updates[n].sigma][bin(n)][h]
    <3>1. 0 \in 0 .. N /\ \A n \in 1 .. N : n \in 0 .. N /\ n # 0 BY <2>2
    <3>2. QED BY <2>6, <3>1
  <2>8. \A n \in 1 .. N : weight[n - 1] = w[n - 1] => weight[n] = w[n] BY <2>3, <2>4, <2>7
  <2>9. weight[N] = w[N]
    <3>1. weight[0] = w[0] BY <2>4, <2>7
    <3>2. \A n \in 0 .. N : weight[n] = w[n]
      <4>1. N \in Nat OBVIOUS
      <4>2. \A n \in 1 .. N : weight[n - 1] = w[n - 1] => weight[n] = w[n] BY <2>8
      <4>3. QED BY ONLY <3>1, <4>1, <4>2, RecurrencesAgree
    <3>3. QED BY <2>2, <3>2
  <2>10. QED BY <2>4, <2>9, <2>n, <2>v
<1>5. \A i, j \in DOMAIN updates : updates[i].pair = updates[j].pair => i = j BY DEF Paired
<1>6. QED BY <1>2, <1>4, <1>5, Zenon DEF BeliefIsTheEvidence

-----------------------------------------------------------------------------
(* The budget.                                                             *)

(* With the tolerance, a cost fits what is left of a budget exactly when   *)
(* it does in decimals.                                                    *)
LEMMA RoundingIsAbsorbed ==
  ASSUME NEW a \in ArmIds, NEW c \in Candidates, NEW s \in 0 .. ArmSpec[a].budget
  PROVE  FitsRoughly(FlCost(c), Fl(ArmSpec[a].budget) - Fl(s)) <=> Cost[c] <= ArmSpec[a].budget - s
<1>. DEFINE B == ArmSpec[a].budget
            error == RoundingError[Cost[c]] - (RoundingError[B] - RoundingError[s])
<1>1. /\ {RoundingError[Cost[c]], RoundingError[B], RoundingError[s]} \subseteq Int
      /\ -Tolerance <= error /\ error <= Tolerance /\ Tolerance - error < Grain
  BY ClosedLoopAssumption
<1>2. /\ Cost[c] \in Nat /\ B \in Nat /\ s \in Nat
      /\ RoundingError[Cost[c]] \in Int /\ RoundingError[B] \in Int /\ RoundingError[s] \in Int
  BY <1>1, PlannerAssumption, ClosedLoopAssumption
<1>3. Grain \in Nat \ {0} /\ Tolerance \in Nat BY PlannerAssumption
<1>. DEFINE x == Cost[c] - (B - s)
<1>4. x \in Int /\ error \in Int BY <1>2
<1>5. FlCost(c) - (Fl(B) - Fl(s)) = x * Grain + error
      /\ FlCost(c) \in Int /\ Fl(B) \in Int /\ Fl(s) \in Int
  BY <1>2, <1>3 DEF FlCost, Fl
<1>. HIDE DEF x, error, B
<1>6. FitsRoughly(FlCost(c), Fl(B) - Fl(s)) <=> x * Grain + error <= Tolerance
  <2>1. x * Grain \in Int BY <1>3, <1>4
  <2>2. QED BY <1>3, <1>4, <1>5, <2>1 DEF FitsRoughly
<1>7. CASE x <= 0
  <2>1. x * Grain <= 0 /\ x * Grain \in Int BY <1>3, <1>4, <1>7
  <2>2. x * Grain + error <= Tolerance BY <1>1, <1>3, <1>4, <2>1
  <2>3. Cost[c] <= B - s BY <1>2, <1>7 DEF x
  <2>4. QED BY <1>6, <2>2, <2>3 DEF B
<1>8. CASE x >= 1
  <2>1. x * Grain >= Grain /\ x * Grain \in Int BY <1>3, <1>4, <1>8
  <2>2. ~ (x * Grain + error <= Tolerance) BY <1>1, <1>3, <1>4, <2>1
  <2>3. ~ (Cost[c] <= B - s) BY <1>2, <1>8 DEF x
  <2>4. QED BY <1>6, <2>2, <2>3 DEF B
<1>9. QED BY <1>4, <1>7, <1>8

Prices(w) ==
  /\ w \in [Nat -> Nat] /\ w[0] = 0
  /\ \A n \in DOMAIN completed : w[n] = w[n - 1] + Cost[completed[n]]
  /\ phase # "raised" => w[Len(completed)] = spent

Paid ==
  /\ \E w : Prices(w)
  /\ phase \in {"loop", "decided", "observed"} => spent <= Current.budget

LEMMA PaidExperiment ==
  ASSUME Typed, Paid, Experiment PROVE Paid'
<1>. DEFINE c == decision.candidate
<1>1. /\ Chosen(c)
      /\ \/ phase' = "raised" /\ UNCHANGED completed
         \/ phase' = "observed" /\ completed' = Append(completed, c) /\ spent' = spent + Cost[c]
  BY ExperimentGrows
<1>2. c \in Candidates /\ completed \in Seq(Candidates) /\ arm \in ArmIds /\ spent \in Nat
      /\ UNCHANGED arm /\ phase = "decided"
  BY <1>1 DEF Chosen, Typed, Experiment
<1>3. Cost[c] \in Nat /\ Current.budget \in Nat
  BY <1>2, PlannerAssumption, ClosedLoopAssumption DEF Current
<1>4. Cost[c] <= Current.budget - spent
  <2>1. spent \in 0 .. ArmSpec[arm].budget BY <1>2, <1>3 DEF Paid, Current
  <2>2. FitsRoughly(FlCost(c), Fl(ArmSpec[arm].budget) - Fl(spent))
    BY <1>1 DEF Chosen, FitsRoughly, RemainingBudget, Current
  <2>. HIDE DEF c
  <2>3. QED BY <1>2, <2>1, <2>2, RoundingIsAbsorbed DEF Current
<1>5. PICK w : Prices(w) BY DEF Paid
<1>. HIDE DEF c
<1>6. CASE phase' = "raised" /\ UNCHANGED completed
  <2>1. Prices(w)' BY <1>5, <1>6 DEF Prices
  <2>2. QED BY <1>6, <2>1 DEF Paid
<1>7. CASE phase' = "observed" /\ completed' = Append(completed, c) /\ spent' = spent + Cost[c]
  <2>1. PICK n \in Nat : n = Len(completed) + 1 BY <1>2
  <2>2. /\ DOMAIN completed = 1 .. n - 1 /\ DOMAIN completed' = 1 .. n /\ n >= 1
        /\ \A i \in DOMAIN completed : completed'[i] = completed[i]
        /\ completed'[n] = c /\ Len(completed) = n - 1 /\ Len(completed') = n
    BY <1>2, <1>7, <2>1, Appended
  <2>3. DOMAIN completed' = DOMAIN completed \cup {n}
    <3>1. 1 .. n = (1 .. n - 1) \cup {n} BY <2>2
    <3>2. QED BY <2>2, <3>1
  <2>4. PICK v : v = [m \in Nat |-> IF m = n THEN spent' ELSE w[m]] OBVIOUS
  <2>5. spent' = spent + Cost[c] /\ spent' \in Nat /\ spent' <= Current.budget
    BY <1>2, <1>3, <1>4, <1>7
  <2>6. w \in [Nat -> Nat] /\ w[0] = 0 /\ w[n - 1] = spent
        /\ \A m \in DOMAIN completed : w[m] = w[m - 1] + Cost[completed[m]]
    BY <1>2, <1>5, <2>2 DEF Prices
  <2>7. v \in [Nat -> Nat] BY <2>4, <2>5, <2>6
  <2>8. v[0] = 0 /\ v[n] = spent' /\ v[n - 1] = spent BY <2>2, <2>4, <2>6
  <2>9. \A m \in DOMAIN completed : v[m] = w[m] /\ v[m - 1] = w[m - 1] BY <2>2, <2>4
  <2>10. \A m \in DOMAIN completed' : v[m] = v[m - 1] + Cost[completed'[m]]
    BY <2>2, <2>3, <2>5, <2>6, <2>8, <2>9
  <2>11. Prices(v)' BY <2>2, <2>7, <2>8, <2>10 DEF Prices
  <2>12. spent' <= Current'.budget BY <1>2, <2>5 DEF Current
  <2>13. QED BY <2>11, <2>12 DEF Paid
<1>8. QED BY <1>1, <1>6, <1>7

LEMMA PaidNext ==
  ASSUME Typed, Paid, [Next]_vars PROVE Paid'
<1>1. ASSUME NEW a \in ArmIds, Start(a) PROVE Paid'
  <2>1. completed' = <<>> /\ spent' = 0 /\ arm' = a BY <1>1 DEF Start
  <2>2. Prices([n \in Nat |-> 0])' BY <2>1 DEF Prices
  <2>3. spent' <= Current'.budget BY <2>1, ClosedLoopAssumption DEF Current
  <2>4. QED BY <2>2, <2>3 DEF Paid
<1>2. CASE Experiment BY <1>2, PaidExperiment
<1>3. ASSUME UNCHANGED <<completed, spent>>, phase = "raised" => phase' = "raised",
             phase' \in {"loop", "decided", "observed"} =>
               phase \in {"loop", "decided", "observed"} /\ UNCHANGED arm
      PROVE  Paid'
  <2>1. PICK w : Prices(w) BY DEF Paid
  <2>2. Prices(w)' BY <1>3, <2>1 DEF Prices
  <2>3. QED BY <1>3, <2>2 DEF Paid, Current
<1>4. CASE Decide
  BY <1>3, <1>4 DEF Decide
<1>5. CASE Apply
  <2>1. UNCHANGED <<completed, spent, arm>> /\ phase = "observed" BY <1>5 DEF Apply
  <2>2. QED BY <1>3, <2>1
<1>6. CASE Recompute BY <1>3, <1>6 DEF Recompute
<1>7. CASE Finish
  <2>1. UNCHANGED <<completed, spent>> /\ phase = "loop" /\ phase' \in {"idle", "raised"}
    BY <1>7 DEF Finish
  <2>2. QED BY <1>3, <2>1
<1>8. CASE UNCHANGED vars BY <1>3, <1>8 DEF vars
<1>9. CASE Over BY <1>8, <1>9 DEF Over
<1>10. QED BY <1>1, <1>2, <1>4, <1>5, <1>6, <1>7, <1>8, <1>9 DEF Next

Stopped(r, a) ==
  LET order == r.experiments
      made == ToSet(order)
      price[n \in 0 .. Len(order)] == IF n = 0 THEN 0 ELSE price[n - 1] + Cost[order[n]]
      left == ArmSpec[a].budget - price[Len(order)]
  IN  /\ left >= 0 /\ Cardinality(made) = Len(order)
      /\ (r.stop = "candidate_space_exhausted") <=> (made = Candidates)
      /\ \A c \in Candidates \ made : Cost[c] > left

LEMMA StoppedIsTrue == StopIsTrue <=> \A a \in DOMAIN runs : Stopped(runs[a], a)
BY Zenon DEF StopIsTrue, Stopped

LEMMA FinishedTruly ==
  ASSUME Typed, Paired, Paid, Finish
  PROVE  Stopped(Run, arm)
<1>n. PICK N \in Nat : N = Len(completed) /\ DOMAIN completed = 1 .. N BY DEF Typed
<1>. DEFINE Unrolls(v) == v = [n \in 0 .. N |-> IF n = 0 THEN 0 ELSE v[n - 1] + Cost[completed[n]]]
<1>v. PICK price : price = CHOOSE v : Unrolls(v) OBVIOUS
<1>1. arm \in ArmIds /\ phase = "loop" /\ Feasible = {} /\ spent \in Nat BY DEF Finish, Typed
<1>2. PICK w : Prices(w) BY DEF Paid
<1>3. w[0] = 0 /\ w[N] = spent /\ \A n \in 1 .. N : w[n] = w[n - 1] + Cost[completed[n]]
  BY <1>n, <1>1, <1>2 DEF Prices
<1>4. Unrolls([n \in 0 .. N |-> w[n]])
  <2>. DEFINE v == [n \in 0 .. N |-> w[n]]
  <2>1. \A n \in 0 .. N : v[n] = IF n = 0 THEN 0 ELSE v[n - 1] + Cost[completed[n]] BY <1>3
  <2>2. QED BY <2>1
<1>5. Unrolls(price) BY <1>4, <1>v
<1>6. price[0] = 0 /\ \A n \in 1 .. N : price[n] = price[n - 1] + Cost[completed[n]]
  <2>1. 0 \in 0 .. N /\ \A n \in 1 .. N : n \in 0 .. N /\ n # 0 OBVIOUS
  <2>2. QED BY <1>5, <2>1
<1>7. price[N] = spent
  <2>1. N \in Nat /\ price[0] = w[0] BY <1>3, <1>6
  <2>2. \A n \in 1 .. N : price[n - 1] = w[n - 1] => price[n] = w[n] BY <1>3, <1>6
  <2>3. \A n \in 0 .. N : price[n] = w[n] BY ONLY <2>1, <2>2, RecurrencesAgree
  <2>4. QED BY <1>3, <2>3
<1>8. Cardinality(Done) = N
  <2>. DEFINE f == [n \in 1 .. N |-> completed[n]]
  <2>1. f \in Bijection(1 .. N, Done)
    BY <1>n DEF Bijection, Injection, Surjection, Done, ToSet, Paired, IsInjective
  <2>2. ExistsBijection(1 .. N, Done) BY <2>1 DEF ExistsBijection
  <2>3. IsFiniteSet(1 .. N) /\ Cardinality(1 .. N) = N BY FS_Interval
  <2>4. QED BY <2>2, <2>3, FS_Bijection
<1>9. spent <= ArmSpec[arm].budget /\ ArmSpec[arm].budget \in Nat
  BY <1>1, ClosedLoopAssumption DEF Paid, Current
<1>10. \A c \in Candidates \ Done : Cost[c] > ArmSpec[arm].budget - spent
  <2>1. ASSUME NEW c \in Candidates \ Done PROVE Cost[c] > ArmSpec[arm].budget - spent
    <3>1. ~ FitsRoughly(FlCost(c), Fl(ArmSpec[arm].budget) - Fl(spent))
      BY <1>1 DEF Feasible, RemainingBudget, Current
    <3>2. spent \in 0 .. ArmSpec[arm].budget /\ Cost[c] \in Nat BY <1>1, <1>9, PlannerAssumption
    <3>3. ~ (Cost[c] <= ArmSpec[arm].budget - spent) BY <1>1, <3>1, <3>2, RoundingIsAbsorbed
    <3>4. QED BY <1>1, <1>9, <3>2, <3>3
  <2>2. QED BY <2>1
<1>11. Run.experiments = completed /\ Run.stop = StopReason BY DEF Run
<1>12. (StopReason = "candidate_space_exhausted") <=> (Done = Candidates)
  BY DoneIsTyped DEF StopReason
<1>13. ToSet(completed) = Done BY DEF Done
<1>14. ArmSpec[arm].budget - price[N] >= 0 BY <1>1, <1>7, <1>9
<1>. DEFINE order == Run.experiments
<1>15. N = Len(order) /\ ToSet(order) = Done /\ order = completed BY <1>n, <1>11, <1>13
<1>16. price = CHOOSE v : v = [n \in 0 .. Len(order) |->
                                IF n = 0 THEN 0 ELSE v[n - 1] + Cost[order[n]]]
  BY <1>v, <1>15
<1>. HIDE DEF Unrolls, order
<1>17. QED BY <1>7, <1>8, <1>10, <1>11, <1>12, <1>14, <1>15, <1>16 DEF Stopped, order

LEMMA StopIsTrueNext ==
  ASSUME Typed, Paired, Paid, StopIsTrue, [Next]_vars PROVE StopIsTrue'
<1>1. CASE UNCHANGED runs
  <2>1. \A a \in DOMAIN runs' : Stopped(runs'[a], a) BY <1>1, StoppedIsTrue
  <2>2. QED BY <2>1, Zenon DEF StopIsTrue, Stopped
<1>2. CASE Finish /\ runs' # runs
  <2>1. runs' = [a \in DOMAIN runs \cup {arm} |-> IF a = arm THEN Run ELSE runs[a]] BY <1>2 DEF Finish
  <2>2. Stopped(Run, arm) BY <1>2, FinishedTruly
  <2>3. \A a \in DOMAIN runs' : Stopped(runs'[a], a) BY <2>1, <2>2, StoppedIsTrue
  <2>4. QED BY <2>3, Zenon DEF StopIsTrue, Stopped
<1>3. Next => UNCHANGED runs \/ Finish BY DEF Next, Start, Decide, Experiment, Apply, Recompute, Over, vars
<1>4. QED BY <1>1, <1>2, <1>3 DEF vars

-----------------------------------------------------------------------------
(* The diagnostics.                                                        *)

LEMMA AdequacyNext ==
  ASSUME SigmasOccur, Typed, OneEach, AdequacyIsRolling, [Next]_vars
  PROVE  AdequacyIsRolling'
<1>1. CASE UNCHANGED diagnostics BY <1>1 DEF AdequacyIsRolling
<1>2. CASE Apply /\ diagnostics' # diagnostics
  <2>1. arm \in ArmIds BY <1>2 DEF Apply, Typed
  <2>2. PICK k \in Keys \ applied : Met(k) /\ Update(k) BY <1>2, ApplyUpdates DEF lineage
  <2>3. PICK u \in Updates, new \in Diagnoses :
          new = Diagnose(u.sigma, u.bin) /\ diagnostics' = Append(diagnostics, new)
    BY <2>1, <2>2, Updated
  <2>4. diagnostics \in Seq(Diagnoses) BY DEF Typed
  <2>5. PICK n \in Nat : n = Len(diagnostics) + 1 BY <2>4
  <2>6. /\ DOMAIN diagnostics = 1 .. n - 1 /\ DOMAIN diagnostics' = 1 .. n /\ n >= 1
        /\ \A i \in DOMAIN diagnostics : diagnostics'[i] = diagnostics[i]
        /\ diagnostics'[n] = new /\ Len(diagnostics) = n - 1
    BY <2>3, <2>4, <2>5, Appended
  <2>7. DOMAIN diagnostics' = DOMAIN diagnostics \cup {n}
    <3>1. 1 .. n = (1 .. n - 1) \cup {n} BY <2>6
    <3>2. QED BY <2>6, <3>1
  <2>8. AlarmWindow \in Nat /\ AlarmCount \in Nat /\ MinimumResiduals \in Nat BY ClosedLoopAssumption
  <2>. DEFINE window(d, i) == {j \in DOMAIN d : i - AlarmWindow <= j /\ j <= i /\ d[j].outlier}
              fits(d, i) ==
                /\ Cardinality(window(d, i)) >= AlarmCount \/ d[i].tail
                     => d[i].state = "appears_misspecified"
                /\ d[i].state = "adequate" => i >= MinimumResiduals /\ ~d[i].outlier
  <2>9. ASSUME NEW i \in DOMAIN diagnostics PROVE fits(diagnostics', i)
    <3>1. window(diagnostics', i) = window(diagnostics, i)
      <4>1. i \in 1 .. n - 1 BY <2>6
      <4>2. \A j : j \in window(diagnostics', i) <=> j \in window(diagnostics, i) BY <2>6, <4>1
      <4>3. QED BY <4>2
    <3>2. diagnostics'[i] = diagnostics[i] BY <2>6
    <3>3. fits(diagnostics, i) BY DEF AdequacyIsRolling
    <3>. HIDE DEF window
    <3>4. QED BY <3>1, <3>2, <3>3
  <2>10. fits(diagnostics', n)
    <3>. DEFINE recent == {j \in DOMAIN diagnostics : j > Len(diagnostics) - AlarmWindow
                                                       /\ diagnostics[j].outlier}
                rolling == Cardinality(recent) + (IF new.outlier THEN 1 ELSE 0)
    <3>1. new.state = IF new.tail \/ rolling >= AlarmCount THEN "appears_misspecified"
                      ELSE IF n < MinimumResiduals \/ new.tail # new.outlier THEN "uncertain"
                      ELSE "adequate"
      <4>1. new.outlier = IsOutlier(weights, u.sigma, u.bin) /\ new.tail = IsTail(weights, u.sigma, u.bin)
            /\ new.state = Adequacy(new.outlier, new.tail)
        BY <2>3 DEF Diagnose
      <4>2. n = Len(diagnostics) + 1 BY <2>5
      <4>3. QED BY <4>1, <4>2 DEF Adequacy
    <3>2. IsFiniteSet(recent) /\ n \notin recent /\ Cardinality(recent) \in Nat
      <4>1. IsFiniteSet(1 .. n - 1) BY FS_Interval
      <4>2. recent \subseteq 1 .. n - 1 BY <2>6
      <4>3. QED BY <2>6, <4>1, <4>2, FS_Subset, FS_CardinalityType
    <3>3. window(diagnostics', n) = IF new.outlier THEN recent \cup {n} ELSE recent
      <4>1. \A j \in 1 .. n - 1 : (j > n - 1 - AlarmWindow <=> n - AlarmWindow <= j) /\ j <= n
        BY <2>8
      <4>2. n - AlarmWindow <= n BY <2>8
      <4>3. \A j : j \in window(diagnostics', n) <=>
                     \/ j \in recent
                     \/ j = n /\ new.outlier
        BY <2>6, <2>7, <4>1, <4>2
      <4>. HIDE DEF window, recent
      <4>4. QED BY <4>3
    <3>4. Cardinality(window(diagnostics', n)) = rolling
      <4>. HIDE DEF window, recent
      <4>1. CASE new.outlier BY <3>2, <3>3, <4>1, FS_AddElement
      <4>2. CASE ~new.outlier BY <3>2, <3>3, <4>2
      <4>3. QED BY <4>1, <4>2
    <3>. HIDE DEF window, rolling
    <3>5. QED BY <2>6, <2>8, <3>1, <3>4
  <2>11. \A i \in DOMAIN diagnostics' : fits(diagnostics', i) BY <2>7, <2>9, <2>10
  <2>12. QED BY <2>11 DEF AdequacyIsRolling
<1>3. ASSUME NEW a \in ArmIds, Start(a) PROVE AdequacyIsRolling'
  <2>1. DOMAIN diagnostics' = {} BY <1>3 DEF Start
  <2>2. QED BY <2>1 DEF AdequacyIsRolling
<1>4. Next => UNCHANGED diagnostics \/ Apply \/ \E a \in ArmIds : Start(a)
  BY DEF Next, Decide, Experiment, Recompute, Finish, Over, vars, lineage
<1>5. QED BY <1>1, <1>2, <1>3, <1>4 DEF vars, lineage

-----------------------------------------------------------------------------
(* The invariant, and what follows from it.                                *)

LoopInv ==
  /\ Typed /\ Paired /\ Weighed /\ Remembered /\ Promised /\ Paid
  /\ SigmaUsesOnlyThePast /\ StopIsTrue /\ AdequacyIsRolling

LEMMA LoopInit == ASSUME Init PROVE LoopInv
<1>1. DOMAIN updates = {} /\ DOMAIN completed = {} /\ DOMAIN runs = {} /\ DOMAIN diagnostics = {}
      /\ Len(updates) = 0 /\ Len(completed) = 0
      /\ phase = "idle" /\ arm = None /\ spent = 0 /\ weights = Prior
  BY DEF Init
<1>2. Typed /\ Paired BY TypedInit, PairedInit
<1>3. Weighed
  <2>1. ASSUME NEW h \in Hypotheses PROVE Weights([n \in Nat |-> Prior[h]], h)
    BY <1>1, PriorIsTyped DEF Weights
  <2>2. QED BY <1>1, <2>1 DEF Weighed
<1>4. Paid
  <2>1. Prices([n \in Nat |-> 0]) BY <1>1 DEF Prices
  <2>2. QED BY <1>1, <2>1 DEF Paid
<1>5. Remembered /\ Promised /\ SigmaUsesOnlyThePast /\ StopIsTrue /\ AdequacyIsRolling
  BY <1>1 DEF Remembered, Promised, SigmaUsesOnlyThePast, StopIsTrue, AdequacyIsRolling
<1>6. QED BY <1>2, <1>3, <1>4, <1>5 DEF LoopInv

(* The nine parts are kept by every step of the evaluation.                *)
THEOREM LoopKeeps ==
  ASSUME SigmasOccur
  PROVE  Spec => []LoopInv
<1>1. Init => LoopInv BY LoopInit
<1>2. LoopInv /\ [Next]_vars => LoopInv'
  <2>1. SUFFICES ASSUME LoopInv, [Next]_vars PROVE LoopInv' OBVIOUS
  <2>2. Typed /\ Paired /\ OneEach BY <2>1 DEF LoopInv, Paired
  <2>3. Typed' /\ Paired' BY <2>1, <2>2, TypedNext, PairedNext
  <2>4. Weighed' BY <2>1, <2>2, WeighedNext DEF LoopInv
  <2>5. Remembered' /\ SigmaUsesOnlyThePast' BY <2>1, <2>2, RememberedNext DEF LoopInv
  <2>6. Promised' BY <2>1, <2>2, PromisedNext DEF LoopInv
  <2>7. Paid' /\ StopIsTrue' BY <2>1, <2>2, PaidNext, StopIsTrueNext DEF LoopInv
  <2>8. AdequacyIsRolling' BY <2>1, <2>2, AdequacyNext DEF LoopInv
  <2>9. QED BY <2>3, <2>4, <2>5, <2>6, <2>7, <2>8 DEF LoopInv
<1>3. QED BY <1>1, <1>2, PTL DEF Spec

(* Before every decision the belief of an arm is the product of the        *)
(* likelihoods of exactly the comparisons it has completed, each once and  *)
(* adam minus sgd; and no alarm of the diagnostics is missed.              *)
THEOREM BeliefsAreTheEvidence ==
  ASSUME SigmasOccur
  PROVE  Spec => []BeliefInv
<1>1. LoopInv => BeliefInv
  <2>1. SUFFICES ASSUME LoopInv PROVE BeliefInv OBVIOUS
  <2>2. TypeOK
    <3>1. Typed BY <2>1 DEF LoopInv
    <3>2. Range(updates) \subseteq
            [pair : Keys, group : Groups, sigma : Sigmas, sources : SUBSET {e.id : e \in history},
             bin : Outcomes]
      <4>1. updates \in Seq(Updates) BY <3>1 DEF Typed
      <4>2. \A i \in DOMAIN updates : updates[i] \in Updates BY <4>1
      <4>3. \A i \in DOMAIN updates : updates[i].sources \subseteq {e.id : e \in history}
        BY <3>1 DEF Typed
      <4>4. \A i \in DOMAIN updates : updates[i] \in
              [pair : Keys, group : Groups, sigma : Sigmas, sources : SUBSET {e.id : e \in history},
               bin : Outcomes]
        BY <4>2, <4>3 DEF Updates
      <4>5. QED BY <4>4 DEF Range
    <3>3. QED BY <3>1, <3>2 DEF Typed, TypeOK, Ids
  <2>3. BeliefIsTheEvidence BY <2>1, BeliefFollows DEF LoopInv
  <2>4. QED BY <2>1, <2>2, <2>3 DEF LoopInv, BeliefInv
<1>2. QED BY <1>1, LoopKeeps, PTL

(* The effects a sigma is estimated from are the prefix and the arm's own  *)
(* earlier updates of the same group, all of them and nothing else.        *)
THEOREM SigmasComeFromThePast ==
  ASSUME SigmasOccur
  PROVE  Spec => []SigmaUsesOnlyThePast
<1>1. LoopInv => SigmaUsesOnlyThePast BY DEF LoopInv
<1>2. QED BY <1>1, LoopKeeps, PTL

(* A run that has ended has spent no more than its budget, each experiment *)
(* paid once, and could not have paid for another one; the rounding of the *)
(* floating-point comparisons changes nothing of it.                       *)
THEOREM RunsStopTruly ==
  ASSUME SigmasOccur
  PROVE  Spec => []StopIsTrue
<1>1. LoopInv => StopIsTrue BY DEF LoopInv
<1>2. QED BY <1>1, LoopKeeps, PTL

(* An update uses the sigma that the decision it follows from was made     *)
(* with, although the estimate is made a second time, from a list of       *)
(* effects it filters differently.                                         *)
THEOREM SigmasAreAsPromised ==
  ASSUME SigmasOccur
  PROVE  Spec => PromisedSigma
<1>1. LoopInv /\ [Next]_vars =>
        [Len(updates') > Len(updates) =>
           LET last == updates'[Len(updates')]
           IN  last.sigma = decision.snapshot[last.group]]_vars
  <2>1. SUFFICES ASSUME LoopInv, [Next]_vars, Len(updates') > Len(updates)
                 PROVE  LET last == updates'[Len(updates')]
                        IN  last.sigma = decision.snapshot[last.group]
    OBVIOUS
  <2>2. QED BY <2>1, PromiseIsKept DEF LoopInv
<1>2. QED BY <1>1, LoopKeeps, PTL DEF Spec, PromisedSigma

-----------------------------------------------------------------------------
(* Sums and best choices over finite sets.                                 *)

(* A sum over a finite set of integers is defined, and an integer.         *)
Sums(S, f, sum) ==
  sum = [s \in SUBSET S |-> IF s = {} THEN 0
                            ELSE f[CHOOSE x \in s : TRUE] + sum[s \ {CHOOSE x \in s : TRUE}]]

LEMMA SumIsDefined ==
  ASSUME NEW S, IsFiniteSet(S), NEW f \in [S -> Int]
  PROVE  \E sum \in [SUBSET S -> Int] : Sums(S, f, sum)
<1> DEFINE D(n) == {s \in SUBSET S : Cardinality(s) <= n}
           G(n, g) == \A s \in D(n) : g[s] = IF s = {} THEN 0
                        ELSE f[CHOOSE x \in s : TRUE] + g[s \ {CHOOSE x \in s : TRUE}]
           T == {n \in Nat : ~ \E g \in [SUBSET S -> Int] : G(n, g)}
<1>1. \A s \in SUBSET S : IsFiniteSet(s) /\ Cardinality(s) \in Nat /\ Cardinality(s) <= Cardinality(S)
  BY FS_Subset, FS_CardinalityType
<1>2. \A s \in SUBSET S : s # {} =>
        /\ (CHOOSE x \in s : TRUE) \in s
        /\ s \ {CHOOSE x \in s : TRUE} \in SUBSET S
        /\ Cardinality(s \ {CHOOSE x \in s : TRUE}) = Cardinality(s) - 1
  <2> SUFFICES ASSUME NEW s \in SUBSET S, s # {}
               PROVE  /\ (CHOOSE x \in s : TRUE) \in s
                      /\ Cardinality(s \ {CHOOSE x \in s : TRUE}) = Cardinality(s) - 1
    OBVIOUS
  <2>1. (CHOOSE x \in s : TRUE) \in s OBVIOUS
  <2> DEFINE e == CHOOSE x \in s : TRUE
  <2>2. e \in s BY <2>1
  <2> HIDE DEF e
  <2>3. Cardinality(s \ {e}) = Cardinality(s) - 1 BY <1>1, <2>2, FS_RemoveElement
  <2>4. QED BY <2>1, <2>3 DEF e
<1>3. T = {}
  <2> SUFFICES ASSUME T # {} PROVE FALSE OBVIOUS
  <2>1. T \in SUBSET Nat OBVIOUS
  <2>2. PICK n \in T : \A m \in T : n <= m BY <2>1, LeastElement
  <2>3. CASE n = 0
    <3>1. \A s \in D(0) : s = {}
      <4> SUFFICES ASSUME NEW s \in D(0) PROVE s = {} OBVIOUS
      <4>1. Cardinality(s) = 0 BY <1>1
      <4>2. QED BY <1>1, <4>1, FS_EmptySet
    <3>2. PICK g : g = [s \in SUBSET S |-> 0] OBVIOUS
    <3>3. g \in [SUBSET S -> Int] BY <3>2
    <3>4. G(n, g) BY <2>3, <3>1, <3>2
    <3>. HIDE DEF G, D
    <3>5. QED BY <2>2, <3>3, <3>4
  <2>4. CASE n # 0
    <3>1. n \in Nat BY <2>2
    <3>2. n - 1 \in Nat /\ ~ (n <= n - 1) BY <2>4, <3>1
    <3>3. n - 1 \notin T BY <2>2, <3>2
    <3>4. PICK g \in [SUBSET S -> Int] : G(n - 1, g) BY <3>2, <3>3
    <3> DEFINE val(s) == IF s = {} THEN 0
                         ELSE f[CHOOSE x \in s : TRUE] + g[s \ {CHOOSE x \in s : TRUE}]
    <3>5. PICK h : h = [s \in SUBSET S |-> val(s)] OBVIOUS
    <3>6. ASSUME NEW s \in SUBSET S PROVE val(s) \in Int
      <4>1. CASE s = {} BY <4>1
      <4>2. CASE s # {}
        <5>1. f[CHOOSE x \in s : TRUE] \in Int /\ g[s \ {CHOOSE x \in s : TRUE}] \in Int
          BY <1>2, <4>2
        <5>2. QED BY <4>2, <5>1
      <4>3. QED BY <4>1, <4>2
    <3>7. h \in [SUBSET S -> Int]
      <4> HIDE DEF val
      <4>1. QED BY <3>5, <3>6
    <3>8. \A s \in D(n - 1) : h[s] = g[s] BY <3>4, <3>5
    <3>9. ASSUME NEW s \in D(n), s # {} PROVE s \ {CHOOSE x \in s : TRUE} \in D(n - 1)
      <4>1. Cardinality(s) \in Nat /\ Cardinality(s) <= n BY <1>1
      <4>2. QED BY <1>2, <3>1, <3>9, <4>1
    <3>10. ASSUME NEW s \in D(n)
           PROVE  h[s] = IF s = {} THEN 0
                         ELSE f[CHOOSE x \in s : TRUE] + h[s \ {CHOOSE x \in s : TRUE}]
      <4>1. CASE s = {} BY <3>5, <4>1
      <4>2. CASE s # {}
        <5>1. h[s \ {CHOOSE x \in s : TRUE}] = g[s \ {CHOOSE x \in s : TRUE}] BY <3>8, <3>9, <4>2
        <5>2. QED BY <3>5, <4>2, <5>1
      <4>3. QED BY <4>1, <4>2
    <3>11. G(n, h) BY <3>10
    <3>. HIDE DEF G, D
    <3>12. QED BY <2>2, <3>7, <3>11
  <2>5. QED BY <2>3, <2>4
<1>4. Cardinality(S) \in Nat BY FS_CardinalityType
<1>5. PICK g \in [SUBSET S -> Int] : G(Cardinality(S), g) BY <1>3, <1>4
<1>6. D(Cardinality(S)) = SUBSET S BY <1>1
<1>7. Sums(S, f, g) BY <1>5, <1>6 DEF Sums
<1>8. QED BY <1>7

LEMMA SumIsWhole ==
  ASSUME NEW S, IsFiniteSet(S), NEW f \in [S -> Int], NEW sum, Sums(S, f, sum)
  PROVE  sum[S] \in Int
<1> DEFINE T == {n \in Nat : \E s \in SUBSET S : Cardinality(s) = n /\ sum[s] \notin Int}
<1>1. \A s \in SUBSET S : IsFiniteSet(s) /\ Cardinality(s) \in Nat BY FS_Subset, FS_CardinalityType
<1>2. T = {}
  <2> SUFFICES ASSUME T # {} PROVE FALSE OBVIOUS
  <2>1. T \in SUBSET Nat OBVIOUS
  <2>2. PICK n \in T : \A m \in T : n <= m BY <2>1, LeastElement
  <2>3. PICK s \in SUBSET S : Cardinality(s) = n /\ sum[s] \notin Int BY <2>2
  <2>4. sum[s] = IF s = {} THEN 0 ELSE f[CHOOSE x \in s : TRUE] + sum[s \ {CHOOSE x \in s : TRUE}]
    BY DEF Sums
  <2>5. s # {} BY <2>3, <2>4
  <2> DEFINE e == CHOOSE x \in s : TRUE
  <2>6. e \in s /\ sum[s] = f[e] + sum[s \ {e}] BY <2>4, <2>5
  <2> HIDE DEF e
  <2>7. Cardinality(s \ {e}) = n - 1 /\ n \in Nat /\ s \ {e} \in SUBSET S
    BY <1>1, <2>3, <2>6, FS_RemoveElement
  <2>8. n - 1 \in Nat BY <1>1, <2>7
  <2>9. sum[s \ {e}] \in Int
    <3>1. n - 1 \notin T BY <2>2, <2>7, <2>8
    <3>2. QED BY <2>7, <2>8, <3>1
  <2>10. QED BY <2>3, <2>6, <2>9
<1>3. Cardinality(S) \in Nat BY FS_CardinalityType
<1>4. QED BY <1>2, <1>3

(* A finite set of choices that differ in their candidates has a best one, *)
(* and only one.                                                           *)
RankedChoices(S) ==
  /\ \A x \in S : x.gain \in Int /\ x.cost \in Int /\ x.candidate \in Nat
  /\ \A x, y \in S : x.candidate = y.candidate => x = y

LEMMA BestIsUnique ==
  ASSUME NEW S, RankedChoices(S), NEW x \in S, NEW y \in S, IsBest(x, S), IsBest(y, S)
  PROVE  x = y
<1> SUFFICES ASSUME x # y PROVE FALSE OBVIOUS
<1>1. Better(x, y) /\ Better(y, x) BY DEF IsBest
<1>2. QED BY <1>1 DEF Better, RankedChoices

LEMMA BestExists ==
  ASSUME NEW S, IsFiniteSet(S), S # {}, RankedChoices(S)
  PROVE  \E x \in S : IsBest(x, S)
<1> DEFINE T == {n \in Nat : \E s \in SUBSET S : s # {} /\ Cardinality(s) = n /\ ~ \E x \in s : IsBest(x, s)}
<1>1. \A s \in SUBSET S : IsFiniteSet(s) /\ Cardinality(s) \in Nat BY FS_Subset, FS_CardinalityType
<1>2. T = {}
  <2> SUFFICES ASSUME T # {} PROVE FALSE OBVIOUS
  <2>1. T \in SUBSET Nat OBVIOUS
  <2>2. PICK n \in T : \A m \in T : n <= m BY <2>1, LeastElement
  <2>3. PICK s \in SUBSET S : s # {} /\ Cardinality(s) = n /\ ~ \E x \in s : IsBest(x, s) BY <2>2
  <2>4. PICK e \in s : TRUE BY <2>3
  <2> DEFINE r == s \ {e}
  <2>5. Cardinality(r) = n - 1 /\ n \in Nat /\ r \in SUBSET S
    BY <1>1, <2>3, <2>4, FS_RemoveElement
  <2>6. n - 1 \in Nat BY <1>1, <2>5
  <2>7. CASE r = {}
    <3>1. s \ {e} = {} BY <2>7
    <3>2. IsBest(e, s) BY <3>1 DEF IsBest
    <3>3. QED BY <2>3, <2>4, <3>2
  <2>8. CASE r # {}
    <3>1. n - 1 \notin T BY <2>2, <2>5, <2>6
    <3>2. PICK b \in r : IsBest(b, r) BY <2>5, <2>6, <2>8, <3>1
    <3>3. b \in S /\ e \in S /\ b # e /\ b \in s BY <2>4
    <3>4. Better(b, e) \/ Better(e, b) BY <3>3 DEF RankedChoices, Better
    <3>5. CASE Better(b, e)
      <4>1. IsBest(b, s) BY <3>2, <3>5 DEF IsBest
      <4>2. QED BY <2>3, <3>3, <4>1
    <3>6. CASE Better(e, b)
      <4>1. ASSUME NEW y \in s \ {e} PROVE Better(e, y)
        <5>1. y = b \/ Better(b, y) BY <3>2, <4>1 DEF IsBest
        <5>2. y \in S OBVIOUS
        <5>3. QED BY <3>3, <3>6, <5>1, <5>2 DEF RankedChoices, Better
      <4>2. IsBest(e, s) BY <4>1 DEF IsBest
      <4>3. QED BY <2>3, <2>4, <4>2
    <3>7. QED BY <3>4, <3>5, <3>6
  <2>9. QED BY <2>7, <2>8
<1>3. Cardinality(S) \in Nat BY FS_CardinalityType
<1>4. QED BY <1>2, <1>3

(* Entropies of weights are integers.                                      *)
EntropyIsWhole == \A w \in [Hypotheses -> Nat] : Entropy(w) \in Int

LEMMA FiniteImage ==
  ASSUME NEW S, IsFiniteSet(S), NEW T, NEW f \in [S -> T], \A y \in T : \E x \in S : f[x] = y
  PROVE  IsFiniteSet(T)
<1>1. f \in Surjection(S, T) BY DEF Surjection
<1>2. QED BY <1>1, FS_Surjection

LEMMA CostsAreWhole ==
  ASSUME NEW b \in ArmIds, NEW c \in Candidates
  PROVE  FlCost(c) \in Int /\ c \in Nat /\ c # Stop
<1>1. ArmSpec[b].budget \in Nat BY ClosedLoopAssumption
<1>2. 0 \in 0 .. ArmSpec[b].budget BY <1>1
<1>3. RoundingError[Cost[c]] \in Int
  <2>1. {RoundingError[Cost[c]], RoundingError[ArmSpec[b].budget], RoundingError[0]} \subseteq Int
    BY <1>2, ClosedLoopAssumption
  <2>2. QED BY <2>1
<1>4. Cost[c] \in Nat /\ Grain \in Nat /\ c \in Nat /\ c # Stop BY PlannerAssumption
<1>5. QED BY <1>3, <1>4 DEF FlCost, Fl

LEMMA PosteriorsAreTyped ==
  ASSUME NEW w \in [Hypotheses -> Nat], NEW sigma \in Sigmas
  PROVE  /\ IsFiniteSet(Posteriors(w, sigma))
         /\ \A p \in Posteriors(w, sigma) : p.weights \in [Hypotheses -> Nat]
<1> DEFINE All == {[bin |-> o, weights |-> After(w, sigma, o)] : o \in Outcomes}
           f == [o \in Outcomes |-> [bin |-> o, weights |-> After(w, sigma, o)]]
<1>1. IsFiniteSet(All)
  <2>1. f \in [Outcomes -> All] /\ \A y \in All : \E o \in Outcomes : f[o] = y OBVIOUS
  <2>2. IsFiniteSet(Outcomes) BY PlannerAssumption
  <2> HIDE DEF f, All
  <2>3. QED BY <2>1, <2>2, FiniteImage
<1>2. Posteriors(w, sigma) \subseteq All BY DEF Posteriors
<1>3. IsFiniteSet(Posteriors(w, sigma)) BY <1>1, <1>2, FS_Subset
<1>4. \A p \in Posteriors(w, sigma) : p.weights \in [Hypotheses -> Nat]
  <2>1. ASSUME NEW p \in Posteriors(w, sigma) PROVE p.weights \in [Hypotheses -> Nat]
    <3>1. PICK o \in Outcomes : p = [bin |-> o, weights |-> After(w, sigma, o)] BY DEF Posteriors
    <3>2. p.weights = After(w, sigma, o) BY <3>1
    <3>3. QED BY <3>2, WeighedIsTyped
  <2>2. QED BY <2>1
<1>5. QED BY <1>3, <1>4

(* A gain is the entropy less a sum over the posteriors.                   *)
GainSums(w, sigma, sum) ==
  LET P == Posteriors(w, sigma)
  IN  /\ Sums(P, [p \in P |-> Entropy(p.weights)], sum)
      /\ Gain(w, sigma) = Scale * Entropy(w) - sum[P]

LEMMA GainIsSum ==
  ASSUME EntropyIsWhole, NEW w \in [Hypotheses -> Nat], NEW sigma \in Sigmas
  PROVE  \E sum : GainSums(w, sigma, sum)
<1> DEFINE P == Posteriors(w, sigma)
           f == [p \in P |-> Entropy(p.weights)]
           Unrolls(v) == v = [s \in SUBSET P |-> IF s = {} THEN 0
                                ELSE Entropy((CHOOSE x \in s : TRUE).weights)
                                     + v[s \ {CHOOSE x \in s : TRUE}]]
<1>1. PICK sum : sum = CHOOSE v : Unrolls(v) OBVIOUS
<1>2. MapThenSumSet(LAMBDA p : Entropy(p.weights), P) = sum[P]
  BY <1>1 DEF MapThenSumSet, MapThenFoldSet
<1>3. IsFiniteSet(P) /\ f \in [P -> Int] BY PosteriorsAreTyped DEF EntropyIsWhole
<1>4. \A v : Unrolls(v) <=> Sums(P, f, v)
  <2>1. \A s \in SUBSET P : s # {} =>
          f[CHOOSE x \in s : TRUE] = Entropy((CHOOSE x \in s : TRUE).weights)
    <3> HIDE DEF P
    <3>1. \A s \in SUBSET P : s # {} => (CHOOSE x \in s : TRUE) \in P OBVIOUS
    <3>2. QED BY <3>1
  <2> HIDE DEF P, f
  <2>2. QED BY <2>1 DEF Sums
<1>5. Gain(w, sigma) = Scale * Entropy(w) - sum[P] BY <1>2 DEF Gain
<1> HIDE DEF P, f, Unrolls
<1>6. \E v : Sums(P, f, v) BY <1>3, SumIsDefined
<1>7. Sums(P, f, sum) BY <1>1, <1>4, <1>6
<1>8. QED BY <1>5, <1>7 DEF GainSums, P, f

LEMMA GainIsWhole ==
  ASSUME EntropyIsWhole, NEW w \in [Hypotheses -> Nat], NEW sigma \in Sigmas
  PROVE  Gain(w, sigma) \in Int
<1> DEFINE P == Posteriors(w, sigma)
           f == [p \in P |-> Entropy(p.weights)]
<1>1. PICK sum : GainSums(w, sigma, sum) BY GainIsSum
<1>2. IsFiniteSet(P) /\ f \in [P -> Int] BY PosteriorsAreTyped DEF EntropyIsWhole
<1>3. Sums(P, f, sum) /\ Gain(w, sigma) = Scale * Entropy(w) - sum[P] BY <1>1 DEF GainSums
<1> HIDE DEF P, f
<1>4. sum[P] \in Int BY <1>2, <1>3, SumIsWhole
<1>5. Scale \in Int /\ Entropy(w) \in Int BY PlannerAssumption DEF EntropyIsWhole
<1>6. QED BY <1>3, <1>4, <1>5

LEMMA CompleterIsEligible ==
  ASSUME NEW c \in Candidates, NEW done, Effect(c, done) = "completes_pair"
  PROVE  Design[c].group \in Groups
<1>1. c \notin done BY DEF Effect
<1>2. Design[c].eligible
  <2>1. Design[c].eligible \in BOOLEAN BY PlannerAssumption
  <2>2. ~Design[c].eligible => Effect(c, done) = "ineligible" BY <1>1 DEF Effect
  <2>3. QED BY <2>1, <2>2
<1>3. QED BY <1>2 DEF Groups, EligibleCandidates

LEMMA ScoreIsWhole ==
  ASSUME EntropyIsWhole, NEW b \in ArmIds, NEW c \in Candidates, NEW done,
         NEW w \in [Hypotheses -> Nat], NEW snapshot \in [Groups -> Sigmas]
  PROVE  LET score == Score(c, done, w, snapshot)
         IN  score.gain \in Int /\ score.cost \in Int /\ score.candidate = c
<1> DEFINE score == Score(c, done, w, snapshot)
<1>1. /\ score.gain = IF Effect(c, done) = "completes_pair"
                      THEN Gain(w, snapshot[Design[c].group]) ELSE 0
      /\ score.cost = FlCost(c) /\ score.candidate = c
  BY DEF Score
<1> HIDE DEF score
<1>2. score.gain \in Int
  <2>1. CASE Effect(c, done) = "completes_pair"
    <3>1. snapshot[Design[c].group] \in Sigmas BY <2>1, CompleterIsEligible
    <3>2. Gain(w, snapshot[Design[c].group]) \in Int BY <3>1, GainIsWhole
    <3>3. QED BY <1>1, <2>1, <3>2
  <2>2. CASE Effect(c, done) # "completes_pair" BY <1>1, <2>2
  <2>3. QED BY <2>1, <2>2
<1>3. score.cost \in Int BY <1>1, CostsAreWhole
<1>4. QED BY <1>1, <1>2, <1>3 DEF score

(* The second action of a branch is the best of those the branch offers.   *)
Picks(S, x) == x \in S /\ IsBest(x, S) /\ RankedChoices(S)

LEMMA SecondIsBest ==
  ASSUME EntropyIsWhole, NEW b \in ArmIds, NEW cands \in SUBSET Candidates, NEW done,
         NEW w \in [Hypotheses -> Nat], NEW snapshot \in [Groups -> Sigmas], NEW remaining
  PROVE  LET S == SecondActions(cands, done, w, remaining, snapshot) IN Picks(S, BestOf(S))
<1> DEFINE Open == {c \in cands \ done : FitsRoughly(FlCost(c), remaining)
                                         /\ Effect(c, done) = "completes_pair"}
           Scores == {Score(c, done, w, snapshot) : c \in Open}
           S == {StopAction} \cup Scores
<1>1. S = SecondActions(cands, done, w, remaining, snapshot) BY DEF SecondActions
<1>2. IsFiniteSet(S)
  <2>1. IsFiniteSet(Open)
    <3>1. Open \in SUBSET Candidates OBVIOUS
    <3>2. QED BY <3>1, FS_Subset, PlannerAssumption
  <2>2. IsFiniteSet(Scores)
    <3> DEFINE f == [c \in Open |-> Score(c, done, w, snapshot)]
    <3>1. f \in [Open -> Scores] /\ \A y \in Scores : \E c \in Open : f[c] = y OBVIOUS
    <3> HIDE DEF f, Open, Scores
    <3>2. QED BY <2>1, <3>1, FiniteImage
  <2> HIDE DEF Scores
  <2>3. QED BY <2>2, FS_Singleton, FS_Union
<1>3. StopAction.gain = 0 /\ StopAction.cost = 0 /\ StopAction.candidate = Stop /\ Stop = 0
  BY DEF StopAction, Stop
<1>4. \A s \in Scores : \E c \in Candidates :
        /\ s = Score(c, done, w, snapshot)
        /\ s.gain \in Int /\ s.cost \in Int /\ s.candidate = c /\ c \in Nat /\ c # Stop
  BY ScoreIsWhole, CostsAreWhole
<1> HIDE DEF Scores
<1>5. RankedChoices(S)
  <2>1. \A x \in S : x.gain \in Int /\ x.cost \in Int /\ x.candidate \in Nat BY <1>3, <1>4
  <2>2. ASSUME NEW x \in S, NEW y \in S, x.candidate = y.candidate PROVE x = y
    <3>1. CASE x \in Scores /\ y \in Scores BY <1>4, <2>2, <3>1
    <3>2. CASE x = StopAction /\ y = StopAction BY <3>2
    <3>3. CASE x \in Scores /\ y = StopAction BY <1>3, <1>4, <2>2, <3>3
    <3>4. CASE x = StopAction /\ y \in Scores BY <1>3, <1>4, <2>2, <3>4
    <3>5. QED BY <3>1, <3>2, <3>3, <3>4
  <2>3. QED BY <2>1, <2>2 DEF RankedChoices
<1>6. S # {} OBVIOUS
<1> HIDE DEF S
<1>7. \E x \in S : IsBest(x, S) BY <1>2, <1>5, <1>6, BestExists
<1>8. BestOf(S) \in S /\ IsBest(BestOf(S), S) BY <1>7 DEF BestOf
<1>9. QED BY <1>1, <1>5, <1>8 DEF Picks

LEMMA BranchesAreTyped ==
  ASSUME NEW c \in Candidates, NEW done, NEW w \in [Hypotheses -> Nat],
         NEW snapshot \in [Groups -> Sigmas]
  PROVE  /\ IsFiniteSet(FirstBranches(c, done, w, snapshot))
         /\ \A p \in FirstBranches(c, done, w, snapshot) : p.weights \in [Hypotheses -> Nat]
<1>1. CASE Effect(c, done) = "completes_pair"
  <2>1. snapshot[Design[c].group] \in Sigmas BY <1>1, CompleterIsEligible
  <2>2. FirstBranches(c, done, w, snapshot) = Posteriors(w, snapshot[Design[c].group])
    BY <1>1 DEF FirstBranches
  <2>3. QED BY <2>1, <2>2, PosteriorsAreTyped
<1>2. CASE Effect(c, done) # "completes_pair"
  <2> DEFINE v == Weigh(w, [h \in Hypotheses |-> Scale])
  <2>1. v \in [Hypotheses -> Nat]
    <3>1. Scale \in Nat /\ \A h \in Hypotheses : w[h] \in Nat BY PlannerAssumption
    <3>2. \A h \in Hypotheses : w[h] * Scale \in Nat BY <3>1
    <3>3. v = [h \in Hypotheses |-> w[h] * Scale] BY DEF Weigh, Hypotheses
    <3>4. QED BY <3>2, <3>3
  <2> HIDE DEF v
  <2>2. FirstBranches(c, done, w, snapshot) = {[bin |-> None, weights |-> v]}
    BY <1>2 DEF FirstBranches, NoEvidence, v
  <2>3. \A p \in {[bin |-> None, weights |-> v]} : p.weights = v OBVIOUS
  <2>4. IsFiniteSet({[bin |-> None, weights |-> v]}) BY FS_Singleton
  <2>5. QED BY <2>1, <2>2, <2>3, <2>4
<1>3. QED BY <1>1, <1>2

LEMMA BranchIsWhole ==
  ASSUME EntropyIsWhole, NEW b \in ArmIds, NEW c \in Candidates, NEW cands \in SUBSET Candidates,
         NEW done, NEW branch, branch.weights \in [Hypotheses -> Nat], NEW budget,
         NEW snapshot \in [Groups -> Sigmas]
  PROVE  LET plan == PlanBranch(c, cands, done, branch, budget, snapshot)
         IN  plan.entropy \in Int /\ plan.mass * plan.cost \in Int
<1> DEFINE second == BestOf(SecondActions(cands, done \cup {c}, branch.weights,
                                          budget - FlCost(c), snapshot))
           left == Scale * Entropy(branch.weights) - second.gain
           plan == PlanBranch(c, cands, done, branch, budget, snapshot)
<1>1. second.gain \in Int /\ second.cost \in Int
  <2>1. PICK S : S = SecondActions(cands, done \cup {c}, branch.weights, budget - FlCost(c), snapshot)
    OBVIOUS
  <2>2. Picks(S, BestOf(S)) BY <2>1, SecondIsBest
  <2>3. QED BY <2>1, <2>2 DEF Picks, RankedChoices
<1> HIDE DEF second
<1>2. left \in Int BY <1>1, PlannerAssumption DEF EntropyIsWhole
<1>3. Total(branch.weights) \in Int BY DEF Total, Hypotheses
<1>4. /\ plan.entropy = IF left > 0 THEN left ELSE 0
      /\ plan.mass = Total(branch.weights) /\ plan.cost = FlCost(c) + second.cost
  BY DEF PlanBranch, second
<1> HIDE DEF plan, left
<1>5. FlCost(c) + second.cost \in Int BY <1>1, CostsAreWhole
<1>6. plan.mass * plan.cost \in Int BY <1>3, <1>4, <1>5
<1>7. QED BY <1>2, <1>4, <1>6 DEF plan

(* A plan is made of two sums over its branches.                           *)
Branches(c, cands, done, w, budget, snapshot) ==
  {PlanBranch(c, cands, done, p, budget, snapshot) : p \in FirstBranches(c, done, w, snapshot)}

PlanSums(plan, B, w, sum, total) ==
  /\ Sums(B, [x \in B |-> x.entropy], sum) /\ Sums(B, [x \in B |-> x.mass * x.cost], total)
  /\ plan.gain = Scale * Scale * Entropy(w) - sum[B] /\ plan.cost = total[B]

LEMMA BranchesAreWhole ==
  ASSUME EntropyIsWhole, NEW b \in ArmIds, NEW c \in Candidates, NEW cands \in SUBSET Candidates,
         NEW done, NEW w \in [Hypotheses -> Nat], NEW budget, NEW snapshot \in [Groups -> Sigmas],
         NEW B, B = Branches(c, cands, done, w, budget, snapshot)
  PROVE  /\ IsFiniteSet(B)
         /\ [x \in B |-> x.entropy] \in [B -> Int] /\ [x \in B |-> x.mass * x.cost] \in [B -> Int]
<1> DEFINE First == FirstBranches(c, done, w, snapshot)
<1>1. IsFiniteSet(B)
  <2> DEFINE h == [p \in First |-> PlanBranch(c, cands, done, p, budget, snapshot)]
  <2>1. h \in [First -> B] /\ \A y \in B : \E p \in First : h[p] = y BY DEF Branches
  <2>2. IsFiniteSet(First) BY BranchesAreTyped
  <2> HIDE DEF First, h
  <2>3. QED BY <2>1, <2>2, FiniteImage
<1>2. \A x \in B : x.entropy \in Int /\ x.mass * x.cost \in Int
  BY BranchesAreTyped, BranchIsWhole DEF Branches
<1>3. QED BY <1>1, <1>2

LEMMA PlanIsSums ==
  ASSUME EntropyIsWhole, NEW b \in ArmIds, NEW c \in Candidates, NEW cands \in SUBSET Candidates,
         NEW done, NEW w \in [Hypotheses -> Nat], NEW budget, NEW snapshot \in [Groups -> Sigmas]
  PROVE  \E sum, total : PlanSums(PlanFirst(c, cands, done, w, budget, snapshot),
                                  Branches(c, cands, done, w, budget, snapshot), w, sum, total)
<1> DEFINE B == Branches(c, cands, done, w, budget, snapshot)
           f == [x \in B |-> x.entropy]
           g == [x \in B |-> x.mass * x.cost]
           Entropies(v) == v = [s \in SUBSET B |-> IF s = {} THEN 0
                                ELSE (CHOOSE x \in s : TRUE).entropy + v[s \ {CHOOSE x \in s : TRUE}]]
           Costs(v) == v = [s \in SUBSET B |-> IF s = {} THEN 0
                              ELSE (CHOOSE x \in s : TRUE).mass * (CHOOSE x \in s : TRUE).cost
                                   + v[s \ {CHOOSE x \in s : TRUE}]]
<1>1. PICK sum : sum = CHOOSE v : Entropies(v) OBVIOUS
<1>2. PICK total : total = CHOOSE v : Costs(v) OBVIOUS
<1>3. MapThenSumSet(LAMBDA x : x.entropy, B) = sum[B]
  BY <1>1 DEF MapThenSumSet, MapThenFoldSet
<1>4. MapThenSumSet(LAMBDA x : x.mass * x.cost, B) = total[B]
  BY <1>2 DEF MapThenSumSet, MapThenFoldSet
<1> DEFINE plan == PlanFirst(c, cands, done, w, budget, snapshot)
<1>5. plan.gain = Scale * Scale * Entropy(w) - sum[B] /\ plan.cost = total[B]
  BY <1>3, <1>4 DEF PlanFirst, Branches
<1> HIDE DEF plan, B
<1>6. IsFiniteSet(B) /\ f \in [B -> Int] /\ g \in [B -> Int] BY BranchesAreWhole DEF B
<1>7. \A s \in SUBSET B : s # {} => (CHOOSE x \in s : TRUE) \in B OBVIOUS
<1>8. \A v : Entropies(v) <=> Sums(B, f, v)
  <2>1. \A s \in SUBSET B : s # {} => f[CHOOSE x \in s : TRUE] = (CHOOSE x \in s : TRUE).entropy
    BY <1>7
  <2> HIDE DEF f
  <2>2. QED BY <2>1 DEF Sums
<1>9. \A v : Costs(v) <=> Sums(B, g, v)
  <2>1. \A s \in SUBSET B : s # {} =>
          g[CHOOSE x \in s : TRUE] = (CHOOSE x \in s : TRUE).mass * (CHOOSE x \in s : TRUE).cost
    BY <1>7
  <2> HIDE DEF g
  <2>2. QED BY <2>1 DEF Sums
<1> HIDE DEF f, g, Entropies, Costs
<1>10. Sums(B, f, sum)
  <2>1. \E v : Sums(B, f, v) BY <1>6, SumIsDefined
  <2>2. QED BY <1>1, <1>8, <2>1
<1>11. Sums(B, g, total)
  <2>1. \E v : Sums(B, g, v) BY <1>6, SumIsDefined
  <2>2. QED BY <1>2, <1>9, <2>1
<1>12. PlanSums(plan, B, w, sum, total) BY <1>5, <1>10, <1>11 DEF PlanSums, f, g
<1>13. QED BY <1>12 DEF plan, B

LEMMA PlanIsWhole ==
  ASSUME EntropyIsWhole, NEW b \in ArmIds, NEW c \in Candidates, NEW cands \in SUBSET Candidates,
         NEW done, NEW w \in [Hypotheses -> Nat], NEW budget, NEW snapshot \in [Groups -> Sigmas]
  PROVE  LET plan == PlanFirst(c, cands, done, w, budget, snapshot)
         IN  plan.gain \in Int /\ plan.cost \in Int /\ plan.candidate = c
<1> DEFINE plan == PlanFirst(c, cands, done, w, budget, snapshot)
<1>1. PICK B : B = Branches(c, cands, done, w, budget, snapshot) OBVIOUS
<1> DEFINE f == [x \in B |-> x.entropy]
           g == [x \in B |-> x.mass * x.cost]
<1>2. PICK sum, total : PlanSums(plan, B, w, sum, total) BY <1>1, PlanIsSums
<1>3. plan.candidate = c BY PlanIsOfItsCandidate
<1> HIDE DEF plan
<1>4. IsFiniteSet(B) /\ f \in [B -> Int] /\ g \in [B -> Int] BY <1>1, BranchesAreWhole
<1>5. /\ Sums(B, f, sum) /\ Sums(B, g, total)
      /\ plan.gain = Scale * Scale * Entropy(w) - sum[B] /\ plan.cost = total[B]
  BY <1>2 DEF PlanSums
<1> HIDE DEF f, g
<1>6. sum[B] \in Int /\ total[B] \in Int BY <1>4, <1>5, SumIsWhole
<1>7. Scale * Scale * Entropy(w) \in Int
  <2>1. Scale \in Int /\ Entropy(w) \in Int BY PlannerAssumption DEF EntropyIsWhole
  <2>2. QED BY <2>1
<1>8. QED BY <1>3, <1>5, <1>6, <1>7 DEF plan

-----------------------------------------------------------------------------
(* A run, told without the other arms.  A configuration is what an arm     *)
(* knows between two steps, with the effects of its updates unnamed; its   *)
(* next one is a function of it, of the arm's specification and of the     *)
(* committed outcomes.                                                     *)

(* A sigma reads the values of its effects alone: max(stdev, floor), where *)
(* statistics.stdev adds up exact fractions.                               *)
SigmaReadsValues ==
  \A R, S :
    (/\ IsFiniteSet(R) /\ \A e \in R : e.value \in Int
     /\ \E f \in Bijection(R, S) : \A e \in R : f[e].value = e.value)
    => SigmaLevel(R) = SigmaLevel(S)

Config(phase0, completed0, spent0, weights0, past0, applied0, count0, sigmas0) ==
  [phase |-> phase0, completed |-> completed0, spent |-> spent0, weights |-> weights0,
   past |-> past0, applied |-> applied0, count |-> count0, sigmas |-> sigmas0]

LEMMA Fields ==
  ASSUME NEW p, NEW c, NEW s, NEW w, NEW P, NEW A, NEW n, NEW u
  PROVE  LET x == Config(p, c, s, w, P, A, n, u)
         IN  /\ x.phase = p /\ x.completed = c /\ x.spent = s /\ x.weights = w
             /\ x.past = P /\ x.applied = A /\ x.count = n /\ x.sigmas = u
BY DEF Config

Proper(x) ==
  /\ x.completed \in Seq(Candidates) /\ x.weights \in [Hypotheses -> Nat]
  /\ IsFiniteSet(x.past)
  /\ \A p \in x.past : p.pair \in Keys /\ p.value \in Int
  /\ \A p, q \in x.past : p.pair = q.pair => p = q

(* The effects an arm remembers, under its name.                           *)
Known(b, p) == [id |-> <<b, p.pair>>, group |-> p.group, value |-> p.value, available |-> p.available]
Memory(b, P) == InitialHistory(b) \cup {Known(b, p) : p \in P}
Heard(b, P, n, g) == {e \in Memory(b, P) : e.group = g /\ e.available < n}
SigmaAt(b, P, n, g) ==
  IF ArmSpec[b].model = "fixed" THEN FixedSigma ELSE Calibrate(Heard(b, P, n, g))
SnapshotAt(b, x) == [g \in Groups |-> SigmaAt(b, x.past, x.count + 1, g)]

RemainingAt(b, x) == Fl(ArmSpec[b].budget) - Fl(x.spent)
FeasibleAt(b, x) ==
  {c \in Candidates \ ToSet(x.completed) : FitsRoughly(FlCost(c), RemainingAt(b, x))}
PlansAt(b, x) ==
  IF ArmSpec[b].policy = "lookahead"
  THEN {PlanFirst(c, FeasibleAt(b, x), ToSet(x.completed), x.weights, RemainingAt(b, x), SnapshotAt(b, x)) :
          c \in Scorable(FeasibleAt(b, x), ToSet(x.completed), RemainingAt(b, x))}
  ELSE {Score(c, ToSet(x.completed), x.weights, SnapshotAt(b, x)) :
          c \in Scorable(FeasibleAt(b, x), ToSet(x.completed), RemainingAt(b, x))}

PendingAt(x) == ValidPairs(ToSet(x.completed)) \ x.applied
NextAt(x) == CHOOSE k \in PendingAt(x) : \A j \in PendingAt(x) : k <= j
ArmAt(x, k, a) == CHOOSE c \in ToSet(x.completed) : Design[c].eligible /\ Design[c].key = k /\ Design[c].arm = a
ComparisonAt(t, x, k) == t[ArmAt(x, k, "adam")] - t[ArmAt(x, k, "sgd")]
GroupAt(x, k) == Design[ArmAt(x, k, "sgd")].group
EstimateAt(b, x, k) == SigmaAt(b, x.past, x.count + 1, GroupAt(x, k))

(* The three steps: an experiment, an update, and round the loop.          *)
Tried(x, c) ==
  Config("observed", Append(x.completed, c), x.spent + Cost[c], x.weights, x.past, x.applied,
         x.count, x.sigmas)
Learnt(b, t, x, k) ==
  Config("observed", x.completed, x.spent,
         After(x.weights, EstimateAt(b, x, k), BinOf(ComparisonAt(t, x, k))),
         x.past \cup {[pair |-> k, group |-> GroupAt(x, k), value |-> ComparisonAt(t, x, k),
                       available |-> x.count + 1]},
         x.applied \cup {k}, x.count + 1,
         [i \in 1 .. x.count + 1 |-> IF i = x.count + 1 THEN EstimateAt(b, x, k) ELSE x.sigmas[i]])
Returned(x) ==
  Config("loop", x.completed, x.spent, x.weights, x.past, x.applied, x.count, x.sigmas)

Tries(b, x, y) ==
  x.phase = "loop" /\ \E best \in PlansAt(b, x) : IsBest(best, PlansAt(b, x)) /\ y = Tried(x, best.candidate)
Learns(b, t, x, y) == x.phase = "observed" /\ PendingAt(x) # {} /\ y = Learnt(b, t, x, NextAt(x))
Returns(x, y) == x.phase = "observed" /\ PendingAt(x) = {} /\ y = Returned(x)
Advances(b, t, x, y) == Tries(b, x, y) \/ Learns(b, t, x, y) \/ Returns(x, y)

First(b) == Config("loop", <<>>, 0, Prior, {}, {}, 0, [i \in 1 .. 0 |-> FixedSigma])

Trace(b, t, tr, n) ==
  /\ tr[0] = First(b)
  /\ \A i \in 0 .. n : Proper(tr[i])
  /\ \A i \in 1 .. n : Advances(b, t, tr[i - 1], tr[i])

(* No configuration has two best plans, and a configuration has one next.  *)
LEMMA SigmaAtOccurs ==
  ASSUME SigmasOccur, NEW b, NEW x
  PROVE  SnapshotAt(b, x) \in [Groups -> Sigmas]
<1>1. \A g : SigmaAt(b, x.past, x.count + 1, g) \in Sigmas
  BY ClosedLoopAssumption DEF SigmaAt, Calibrate, SigmasOccur
<1>2. QED BY <1>1 DEF SnapshotAt

LEMMA PlansAreChoices ==
  ASSUME SigmasOccur, EntropyIsWhole, NEW b \in ArmIds, NEW x, Proper(x)
  PROVE  RankedChoices(PlansAt(b, x))
<1> DEFINE done == ToSet(x.completed)
           cands == FeasibleAt(b, x)
           left == RemainingAt(b, x)
           snapshot == SnapshotAt(b, x)
<1>1. snapshot \in [Groups -> Sigmas] BY SigmaAtOccurs
<1>2. x.weights \in [Hypotheses -> Nat] BY DEF Proper
<1>3. cands \in SUBSET Candidates BY DEF FeasibleAt
<1>4. Scorable(cands, done, left) \subseteq Candidates BY <1>3 DEF Scorable
<1>5. \A c \in Candidates : c \in Nat BY CostsAreWhole
<1>6. CASE ArmSpec[b].policy = "lookahead"
  <2> DEFINE plan(c) == PlanFirst(c, cands, done, x.weights, left, snapshot)
  <2>1. \A c \in Candidates : plan(c).gain \in Int /\ plan(c).cost \in Int /\ plan(c).candidate = c
    <3> HIDE DEF done, cands, left, snapshot
    <3>1. QED BY <1>1, <1>2, <1>3, PlanIsWhole
  <2>2. PlansAt(b, x) = {plan(c) : c \in Scorable(cands, done, left)} BY <1>6 DEF PlansAt
  <2> HIDE DEF plan, cands, done, left, snapshot
  <2>3. QED BY <1>4, <1>5, <2>1, <2>2 DEF RankedChoices
<1>7. CASE ArmSpec[b].policy # "lookahead"
  <2> DEFINE plan(c) == Score(c, done, x.weights, snapshot)
  <2>1. \A c \in Candidates : plan(c).gain \in Int /\ plan(c).cost \in Int /\ plan(c).candidate = c
    <3> HIDE DEF done, cands, left, snapshot
    <3>1. QED BY <1>1, <1>2, <1>3, ScoreIsWhole
  <2>2. PlansAt(b, x) = {plan(c) : c \in Scorable(cands, done, left)} BY <1>7 DEF PlansAt
  <2> HIDE DEF plan, cands, done, left, snapshot
  <2>3. QED BY <1>4, <1>5, <2>1, <2>2 DEF RankedChoices
<1>8. QED BY <1>6, <1>7

LEMMA NextIsUnique ==
  ASSUME SigmasOccur, EntropyIsWhole, NEW b \in ArmIds, NEW t, NEW x, Proper(x),
         NEW y, NEW z, Advances(b, t, x, y), Advances(b, t, x, z)
  PROVE  y = z
<1>1. CASE x.phase = "loop"
  <2>1. Tries(b, x, y) /\ Tries(b, x, z) BY <1>1 DEF Advances, Learns, Returns
  <2>2. PICK p \in PlansAt(b, x) : IsBest(p, PlansAt(b, x)) /\ y = Tried(x, p.candidate)
    BY <2>1 DEF Tries
  <2>3. PICK q \in PlansAt(b, x) : IsBest(q, PlansAt(b, x)) /\ z = Tried(x, q.candidate)
    BY <2>1 DEF Tries
  <2>4. p = q BY <2>2, <2>3, PlansAreChoices, BestIsUnique
  <2>5. QED BY <2>2, <2>3, <2>4
<1>2. CASE x.phase # "loop"
  <2>1. ~Tries(b, x, y) /\ ~Tries(b, x, z) BY <1>2 DEF Tries
  <2>2. QED BY <2>1 DEF Advances, Learns, Returns
<1>3. QED BY <1>1, <1>2

LEMMA TracesAgree ==
  ASSUME SigmasOccur, EntropyIsWhole, NEW b \in ArmIds, NEW t, NEW n \in Nat, NEW m \in Nat,
         n <= m, NEW v, NEW w, Trace(b, t, v, n), Trace(b, t, w, m)
  PROVE  v[n] = w[n]
<1>1. v[0] = w[0] BY DEF Trace
<1>2. ASSUME NEW i \in 1 .. n, v[i - 1] = w[i - 1] PROVE v[i] = w[i]
  <2>1. i - 1 \in 0 .. n /\ i \in 1 .. m OBVIOUS
  <2>2. Proper(v[i - 1]) /\ Advances(b, t, v[i - 1], v[i]) /\ Advances(b, t, w[i - 1], w[i])
    BY <2>1 DEF Trace
  <2>3. Advances(b, t, v[i - 1], w[i]) BY <1>2, <2>2
  <2>4. QED BY ONLY <2>2, <2>3, NextIsUnique, SigmasOccur, EntropyIsWhole, b \in ArmIds
<1>3. \A i \in 0 .. n : v[i] = w[i] BY ONLY <1>1, <1>2, n \in Nat, RecurrencesAgree
<1>4. n \in 0 .. n OBVIOUS
<1>5. QED BY <1>3, <1>4

(* A run that has ended: nothing is feasible, and no step follows.         *)
Ended(b, x) == x.phase = "loop" /\ FeasibleAt(b, x) = {}

LEMMA EndedIsLast ==
  ASSUME NEW b, NEW t, NEW x, NEW y, Ended(b, x)
  PROVE  ~Advances(b, t, x, y)
<1>1. Scorable(FeasibleAt(b, x), ToSet(x.completed), RemainingAt(b, x)) = {} BY DEF Ended, Scorable
<1>2. PlansAt(b, x) = {} BY <1>1 DEF PlansAt
<1>3. QED BY <1>2 DEF Advances, Tries, Learns, Returns, Ended

LEMMA EndsAgree ==
  ASSUME SigmasOccur, EntropyIsWhole, NEW b \in ArmIds, NEW t, NEW n \in Nat, NEW m \in Nat,
         NEW v, NEW w, Trace(b, t, v, n), Trace(b, t, w, m), Ended(b, v[n]), Ended(b, w[m])
  PROVE  v[n] = w[m]
<1>1. CASE n <= m
  <2>1. v[n] = w[n] BY <1>1, TracesAgree
  <2>2. SUFFICES ASSUME n # m PROVE FALSE BY <2>1
  <2>3. n + 1 \in 1 .. m /\ (n + 1) - 1 = n BY <1>1, <2>2
  <2>4. Advances(b, t, w[(n + 1) - 1], w[n + 1]) BY <2>3 DEF Trace
  <2>5. Advances(b, t, v[n], w[n + 1]) BY <2>1, <2>3, <2>4
  <2>6. QED BY <2>5, EndedIsLast
<1>2. CASE m <= n
  <2>1. w[m] = v[m] BY <1>2, TracesAgree
  <2>2. SUFFICES ASSUME n # m PROVE FALSE BY <2>1
  <2>3. m + 1 \in 1 .. n /\ (m + 1) - 1 = m BY <1>2, <2>2
  <2>4. Advances(b, t, v[(m + 1) - 1], v[m + 1]) BY <2>3 DEF Trace
  <2>5. Advances(b, t, w[m], v[m + 1]) BY <2>1, <2>3, <2>4
  <2>6. QED BY <2>5, EndedIsLast
<1>3. QED BY <1>1, <1>2

(* The name of an arm does not matter to its sigmas.                       *)
LEMMA NamesDoNotMatter ==
  ASSUME SigmaReadsValues, NEW a \in ArmIds, NEW b \in ArmIds, ArmSpec[a] = ArmSpec[b],
         NEW x, Proper(x), NEW n, NEW g
  PROVE  SigmaAt(a, x.past, n, g) = SigmaAt(b, x.past, n, g)
<1> DEFINE P == x.past
           I == InitialHistory(a)
           R == Heard(a, P, n, g)
           S == Heard(b, P, n, g)
<1>1. I = InitialHistory(b) /\ I \subseteq CalibrationEffects BY DEF InitialHistory
<1>2. \A e \in I : e.id \notin ArmIds \X Keys /\ e.value \in Int BY <1>1, ClosedLoopAssumption
<1>3. \A p \in P : p.pair \in Keys /\ p.value \in Int BY DEF Proper
<1>4. \A p, q \in P : p.pair = q.pair => p = q BY DEF Proper
<1>5. \A c \in ArmIds : \A p \in P :
        /\ Known(c, p).id = <<c, p.pair>> /\ Known(c, p).group = p.group
        /\ Known(c, p).value = p.value /\ Known(c, p).available = p.available
  BY DEF Known
<1>6. \A c \in ArmIds : \A p \in P : Known(c, p) \notin I
  <2>1. \A c \in ArmIds : \A p \in P : Known(c, p).id \in ArmIds \X Keys
    <3> HIDE DEF P, I
    <3>1. \A c \in ArmIds : \A p \in P : <<c, p.pair>> \in ArmIds \X Keys BY <1>3
    <3>2. QED BY <1>5, <3>1
  <2> HIDE DEF P, I
  <2>2. QED BY <1>2, <2>1
<1>7. \A c \in ArmIds : \A p, q \in P : Known(c, p) = Known(c, q) => p = q
  <2>1. ASSUME NEW c \in ArmIds, NEW p \in P, NEW q \in P, Known(c, p) = Known(c, q) PROVE p = q
    <3>1. <<c, p.pair>> = <<c, q.pair>> BY <1>5, <2>1
    <3>2. QED BY <1>4, <3>1
  <2>2. QED BY <2>1
<1>8. /\ \A e : e \in R <=> (e \in I \/ \E p \in P : e = Known(a, p)) /\ e.group = g /\ e.available < n
      /\ \A e : e \in S <=> (e \in I \/ \E p \in P : e = Known(b, p)) /\ e.group = g /\ e.available < n
  BY <1>1 DEF Heard, Memory
<1> HIDE DEF P, I, R, S
<1> DEFINE of(e) == CHOOSE p \in P : e = Known(a, p)
           image(e) == IF e \in I THEN e ELSE Known(b, of(e))
           f == [e \in R |-> image(e)]
<1>9. \A e \in R : e \notin I => of(e) \in P /\ e = Known(a, of(e)) BY <1>8
<1>10. \A p \in P : of(Known(a, p)) = p BY <1>7
<1> HIDE DEF of
<1>11. \A e \in R : image(e) \in S /\ image(e).value = e.value /\ e.value \in Int
  <2>1. ASSUME NEW e \in R, e \in I PROVE image(e) \in S /\ image(e).value = e.value /\ e.value \in Int
    BY <1>2, <1>8, <2>1
  <2>2. ASSUME NEW e \in R, e \notin I
        PROVE  image(e) \in S /\ image(e).value = e.value /\ e.value \in Int
    <3>1. of(e) \in P /\ e = Known(a, of(e)) BY <1>9, <2>2
    <3>2. e.group = of(e).group /\ e.value = of(e).value /\ e.available = of(e).available BY <1>5, <3>1
    <3>3. /\ Known(b, of(e)).group = of(e).group /\ Known(b, of(e)).value = of(e).value
          /\ Known(b, of(e)).available = of(e).available
      BY <1>5, <3>1
    <3>4. e.group = g /\ e.available < n BY <1>8
    <3>5. QED BY <1>3, <1>8, <2>2, <3>1, <3>2, <3>3, <3>4
  <2>3. QED BY <2>1, <2>2
<1>12. \A d, e \in R : image(d) = image(e) => d = e
  <2>1. ASSUME NEW d \in R, NEW e \in R, image(d) = image(e) PROVE d = e
    <3>1. CASE d \in I /\ e \in I BY <2>1, <3>1
    <3>2. CASE d \in I /\ e \notin I BY <1>6, <1>9, <2>1, <3>2
    <3>3. CASE d \notin I /\ e \in I BY <1>6, <1>9, <2>1, <3>3
    <3>4. CASE d \notin I /\ e \notin I
      <4>1. of(d) = of(e) BY <1>7, <1>9, <2>1, <3>4
      <4>2. QED BY <1>9, <3>4, <4>1
    <3>5. QED BY <3>1, <3>2, <3>3, <3>4
  <2>2. QED BY <2>1
<1>13. \A s \in S : \E e \in R : image(e) = s
  <2>1. ASSUME NEW s \in S, s \in I PROVE \E e \in R : image(e) = s BY <1>8, <2>1
  <2>2. ASSUME NEW s \in S, s \notin I PROVE \E e \in R : image(e) = s
    <3>1. PICK p \in P : s = Known(b, p) BY <1>8, <2>2
    <3>2. s.group = g /\ s.available < n BY <1>8
    <3>3. Known(a, p) \in R BY <1>5, <1>8, <3>1, <3>2
    <3>4. image(Known(a, p)) = s BY <1>6, <1>10, <3>1
    <3>5. QED BY <3>3, <3>4
  <2>3. QED BY <2>1, <2>2
<1>14. f \in [R -> S] /\ \A e \in R : f[e] = image(e) BY <1>11
<1> HIDE DEF f, image
<1>15. f \in Bijection(R, S)
  BY <1>12, <1>13, <1>14 DEF Bijection, Injection, Surjection, IsInjective
<1>16. IsFiniteSet(R)
  <2> DEFINE K == {Known(a, p) : p \in P}
             h == [p \in P |-> Known(a, p)]
  <2>1. h \in [P -> K] /\ \A y \in K : \E p \in P : h[p] = y OBVIOUS
  <2>2. IsFiniteSet(P) BY DEF P, Proper
  <2>3. R \subseteq I \cup K BY <1>8
  <2> HIDE DEF h, K
  <2>4. IsFiniteSet(K) BY <2>1, <2>2, FiniteImage
  <2>5. IsFiniteSet(I) BY <1>1, FS_Subset, ClosedLoopAssumption
  <2>6. IsFiniteSet(I \cup K) BY <2>4, <2>5, FS_Union
  <2>7. QED BY <2>3, <2>6, FS_Subset
<1>17. Cardinality(S) = Cardinality(R)
  <2>1. ExistsBijection(R, S) BY <1>15 DEF ExistsBijection
  <2>2. QED BY <1>16, <2>1, FS_Bijection
<1>18. SigmaLevel(R) = SigmaLevel(S)
  <2>1. \A e \in R : e.value \in Int /\ f[e].value = e.value BY <1>11, <1>14
  <2>2. QED BY <1>15, <1>16, <2>1 DEF SigmaReadsValues
<1>19. Calibrate(R) = Calibrate(S) BY <1>17, <1>18 DEF Calibrate
<1>20. QED BY <1>19 DEF SigmaAt, P, R, S

LEMMA PlansDoNotNameTheArm ==
  ASSUME SigmaReadsValues, NEW a \in ArmIds, NEW b \in ArmIds, ArmSpec[a] = ArmSpec[b],
         NEW x, Proper(x)
  PROVE  /\ SnapshotAt(a, x) = SnapshotAt(b, x) /\ FeasibleAt(a, x) = FeasibleAt(b, x)
         /\ PlansAt(a, x) = PlansAt(b, x)
         /\ \A k : EstimateAt(a, x, k) = EstimateAt(b, x, k)
<1>1. \A n, g : SigmaAt(a, x.past, n, g) = SigmaAt(b, x.past, n, g) BY NamesDoNotMatter
<1>2. \A k : EstimateAt(a, x, k) = EstimateAt(b, x, k) BY <1>1 DEF EstimateAt
<1>3. SnapshotAt(a, x) = SnapshotAt(b, x) BY <1>1 DEF SnapshotAt
<1>4. RemainingAt(a, x) = RemainingAt(b, x) BY DEF RemainingAt
<1>5. FeasibleAt(a, x) = FeasibleAt(b, x) BY <1>4 DEF FeasibleAt
<1>6. PlansAt(a, x) = PlansAt(b, x) BY <1>3, <1>4, <1>5 DEF PlansAt
<1>7. QED BY <1>2, <1>3, <1>5, <1>6

-----------------------------------------------------------------------------
(* The arm that runs is at the end of such a trace.                        *)

(* One arm stands for all those of its specification.                      *)
Twin(a) == CHOOSE b \in ArmIds : ArmSpec[b] = ArmSpec[a]

LEMMA TwinsAreAlike ==
  ASSUME NEW a \in ArmIds
  PROVE  Twin(a) \in ArmIds /\ ArmSpec[Twin(a)] = ArmSpec[a]
BY DEF Twin

Picked(b, x, c) == \E best \in PlansAt(b, x) : IsBest(best, PlansAt(b, x)) /\ c = best.candidate

Views(x) ==
  /\ Proper(x)
  /\ x.phase = IF phase = "decided" THEN "loop" ELSE phase
  /\ x.completed = completed /\ x.spent = spent /\ x.weights = weights /\ x.applied = applied
  /\ x.count = Len(updates) /\ x.sigmas = [i \in 1 .. Len(updates) |-> updates[i].sigma]
  /\ history = Memory(arm, x.past) /\ \A p \in x.past : p.pair \in applied
  /\ phase = "decided" => Picked(Twin(arm), x, decision.candidate)

Traced ==
  arm # None /\ phase # "raised" =>
    \E n \in Nat : \E tr : Trace(Twin(arm), table, tr, n) /\ Views(tr[n])

Result(x) ==
  [experiments |-> x.completed, updates |-> x.sigmas, weights |-> x.weights, spent |-> x.spent,
   stop |-> IF Candidates \subseteq ToSet(x.completed) THEN "candidate_space_exhausted"
            ELSE "budget_exhausted"]

Recorded ==
  \A a \in DOMAIN runs : \E n \in Nat : \E tr :
    Trace(Twin(a), table, tr, n) /\ Ended(Twin(a), tr[n]) /\ runs[a] = Result(tr[n])

(* What an arm decides on is what its configuration says.                  *)
LEMMA ViewsAgree ==
  ASSUME SigmasOccur, SigmaReadsValues, Typed, arm \in ArmIds, NEW x, Views(x)
  PROVE  /\ Snapshots = SnapshotAt(Twin(arm), x) /\ Feasible = FeasibleAt(Twin(arm), x)
         /\ Ranking(Feasible, Snapshots) = PlansAt(Twin(arm), x)
         /\ \A g : Snapshot(g) = SigmaAt(Twin(arm), x.past, x.count + 1, g)
         /\ Unapplied = PendingAt(x) /\ \A k, a : ArmOf(k, a) = ArmAt(x, k, a)
         /\ \A k : Comparison(k) = ComparisonAt(table, x, k)
<1>1. /\ x.completed = completed /\ x.spent = spent /\ x.weights = weights /\ x.applied = applied
      /\ x.count = Len(updates) /\ history = Memory(arm, x.past) /\ Proper(x)
  BY DEF Views
<1>2. \A g : EligibleEffects(g) = Heard(arm, x.past, x.count + 1, g)
  BY <1>1 DEF EligibleEffects, Heard, NextSequence
<1>3. \A g : Snapshot(g) = SigmaAt(arm, x.past, x.count + 1, g)
  BY <1>2 DEF Snapshot, SigmaAt, Current
<1>4. Snapshots = SnapshotAt(arm, x)
  <2>1. \A g \in Groups : Snapshots[g] = SigmaAt(arm, x.past, x.count + 1, g)
    BY <1>3, SnapshotsAreTaken
  <2>2. \E s \in [Groups -> Sigmas] : \A g \in Groups : s[g] = Snapshot(g)
    <3>1. [g \in Groups |-> Snapshot(g)] \in [Groups -> Sigmas] BY SigmaIsTyped
    <3>2. QED BY <3>1
  <2>3. Snapshots \in [Groups -> Sigmas] BY <2>2 DEF Snapshots
  <2>4. QED BY <2>1, <2>3 DEF SnapshotAt
<1>5. RemainingBudget = RemainingAt(arm, x) BY <1>1 DEF RemainingBudget, RemainingAt, Current
<1>6. Done = ToSet(x.completed) BY <1>1 DEF Done
<1>7. Feasible = FeasibleAt(arm, x) BY <1>5, <1>6 DEF Feasible, FeasibleAt
<1>8. Ranking(Feasible, Snapshots) = PlansAt(arm, x)
  BY <1>1, <1>4, <1>5, <1>6, <1>7 DEF Ranking, Lookahead, InformationGain, PlansAt, Current
<1>9. Unapplied = PendingAt(x) BY <1>1, <1>6 DEF Unapplied, PendingAt
<1>10. \A k, a : ArmOf(k, a) = ArmAt(x, k, a) BY <1>6 DEF ArmOf, ArmAt
<1>11. \A k : Comparison(k) = ComparisonAt(table, x, k) BY <1>10 DEF Comparison, ComparisonAt
<1>12. Twin(arm) \in ArmIds /\ ArmSpec[Twin(arm)] = ArmSpec[arm] BY TwinsAreAlike
<1>13. /\ SnapshotAt(arm, x) = SnapshotAt(Twin(arm), x) /\ FeasibleAt(arm, x) = FeasibleAt(Twin(arm), x)
       /\ PlansAt(arm, x) = PlansAt(Twin(arm), x)
  BY <1>1, <1>12, PlansDoNotNameTheArm
<1>14. \A n, g : SigmaAt(arm, x.past, n, g) = SigmaAt(Twin(arm), x.past, n, g)
  BY <1>1, <1>12, NamesDoNotMatter
<1>15. QED BY <1>3, <1>4, <1>7, <1>8, <1>9, <1>10, <1>11, <1>13, <1>14

(* A trace goes on with the next configuration.                            *)
LEMMA TraceGrows ==
  ASSUME NEW b, NEW t, NEW tr, NEW n \in Nat, Trace(b, t, tr, n), NEW y, Proper(y),
         Advances(b, t, tr[n], y)
  PROVE  \E v : Trace(b, t, v, n + 1) /\ v[n + 1] = y
<1>1. PICK v : v = [i \in 0 .. n + 1 |-> IF i = n + 1 THEN y ELSE tr[i]] OBVIOUS
<1>2. v[n + 1] = y /\ \A i \in 0 .. n : v[i] = tr[i]
  <2>1. n + 1 \in 0 .. n + 1 /\ \A i \in 0 .. n : i \in 0 .. n + 1 /\ i # n + 1 OBVIOUS
  <2>2. QED BY <1>1, <2>1
<1>3. v[0] = First(b) BY <1>2 DEF Trace
<1>4. ASSUME NEW i \in 0 .. n + 1 PROVE Proper(v[i])
  <2>1. i = n + 1 \/ i \in 0 .. n OBVIOUS
  <2>2. QED BY <1>2, <2>1 DEF Trace
<1>5. ASSUME NEW i \in 1 .. n + 1 PROVE Advances(b, t, v[i - 1], v[i])
  <2>1. CASE i = n + 1
    <3>1. i - 1 = n /\ n \in 0 .. n BY <2>1
    <3>2. v[i - 1] = tr[n] /\ v[i] = y BY <1>2, <2>1, <3>1
    <3>3. QED BY <3>2
  <2>2. CASE i # n + 1
    <3>1. i \in 1 .. n /\ i \in 0 .. n /\ i - 1 \in 0 .. n BY <2>2
    <3>2. v[i - 1] = tr[i - 1] /\ v[i] = tr[i] BY <1>2, <3>1
    <3>3. QED BY <3>1, <3>2 DEF Trace
  <2>3. QED BY <2>1, <2>2
<1>6. QED BY <1>2, <1>3, <1>4, <1>5 DEF Trace

LEMMA TracedStart ==
  ASSUME NEW a \in ArmIds, Start(a) PROVE Traced'
<1> DEFINE b == Twin(a)
<1>1. PICK x : x = First(b) OBVIOUS
<1>2. /\ x.phase = "loop" /\ x.completed = <<>> /\ x.spent = 0 /\ x.weights = Prior
      /\ x.past = {} /\ x.applied = {} /\ x.count = 0 /\ x.sigmas = [i \in 1 .. 0 |-> FixedSigma]
  BY <1>1, Fields DEF First
<1>3. Proper(x) BY <1>2, PriorIsTyped, FS_EmptySet DEF Proper
<1>4. PICK tr : tr = [i \in 0 .. 0 |-> x] OBVIOUS
<1>5. tr[0] = x BY <1>4
<1>6. Trace(b, table', tr, 0) BY <1>1, <1>3, <1>5 DEF Trace
<1>7. /\ arm' = a /\ phase' = "loop" /\ completed' = <<>> /\ spent' = 0 /\ weights' = Prior
      /\ updates' = <<>> /\ history' = InitialHistory(a) /\ applied' = {}
  BY DEF Start
<1>8. Memory(a, {}) = InitialHistory(a) BY DEF Memory
<1>9. Len(updates') = 0 BY <1>7
<1>10. x.sigmas = [i \in 1 .. Len(updates') |-> updates'[i].sigma] BY <1>2, <1>9
<1>11. Views(x)' BY <1>2, <1>3, <1>7, <1>8, <1>9, <1>10 DEF Views
<1>12. Trace(Twin(arm'), table', tr, 0) /\ Views(tr[0])' BY <1>5, <1>6, <1>7, <1>11
<1>13. QED BY <1>12 DEF Traced

LEMMA TracedDecide ==
  ASSUME SigmasOccur, SigmaReadsValues, Typed, Traced, Decide PROVE Traced'
<1>1. SUFFICES ASSUME phase' # "raised" PROVE Traced' BY DEF Traced
<1>2. arm \in ArmIds /\ arm # None /\ phase = "loop" BY DEF Typed, Decide
<1>3. PICK n, tr : n \in Nat /\ Trace(Twin(arm), table, tr, n) /\ Views(tr[n]) BY <1>2 DEF Traced
<1>4. PICK x : x = tr[n] OBVIOUS
<1>5. Views(x) BY <1>3, <1>4
<1>6. Ranking(Feasible, Snapshots) = PlansAt(Twin(arm), x) BY <1>2, <1>5, ViewsAgree
<1>7. PICK best \in Ranking(Feasible, Snapshots) :
        /\ IsBest(best, Ranking(Feasible, Snapshots))
        /\ decision' = DecisionTrace(best, Snapshots) /\ phase' = "decided"
  BY <1>1 DEF Decide
<1>8. decision'.candidate = best.candidate BY <1>7 DEF DecisionTrace
<1>9. Picked(Twin(arm), x, decision'.candidate) BY <1>6, <1>7, <1>8 DEF Picked
<1>10. UNCHANGED <<table, arm, completed, spent, weights, updates, history, applied>>
  BY DEF Decide, lineage
<1>11. Views(x)' BY <1>2, <1>5, <1>7, <1>9, <1>10 DEF Views
<1>12. Trace(Twin(arm'), table', tr, n) /\ Views(tr[n])' BY <1>3, <1>4, <1>10, <1>11
<1>13. QED BY <1>3, <1>12 DEF Traced

LEMMA TracedExperiment ==
  ASSUME SigmasOccur, SigmaReadsValues, Typed, Traced, Experiment PROVE Traced'
<1>1. SUFFICES ASSUME phase' # "raised" PROVE Traced' BY DEF Traced
<1>2. arm \in ArmIds /\ arm # None /\ phase = "decided" BY DEF Typed, Experiment
<1>3. PICK n, tr : n \in Nat /\ Trace(Twin(arm), table, tr, n) /\ Views(tr[n]) BY <1>2 DEF Traced
<1>4. PICK x : x = tr[n] OBVIOUS
<1>5. Views(x) /\ Proper(x) BY <1>3, <1>4 DEF Views
<1>6. PICK c : c = decision.candidate OBVIOUS
<1>7. /\ Chosen(c) /\ phase' = "observed" /\ completed' = Append(completed, c)
      /\ spent' = spent + Cost[c]
  BY <1>1, <1>6, ExperimentGrows
<1>8. PICK y : y = Tried(x, c) OBVIOUS
<1>9. /\ y.phase = "observed" /\ y.completed = Append(x.completed, c) /\ y.spent = x.spent + Cost[c]
      /\ y.weights = x.weights /\ y.past = x.past /\ y.applied = x.applied
      /\ y.count = x.count /\ y.sigmas = x.sigmas
  BY <1>8 DEF Tried, Config
<1>10. Proper(y)
  <2>1. c \in Candidates BY <1>7 DEF Chosen
  <2>2. Append(x.completed, c) \in Seq(Candidates) BY <1>5, <2>1 DEF Proper
  <2>3. QED BY <1>5, <1>9, <2>2 DEF Proper
<1>11. Advances(Twin(arm), table, x, y)
  <2>1. x.phase = "loop" /\ Picked(Twin(arm), x, c) BY <1>2, <1>5, <1>6 DEF Views
  <2>2. QED BY <1>8, <2>1 DEF Picked, Advances, Tries
<1>12. PICK v : Trace(Twin(arm), table, v, n + 1) /\ v[n + 1] = y
  BY <1>3, <1>4, <1>10, <1>11, TraceGrows
<1>13. UNCHANGED <<table, arm, weights, updates, history, applied>> BY DEF Experiment, lineage
<1>14. Views(y)' BY <1>5, <1>7, <1>9, <1>10, <1>13 DEF Views
<1>15. Trace(Twin(arm'), table', v, n + 1) /\ Views(v[n + 1])' BY <1>12, <1>13, <1>14
<1>16. n + 1 \in Nat BY <1>3
<1>17. QED BY <1>15, <1>16 DEF Traced

LEMMA TracedRecompute ==
  ASSUME SigmasOccur, SigmaReadsValues, Typed, Traced, Recompute PROVE Traced'
<1>1. arm \in ArmIds /\ arm # None /\ phase = "observed" /\ phase' = "loop" BY DEF Typed, Recompute
<1>2. PICK n, tr : n \in Nat /\ Trace(Twin(arm), table, tr, n) /\ Views(tr[n]) BY <1>1 DEF Traced
<1>3. PICK x : x = tr[n] OBVIOUS
<1>4. Views(x) /\ Proper(x) BY <1>2, <1>3 DEF Views
<1>5. PICK y : y = Returned(x) OBVIOUS
<1>6. /\ y.phase = "loop" /\ y.completed = x.completed /\ y.spent = x.spent
      /\ y.weights = x.weights /\ y.past = x.past /\ y.applied = x.applied
      /\ y.count = x.count /\ y.sigmas = x.sigmas
  BY <1>5, Fields DEF Returned
<1>7. Proper(y) BY <1>4, <1>6 DEF Proper
<1>8. Advances(Twin(arm), table, x, y)
  <2>1. PendingAt(x) = {} BY <1>1, <1>4, ViewsAgree DEF Recompute
  <2>2. x.phase = "observed" BY <1>1, <1>4 DEF Views
  <2>3. QED BY <1>5, <2>1, <2>2 DEF Advances, Returns
<1>9. PICK v : Trace(Twin(arm), table, v, n + 1) /\ v[n + 1] = y
  BY <1>2, <1>3, <1>7, <1>8, TraceGrows
<1>10. UNCHANGED <<table, arm, completed, spent, weights, updates, history, applied>>
  BY DEF Recompute, lineage
<1>11. Views(y)' BY <1>1, <1>4, <1>6, <1>7, <1>10 DEF Views
<1>12. Trace(Twin(arm'), table', v, n + 1) /\ Views(v[n + 1])' BY <1>9, <1>10, <1>11
<1>13. n + 1 \in Nat BY <1>2
<1>14. QED BY <1>12, <1>13 DEF Traced

LEMMA TracedApply ==
  ASSUME SigmasOccur, SigmaReadsValues, Typed, Paired, Remembered, Traced, Apply PROVE Traced'
<1>1. SUFFICES ASSUME phase' # "raised" PROVE Traced' BY DEF Traced
<1>2. arm \in ArmIds /\ arm # None /\ phase = "observed" /\ OneEach BY DEF Typed, Paired, Apply
<1>3. PICK n, tr : n \in Nat /\ Trace(Twin(arm), table, tr, n) /\ Views(tr[n]) BY <1>2 DEF Traced
<1>4. PICK x : x = tr[n] OBVIOUS
<1>5. Views(x) /\ Proper(x) BY <1>3, <1>4 DEF Views
<1>6. /\ Unapplied = PendingAt(x) /\ \A k, a : ArmOf(k, a) = ArmAt(x, k, a)
      /\ \A k : Comparison(k) = ComparisonAt(table, x, k)
      /\ \A g : Snapshot(g) = SigmaAt(Twin(arm), x.past, x.count + 1, g)
  BY <1>2, <1>5, ViewsAgree
<1>7. PICK k : k = CHOOSE first \in Unapplied : \A j \in Unapplied : first <= j OBVIOUS
<1>8. k = NextAt(x) BY <1>6, <1>7 DEF NextAt
<1>9. Unapplied # {} BY DEF Apply
<1>10. k \in Keys \ applied /\ Met(k) BY <1>2, <1>7, <1>9, NextPair
<1>11. /\ ~ \E i \in DOMAIN updates : updates[i].pair = k
       /\ Update(k) /\ applied' = applied \cup {k} /\ phase' = "observed"
  BY <1>1, <1>2, <1>7 DEF Apply
<1>12. PICK g : g = Design[ArmOf(k, "sgd")].group OBVIOUS
<1>13. PICK sigma : sigma = SelectSigma(g, EffectId(k)).sigma OBVIOUS
<1>14. sigma = Snapshot(g)
  <2>1. Fresh(k) BY <1>11 DEF Fresh
  <2>2. k \in Keys BY <1>10
  <2>3. {e \in EligibleEffects(g) : e.id # EffectId(k)} = EligibleEffects(g)
    BY <1>2, <2>1, <2>2, SourcesAreThePast
  <2>4. QED BY <1>13, <2>3 DEF SelectSigma, Snapshot
<1>15. g = GroupAt(x, k) /\ sigma = EstimateAt(Twin(arm), x, k)
  BY <1>6, <1>12, <1>14 DEF GroupAt, EstimateAt
<1>16. PICK value : value = Comparison(k) OBVIOUS
<1>17. value = ComparisonAt(table, x, k) BY <1>6, <1>16
<1>18. PICK new : new = [pair |-> k, group |-> g, value |-> value, available |-> x.count + 1] OBVIOUS
<1>19. new.pair = k /\ new.group = g /\ new.value = value /\ new.available = x.count + 1 BY <1>18
<1>20. x.count = Len(updates) /\ NextSequence = x.count + 1 /\ Len(updates) \in Nat
  BY <1>5 DEF Views, NextSequence, Typed
<1>21. Known(arm, new) = [id |-> EffectId(k), group |-> g, value |-> Comparison(k), available |-> NextSequence]
  BY <1>16, <1>19, <1>20 DEF Known, EffectId
<1>22. PICK u \in Updates : u.sigma = sigma /\ updates' = Append(updates, u)
  <2>1. PICK u \in Updates : /\ u.group = Design[ArmOf(k, "sgd")].group
                             /\ u.sigma = SelectSigma(u.group, EffectId(k)).sigma
                             /\ updates' = Append(updates, u)
    BY <1>2, <1>10, <1>11, Updated
  <2>2. QED BY <1>12, <1>13, <2>1
<1>23. /\ weights' = After(weights, sigma, BinOf(value))
       /\ history' = history \cup {Known(arm, new)}
  BY <1>11, <1>12, <1>13, <1>16, <1>21 DEF Update
<1>24. PICK y : y = Learnt(Twin(arm), table, x, k) OBVIOUS
<1>25. /\ y.phase = "observed" /\ y.completed = x.completed /\ y.spent = x.spent
       /\ y.weights = After(x.weights, sigma, BinOf(value))
       /\ y.past = x.past \cup {new} /\ y.applied = x.applied \cup {k}
       /\ y.count = x.count + 1
       /\ y.sigmas = [i \in 1 .. x.count + 1 |-> IF i = x.count + 1 THEN sigma ELSE x.sigmas[i]]
  BY <1>15, <1>17, <1>18, <1>24 DEF Learnt, Config
<1>26. /\ x.completed = completed /\ x.spent = spent /\ x.weights = weights /\ x.applied = applied
       /\ x.sigmas = [i \in 1 .. Len(updates) |-> updates[i].sigma]
       /\ history = Memory(arm, x.past) /\ \A p \in x.past : p.pair \in applied
       /\ x.phase = "observed"
  BY <1>2, <1>5 DEF Views
<1>27. Proper(y)
  <2>1. BinOf(Comparison(k)) \in Outcomes BY <1>10, Compared
  <2>2. sigma \in Sigmas BY <1>13, SigmaIsTyped
  <2>3. y.weights \in [Hypotheses -> Nat] BY <1>5, <1>16, <1>25, <2>1, <2>2, WeighedIsTyped DEF Proper
  <2>4. IsFiniteSet(y.past)
    <3>1. IsFiniteSet(x.past) BY <1>5 DEF Proper
    <3>2. IsFiniteSet(x.past \cup {new}) BY <3>1, FS_AddElement
    <3>3. QED BY <1>25, <3>2
  <2>5. value \in Int
    <3>1. Member(ArmOf(k, "sgd"), k, "sgd") /\ Member(ArmOf(k, "adam"), k, "adam")
      BY <1>10, ArmIsFound DEF Arms
    <3>2. ArmOf(k, "sgd") \in Candidates /\ ArmOf(k, "adam") \in Candidates BY <3>1, KeyOfMember
    <3>3. table \in [Candidates -> Int] BY ClosedLoopAssumption DEF Typed
    <3>4. QED BY <1>16, <3>2, <3>3 DEF Comparison
  <2>6. \A p \in y.past : p.pair \in Keys /\ p.value \in Int BY <1>5, <1>10, <1>19, <1>25, <2>5 DEF Proper
  <2>7. \A p, q \in y.past : p.pair = q.pair => p = q BY <1>5, <1>10, <1>19, <1>25, <1>26 DEF Proper
  <2>8. QED BY <1>5, <1>25, <2>3, <2>4, <2>6, <2>7 DEF Proper
<1>28. Advances(Twin(arm), table, x, y) BY <1>6, <1>8, <1>9, <1>24, <1>26 DEF Advances, Learns
<1>29. PICK v : Trace(Twin(arm), table, v, n + 1) /\ v[n + 1] = y
  BY <1>3, <1>4, <1>27, <1>28, TraceGrows
<1>30. UNCHANGED <<table, arm, completed, spent>> BY DEF Apply
<1>31. Views(y)'
  <2>m. PICK m \in Nat : m = Len(updates') /\ m = x.count + 1 /\ m = Len(updates) + 1
    <3>1. Len(updates') = Len(updates) + 1 BY <1>22, Appended DEF Typed
    <3>2. Len(updates) \in Nat /\ x.count = Len(updates) BY <1>20
    <3>3. QED BY <3>1, <3>2
  <2>1. y.count = Len(updates') /\ DOMAIN updates' = 1 .. Len(updates')
        /\ \A i \in 1 .. Len(updates) : updates'[i] = updates[i]
        /\ updates'[Len(updates) + 1] = u /\ Len(updates') = Len(updates) + 1
    BY <1>20, <1>22, <1>25, Appended DEF Typed
  <2>2. y.sigmas = [i \in 1 .. Len(updates') |-> updates'[i].sigma]
    <3>1. \A i \in 1 .. Len(updates) + 1 :
            (IF i = x.count + 1 THEN sigma ELSE x.sigmas[i]) = updates'[i].sigma
      <4>1. ASSUME NEW i \in 1 .. Len(updates) + 1
            PROVE  (IF i = x.count + 1 THEN sigma ELSE x.sigmas[i]) = updates'[i].sigma
        <5>1. CASE i = Len(updates) + 1 BY <1>20, <1>22, <2>1, <5>1
        <5>2. CASE i # Len(updates) + 1
          <6>1. i \in 1 .. Len(updates) BY <1>20, <5>2
          <6>2. QED BY <1>20, <1>26, <2>1, <5>2, <6>1
        <5>3. QED BY <5>1, <5>2
      <4>2. QED BY <4>1
    <3>4. \A i \in 1 .. m : (IF i = m THEN sigma ELSE x.sigmas[i]) = updates'[i].sigma BY <2>m, <3>1
    <3>5. y.sigmas = [i \in 1 .. m |-> IF i = m THEN sigma ELSE x.sigmas[i]] BY <1>25, <2>m
    <3>6. y.sigmas = [i \in 1 .. m |-> updates'[i].sigma] BY <3>4, <3>5
    <3>7. QED BY <2>m, <3>6
  <2>3. history' = Memory(arm', y.past)
    BY <1>23, <1>25, <1>26, <1>30 DEF Memory, InitialHistory
  <2>4. \A p \in y.past : p.pair \in applied' BY <1>11, <1>19, <1>25, <1>26
  <2>5. /\ y.completed = completed' /\ y.spent = spent' /\ y.weights = weights'
        /\ y.applied = applied' /\ y.phase = phase' /\ phase' = "observed"
    BY <1>11, <1>23, <1>25, <1>26, <1>30
  <2>6. QED BY <1>27, <2>1, <2>2, <2>3, <2>4, <2>5 DEF Views
<1>32. Trace(Twin(arm'), table', v, n + 1) /\ Views(v[n + 1])' BY <1>29, <1>30, <1>31
<1>33. n + 1 \in Nat BY <1>3
<1>34. QED BY <1>32, <1>33 DEF Traced

LEMMA RecordedFinish ==
  ASSUME SigmasOccur, SigmaReadsValues, Typed, Traced, Recorded, Finish PROVE Recorded'
<1>1. arm \in ArmIds /\ arm # None /\ phase = "loop" BY DEF Typed, Finish
<1>2. table' = table BY DEF Finish
<1>3. CASE UNCHANGED runs BY <1>2, <1>3 DEF Recorded
<1>4. CASE runs' = [a \in DOMAIN runs \cup {arm} |-> IF a = arm THEN Run ELSE runs[a]]
  <2>1. PICK n, tr : n \in Nat /\ Trace(Twin(arm), table, tr, n) /\ Views(tr[n]) BY <1>1 DEF Traced
  <2>2. PICK x : x = tr[n] OBVIOUS
  <2>3. Views(x) BY <2>1, <2>2
  <2>4. FeasibleAt(Twin(arm), x) = {} BY <1>1, <2>3, ViewsAgree DEF Finish
  <2>5. Ended(Twin(arm), x) BY <1>1, <2>3, <2>4 DEF Ended, Views
  <2>6. Run = Result(x)
    <3>1. DOMAIN updates = 1 .. Len(updates) BY DEF Typed
    <3>2. x.sigmas = [i \in DOMAIN updates |-> updates[i].sigma] BY <2>3, <3>1 DEF Views
    <3>3. QED BY <2>3, <3>2 DEF Run, Result, Views, StopReason, Done
  <2>7. ASSUME NEW a \in DOMAIN runs'
        PROVE  \E m \in Nat : \E v :
                 Trace(Twin(a), table', v, m) /\ Ended(Twin(a), v[m]) /\ runs'[a] = Result(v[m])
    <3>1. CASE a = arm
      <4>1. runs'[a] = Result(tr[n]) BY <1>4, <2>2, <2>6, <3>1
      <4>2. Ended(Twin(a), tr[n]) BY <2>2, <2>5, <3>1
      <4>3. Trace(Twin(a), table', tr, n) BY <1>2, <2>1, <3>1
      <4>4. QED BY <4>1, <4>2, <4>3, <2>1
    <3>2. CASE a # arm
      <4>1. a \in DOMAIN runs /\ runs'[a] = runs[a] BY <1>4, <3>2
      <4>2. QED BY <1>2, <4>1 DEF Recorded
    <3>3. QED BY <3>1, <3>2
  <2>8. QED BY <2>7 DEF Recorded
<1>5. QED BY <1>3, <1>4 DEF Finish

(* The arms are told apart by nothing that has happened before.            *)
IsolationInv == LoopInv /\ Traced /\ Recorded

LEMMA IsolationNext ==
  ASSUME SigmasOccur, SigmaReadsValues, IsolationInv, [Next]_vars
  PROVE  Traced' /\ Recorded'
<1>1. Typed /\ Paired /\ Remembered /\ Traced /\ Recorded BY DEF IsolationInv, LoopInv
<1>2. ASSUME UNCHANGED <<table, runs>> PROVE Recorded' BY <1>1, <1>2 DEF Recorded
<1>3. ASSUME NEW a \in ArmIds, Start(a) PROVE Traced' /\ Recorded'
  BY <1>2, <1>3, TracedStart DEF Start
<1>4. CASE Decide BY <1>1, <1>2, <1>4, TracedDecide DEF Decide
<1>5. CASE Experiment BY <1>1, <1>2, <1>5, TracedExperiment DEF Experiment
<1>6. CASE Apply BY <1>1, <1>2, <1>6, TracedApply DEF Apply
<1>7. CASE Recompute BY <1>1, <1>2, <1>7, TracedRecompute DEF Recompute
<1>8. CASE Finish
  <2>1. Recorded' BY <1>1, <1>8, RecordedFinish
  <2>2. arm' = None \/ phase' = "raised" BY <1>8 DEF Finish
  <2>3. QED BY <2>1, <2>2 DEF Traced
<1>9. CASE UNCHANGED vars
  <2>1. UNCHANGED <<table, runs, arm, phase, completed, spent, weights, updates, history, applied, decision>>
    BY <1>9 DEF vars, lineage
  <2>2. \A x : Views(x)' <=> Views(x) BY <2>1 DEF Views
  <2>3. Traced' BY <1>1, <2>1, <2>2 DEF Traced
  <2>4. QED BY <1>2, <2>1, <2>3
<1>10. CASE Over BY <1>9, <1>10 DEF Over
<1>11. QED BY <1>3, <1>4, <1>5, <1>6, <1>7, <1>8, <1>9, <1>10 DEF Next

(* Two arms of one specification make the same experiments, reach the same *)
(* belief with the same sigmas and stop for the same reason, whatever ran  *)
(* before or between them: what the oracle has revealed to the others, and *)
(* the effects they have seen, do not reach an arm.                        *)
THEOREM ArmsDoNotInteract ==
  ASSUME SigmasOccur, SigmaReadsValues, EntropyIsWhole
  PROVE  Spec => []ArmsAreIsolated
<1>1. Init => Traced /\ Recorded
  <2>1. SUFFICES ASSUME Init PROVE Traced /\ Recorded OBVIOUS
  <2>2. DOMAIN runs = {} /\ arm = None BY <2>1 DEF Init
  <2>3. QED BY <2>2 DEF Traced, Recorded
<1>2. LoopInv /\ Traced /\ Recorded /\ [Next]_vars => (Traced /\ Recorded)'
  BY IsolationNext DEF IsolationInv
<1>3. LoopInv /\ Traced /\ Recorded => ArmsAreIsolated
  <2>1. SUFFICES ASSUME Typed, Recorded, NEW a \in DOMAIN runs, NEW b \in DOMAIN runs,
                        ArmSpec[a] = ArmSpec[b]
                 PROVE  runs[a] = runs[b]
    BY DEF LoopInv, ArmsAreIsolated
  <2>2. PICK twin : twin = Twin(a) OBVIOUS
  <2>3. twin = Twin(b) BY <2>1, <2>2 DEF Twin
  <2>4. a \in ArmIds BY <2>1 DEF Typed
  <2>5. twin \in ArmIds BY <2>2, <2>4, TwinsAreAlike
  <2>6. PICK n, v : n \in Nat /\ Trace(twin, table, v, n) /\ Ended(twin, v[n]) /\ runs[a] = Result(v[n])
    BY <2>1, <2>2 DEF Recorded
  <2>7. PICK m, w : m \in Nat /\ Trace(twin, table, w, m) /\ Ended(twin, w[m]) /\ runs[b] = Result(w[m])
    BY <2>1, <2>3 DEF Recorded
  <2>8. v[n] = w[m] BY <2>5, <2>6, <2>7, EndsAgree
  <2>9. QED BY <2>6, <2>7, <2>8
<1>4. QED BY <1>1, <1>2, <1>3, LoopKeeps, PTL DEF Spec
-----------------------------------------------------------------------------
(* Two sums, term by term.                                                 *)

(* The order in which a sum takes its terms does not matter.               *)
Additive(S, f, sum) ==
  \A s \in SUBSET S : /\ sum[s] \in Int /\ (s = {} => sum[s] = 0)
                      /\ \A e \in s : sum[s] = f[e] + sum[s \ {e}]

LEMMA SumRemoves ==
  ASSUME NEW S, IsFiniteSet(S), NEW f \in [S -> Int], NEW sum, Sums(S, f, sum)
  PROVE  Additive(S, f, sum)
<1> DEFINE Holds(s) == /\ sum[s] \in Int /\ (s = {} => sum[s] = 0)
                       /\ \A e \in s : sum[s] = f[e] + sum[s \ {e}]
           T == {n \in Nat : \E s \in SUBSET S : Cardinality(s) = n /\ ~Holds(s)}
<1>1. \A s \in SUBSET S : IsFiniteSet(s) /\ Cardinality(s) \in Nat BY FS_Subset, FS_CardinalityType
<1>2. T = {}
  <2> SUFFICES ASSUME T # {} PROVE FALSE OBVIOUS
  <2>1. T \in SUBSET Nat OBVIOUS
  <2>2. PICK n \in T : \A m \in T : n <= m BY <2>1, LeastElement
  <2>3. PICK s \in SUBSET S : Cardinality(s) = n /\ ~Holds(s) BY <2>2
  <2>4. sum[s] = IF s = {} THEN 0 ELSE f[CHOOSE x \in s : TRUE] + sum[s \ {CHOOSE x \in s : TRUE}]
    BY DEF Sums
  <2>5. s # {} BY <2>3, <2>4
  <2>6. n \in Nat BY <2>2
  <2>7. ASSUME NEW r \in SUBSET S, Cardinality(r) < n PROVE Holds(r)
    <3>1. Cardinality(r) \in Nat BY <1>1
    <3>2. Cardinality(r) \notin T BY <2>2, <2>6, <2>7, <3>1
    <3> HIDE DEF Holds
    <3>3. QED BY <3>1, <3>2
  <2> DEFINE x == CHOOSE x \in s : TRUE
  <2>8. x \in s /\ sum[s] = f[x] + sum[s \ {x}] BY <2>4, <2>5
  <2> HIDE DEF x
  <2>9. ASSUME NEW e \in s PROVE s \ {e} \in SUBSET S /\ Cardinality(s \ {e}) = n - 1
    BY <1>1, <2>3, FS_RemoveElement
  <2>10. ASSUME NEW e \in s PROVE Holds(s \ {e})
    <3>1. s \ {e} \in SUBSET S /\ Cardinality(s \ {e}) < n BY <2>6, <2>9
    <3> HIDE DEF Holds
    <3>2. QED BY <2>7, <3>1
  <2>11. ASSUME NEW e \in s PROVE sum[s] = f[e] + sum[s \ {e}]
    <3>1. CASE e = x BY <2>8, <3>1
    <3>2. CASE e # x
      <4>1. e \in s \ {x} /\ x \in s \ {e} /\ (s \ {x}) \ {e} = (s \ {e}) \ {x} BY <2>8, <3>2
      <4>2. sum[s \ {x}] = f[e] + sum[(s \ {x}) \ {e}] BY <2>8, <2>10, <4>1
      <4>3. sum[s \ {e}] = f[x] + sum[(s \ {e}) \ {x}] BY <2>10, <4>1
      <4>4. (s \ {x}) \ {e} \in SUBSET S /\ Cardinality((s \ {x}) \ {e}) < n
        <5>1. PICK r : r = s \ {x} OBVIOUS
        <5>2. r \in SUBSET S /\ IsFiniteSet(r) /\ Cardinality(r) = n - 1 /\ e \in r
          BY <1>1, <2>8, <2>9, <4>1, <5>1
        <5>3. Cardinality(r \ {e}) = Cardinality(r) - 1 BY <5>2, FS_RemoveElement
        <5>4. Cardinality(r \ {e}) < n BY <2>6, <5>2, <5>3
        <5>5. QED BY <5>1, <5>2, <5>4
      <4>5. sum[(s \ {x}) \ {e}] \in Int BY <2>7, <4>4
      <4>6. f[x] \in Int /\ f[e] \in Int BY <2>8
      <4>7. PICK a, b, rest : a = f[x] /\ b = f[e] /\ rest = sum[(s \ {x}) \ {e}] OBVIOUS
      <4>8. sum[s] = a + (b + rest) /\ sum[s \ {e}] = a + rest
        BY <2>8, <4>1, <4>2, <4>3, <4>7
      <4>9. a \in Int /\ b \in Int /\ rest \in Int BY <4>5, <4>6, <4>7
      <4>10. QED BY <4>7, <4>8, <4>9
    <3>3. QED BY <3>1, <3>2
  <2>12. sum[s] \in Int
    <3>1. sum[s \ {x}] \in Int /\ f[x] \in Int BY <2>8, <2>10
    <3>2. QED BY <2>8, <3>1
  <2>13. QED BY <2>3, <2>5, <2>11, <2>12
<1>3. \A s \in SUBSET S : Holds(s)
  <2> HIDE DEF Holds
  <2>1. QED BY <1>1, <1>2
<1>4. QED BY <1>3 DEF Additive

(* Terms that h pairs off, and nothing else: the sum of the greater ones is *)
(* not less, and equal only if they are.                                   *)
Outweighs(V, g, total, S, f, sum, h) ==
  /\ sum[S] \in Int /\ total[V] \in Int /\ sum[S] <= total[V]
  /\ sum[S] = total[V] <=> \A x \in S : f[x] = g[h[x]]

LEMMA SumsCompare ==
  ASSUME NEW S, IsFiniteSet(S), NEW f \in [S -> Int], NEW sum, Sums(S, f, sum),
         NEW V, IsFiniteSet(V), NEW g \in [V -> Int], NEW total, Sums(V, g, total),
         NEW h \in [S -> V], \A x, y \in S : h[x] = h[y] => x = y,
         \A v \in V : (\E x \in S : h[x] = v) \/ g[v] = 0,
         \A x \in S : f[x] <= g[h[x]]
  PROVE  Outweighs(V, g, total, S, f, sum, h)
<1> DEFINE Pre(v) == {x \in S : h[x] \in v}
           Holds(v) == /\ sum[Pre(v)] <= total[v]
                       /\ sum[Pre(v)] = total[v] <=> \A x \in Pre(v) : f[x] = g[h[x]]
           T == {n \in Nat : \E v \in SUBSET V : Cardinality(v) = n /\ ~Holds(v)}
<1>1. \A v \in SUBSET V : IsFiniteSet(v) /\ Cardinality(v) \in Nat BY FS_Subset, FS_CardinalityType
<1>2. \A s \in SUBSET S : /\ sum[s] \in Int /\ (s = {} => sum[s] = 0)
                          /\ \A e \in s : sum[s] = f[e] + sum[s \ {e}]
  <2>1. Additive(S, f, sum) BY SumRemoves
  <2>2. QED BY <2>1 DEF Additive
<1>3. \A v \in SUBSET V : /\ total[v] \in Int /\ (v = {} => total[v] = 0)
                          /\ \A e \in v : total[v] = g[e] + total[v \ {e}]
  <2>1. Additive(V, g, total) BY SumRemoves
  <2>2. QED BY <2>1 DEF Additive
<1>4. T = {}
  <2> SUFFICES ASSUME T # {} PROVE FALSE OBVIOUS
  <2>1. T \in SUBSET Nat OBVIOUS
  <2>2. PICK n \in T : \A m \in T : n <= m BY <2>1, LeastElement
  <2>3. PICK v \in SUBSET V : Cardinality(v) = n /\ ~Holds(v) BY <2>2
  <2>4. n \in Nat BY <2>2
  <2>5. v # {}
    <3>1. SUFFICES ASSUME v = {} PROVE FALSE OBVIOUS
    <3>2. Pre(v) = {} BY <3>1
    <3>3. sum[Pre(v)] = 0 /\ total[v] = 0 BY <1>2, <1>3, <3>1, <3>2
    <3>4. QED BY <2>3, <3>2, <3>3
  <2>6. PICK e \in v : TRUE BY <2>5
  <2>7. v \ {e} \in SUBSET V /\ Cardinality(v \ {e}) = n - 1 BY <1>1, <2>3, <2>6, FS_RemoveElement
  <2>8. n - 1 \in Nat BY <1>1, <2>4, <2>7
  <2>9. Holds(v \ {e})
    <3>1. n - 1 \notin T BY <2>2, <2>4, <2>8
    <3> HIDE DEF Holds
    <3>2. QED BY <2>7, <2>8, <3>1
  <2>10. /\ total[v] = g[e] + total[v \ {e}] /\ total[v] \in Int /\ total[v \ {e}] \in Int
         /\ g[e] \in Int
    BY <1>3, <2>6, <2>7
  <2>11. CASE \E x \in S : h[x] = e
    <3>1. PICK x \in S : h[x] = e BY <2>11
    <3>2. x \in Pre(v) /\ Pre(v \ {e}) = Pre(v) \ {x} BY <2>6, <3>1
    <3>3. Pre(v) \in SUBSET S /\ Pre(v) \ {x} \in SUBSET S OBVIOUS
    <3>4. /\ sum[Pre(v)] = f[x] + sum[Pre(v) \ {x}] /\ sum[Pre(v) \ {x}] \in Int
          /\ f[x] \in Int /\ f[x] <= g[e]
      BY <1>2, <3>1, <3>2, <3>3
    <3>5. (\A y \in Pre(v) : f[y] = g[h[y]])
            <=> f[x] = g[e] /\ \A y \in Pre(v) \ {x} : f[y] = g[h[y]]
      BY <3>1, <3>2
    <3> DEFINE A == sum[Pre(v)]
               B == sum[Pre(v) \ {x}]
               Q == \A y \in Pre(v) : f[y] = g[h[y]]
               R == \A y \in Pre(v) \ {x} : f[y] = g[h[y]]
    <3>6. B <= total[v \ {e}] /\ (B = total[v \ {e}] <=> R) BY <2>9, <3>2
    <3>7. A = f[x] + B /\ B \in Int /\ (Q <=> f[x] = g[e] /\ R) BY <3>4, <3>5
    <3>8. ~(A <= total[v] /\ (A = total[v] <=> Q)) BY <2>3
    <3> HIDE DEF A, B, Q, R
    <3>9. QED BY <2>10, <3>4, <3>6, <3>7, <3>8
  <2>12. CASE ~ \E x \in S : h[x] = e
    <3>1. g[e] = 0 BY <2>12
    <3>2. Pre(v \ {e}) = Pre(v) BY <2>12
    <3>3. total[v] = total[v \ {e}] BY <2>10, <3>1
    <3>4. QED BY <2>3, <2>9, <3>2, <3>3
  <2>13. QED BY <2>11, <2>12
<1>5. Cardinality(V) \in Nat /\ V \in SUBSET V BY FS_CardinalityType
<1>6. Holds(V)
  <2> HIDE DEF Holds
  <2>1. QED BY <1>4, <1>5
<1>7. Pre(V) = S OBVIOUS
<1>8. sum[S] \in Int /\ total[V] \in Int BY <1>2, <1>3
<1>9. QED BY <1>6, <1>7, <1>8 DEF Outweighs

(* A common factor.                                                        *)
Multiplies(k, S, sum, total) == total[S] = k * sum[S]

LEMMA SumsScale ==
  ASSUME NEW S, IsFiniteSet(S), NEW f \in [S -> Int], NEW sum, Sums(S, f, sum),
         NEW k \in Int, NEW g \in [S -> Int], NEW total, Sums(S, g, total),
         \A x \in S : g[x] = k * f[x]
  PROVE  Multiplies(k, S, sum, total)
<1> DEFINE T == {n \in Nat : \E s \in SUBSET S : Cardinality(s) = n /\ total[s] # k * sum[s]}
<1>1. \A s \in SUBSET S : IsFiniteSet(s) /\ Cardinality(s) \in Nat BY FS_Subset, FS_CardinalityType
<1>2. \A s \in SUBSET S : /\ sum[s] \in Int /\ (s = {} => sum[s] = 0)
                          /\ \A e \in s : sum[s] = f[e] + sum[s \ {e}]
  <2>1. Additive(S, f, sum) BY SumRemoves
  <2>2. QED BY <2>1 DEF Additive
<1>3. \A s \in SUBSET S : /\ total[s] \in Int /\ (s = {} => total[s] = 0)
                          /\ \A e \in s : total[s] = g[e] + total[s \ {e}]
  <2>1. Additive(S, g, total) BY SumRemoves
  <2>2. QED BY <2>1 DEF Additive
<1>4. T = {}
  <2> SUFFICES ASSUME T # {} PROVE FALSE OBVIOUS
  <2>1. T \in SUBSET Nat OBVIOUS
  <2>2. PICK n \in T : \A m \in T : n <= m BY <2>1, LeastElement
  <2>3. PICK s \in SUBSET S : Cardinality(s) = n /\ total[s] # k * sum[s] BY <2>2
  <2>4. n \in Nat BY <2>2
  <2>5. s # {} BY <1>2, <1>3, <2>3
  <2>6. PICK e \in s : TRUE BY <2>5
  <2>7. s \ {e} \in SUBSET S /\ Cardinality(s \ {e}) = n - 1 BY <1>1, <2>3, <2>6, FS_RemoveElement
  <2>8. n - 1 \in Nat /\ n - 1 \notin T BY <1>1, <2>2, <2>4, <2>7
  <2>9. total[s \ {e}] = k * sum[s \ {e}] BY <2>7, <2>8
  <2>10. /\ sum[s] = f[e] + sum[s \ {e}] /\ total[s] = k * f[e] + total[s \ {e}]
         /\ f[e] \in Int /\ sum[s \ {e}] \in Int
    BY <1>2, <1>3, <2>6, <2>7
  <2> DEFINE a == f[e]
             b == sum[s \ {e}]
  <2>11. a \in Int /\ b \in Int /\ sum[s] = a + b /\ total[s] = k * a + k * b BY <2>9, <2>10
  <2> HIDE DEF a, b
  <2>12. k * (a + b) = k * a + k * b BY <2>11
  <2>13. QED BY <2>3, <2>11, <2>12
<1>5. Cardinality(S) \in Nat BY FS_CardinalityType
<1>6. QED BY <1>4, <1>5 DEF Multiplies
-----------------------------------------------------------------------------
(* The plan of a first experiment against all its strategies.              *)

(* The entropy of weights is not negative, and none without weight.        *)
EntropyVanishes ==
  \A w \in [Hypotheses -> Nat] : Entropy(w) >= 0 /\ (Total(w) = 0 => Entropy(w) = 0)

LEMMA SumIsNotNegative ==
  ASSUME NEW S, IsFiniteSet(S), NEW f \in [S -> Int], NEW sum, Sums(S, f, sum), \A x \in S : f[x] >= 0
  PROVE  sum[S] \in Int /\ sum[S] >= 0
<1> DEFINE z == [x \in S |-> 0]
           h == [x \in S |-> x]
<1>1. z \in [S -> Int] /\ \A x \in S : z[x] = 0 * z[x] OBVIOUS
<1>2. PICK none : Sums(S, z, none)
  <2> HIDE DEF z
  <2>1. QED BY <1>1, SumIsDefined
<1>3. none[S] \in Int /\ none[S] = 0
  <2>1. none[S] \in Int BY <1>1, <1>2, SumIsWhole
  <2> HIDE DEF z
  <2>2. Multiplies(0, S, none, none) BY <1>1, <1>2, SumsScale
  <2>3. QED BY <2>1, <2>2 DEF Multiplies
<1>4. /\ h \in [S -> S] /\ \A x, y \in S : h[x] = h[y] => x = y
      /\ \A v \in S : (\E x \in S : h[x] = v) \/ f[v] = 0
      /\ \A x \in S : z[x] <= f[h[x]]
  OBVIOUS
<1> HIDE DEF z, h
<1>5. Outweighs(S, f, sum, S, z, none, h) BY <1>1, <1>2, <1>4, SumsCompare
<1>6. QED BY <1>3, <1>5 DEF Outweighs

LEMMA TotalIsWhole ==
  ASSUME NEW w \in [Hypotheses -> Nat] PROVE Total(w) \in Nat
BY DEF Total, Hypotheses

(* Outcomes that no hypothesis admits add nothing: a gain is the entropy   *)
(* less a sum over all outcomes.                                           *)
OutcomeSums(w, sigma, total) ==
  /\ Sums(Outcomes, [o \in Outcomes |-> Entropy(After(w, sigma, o))], total)
  /\ MapThenSumSet(LAMBDA o : Entropy(After(w, sigma, o)), Outcomes) = total[Outcomes]
  /\ Gain(w, sigma) = Scale * Entropy(w) - total[Outcomes]
  /\ total[Outcomes] \in Int /\ total[Outcomes] >= 0

LEMMA GainIsOverOutcomes ==
  ASSUME EntropyIsWhole, EntropyVanishes, NEW w \in [Hypotheses -> Nat], NEW sigma \in Sigmas
  PROVE  \E total : OutcomeSums(w, sigma, total)
<1> DEFINE P == Posteriors(w, sigma)
           f == [p \in P |-> Entropy(p.weights)]
           g == [o \in Outcomes |-> Entropy(After(w, sigma, o))]
           h == [p \in P |-> p.bin]
           Unrolls(v) == v = [s \in SUBSET Outcomes |-> IF s = {} THEN 0
                                ELSE Entropy(After(w, sigma, CHOOSE x \in s : TRUE))
                                     + v[s \ {CHOOSE x \in s : TRUE}]]
<1>1. PICK sum : GainSums(w, sigma, sum) BY GainIsSum
<1>2. Sums(P, f, sum) /\ Gain(w, sigma) = Scale * Entropy(w) - sum[P] BY <1>1 DEF GainSums
<1>3. IsFiniteSet(P) /\ f \in [P -> Int] BY PosteriorsAreTyped DEF EntropyIsWhole
<1>4. PICK total : total = CHOOSE v : Unrolls(v) OBVIOUS
<1>5. MapThenSumSet(LAMBDA o : Entropy(After(w, sigma, o)), Outcomes) = total[Outcomes]
  BY <1>4 DEF MapThenSumSet, MapThenFoldSet
<1>7. IsFiniteSet(Outcomes) BY PlannerAssumption
<1>8. \A o \in Outcomes : After(w, sigma, o) \in [Hypotheses -> Nat] BY WeighedIsTyped
<1>9. g \in [Outcomes -> Int] /\ \A o \in Outcomes : g[o] = Entropy(After(w, sigma, o)) /\ g[o] >= 0
  BY <1>8 DEF EntropyIsWhole, EntropyVanishes
<1>10. Sums(Outcomes, g, total)
  <2>1. \A s \in SUBSET Outcomes : s # {} =>
          g[CHOOSE x \in s : TRUE] = Entropy(After(w, sigma, CHOOSE x \in s : TRUE))
    <3>1. \A s \in SUBSET Outcomes : s # {} => (CHOOSE x \in s : TRUE) \in Outcomes OBVIOUS
    <3> HIDE DEF g
    <3>2. QED BY <1>9, <3>1
  <2>2. ASSUME NEW v PROVE Unrolls(v) <=> Sums(Outcomes, g, v)
    <3> DEFINE t(s) == IF s = {} THEN 0 ELSE Entropy(After(w, sigma, CHOOSE x \in s : TRUE))
                                            + v[s \ {CHOOSE x \in s : TRUE}]
               u(s) == IF s = {} THEN 0 ELSE g[CHOOSE x \in s : TRUE] + v[s \ {CHOOSE x \in s : TRUE}]
    <3> HIDE DEF g
    <3>1. \A s \in SUBSET Outcomes : t(s) = u(s) BY <2>1
    <3> HIDE DEF t, u
    <3>2. [s \in SUBSET Outcomes |-> t(s)] = [s \in SUBSET Outcomes |-> u(s)] BY <3>1
    <3>3. QED BY <3>2 DEF Sums, t, u
  <2> HIDE DEF g
  <2> HIDE DEF Unrolls
  <2>3. \E v : Sums(Outcomes, g, v) BY <1>7, <1>9, SumIsDefined
  <2>4. QED BY <1>4, <2>2, <2>3
<1>11. \A p \in P : /\ p.bin \in Outcomes /\ p = [bin |-> p.bin, weights |-> After(w, sigma, p.bin)]
                    /\ p.weights = After(w, sigma, p.bin)
  BY DEF Posteriors
<1>12. h \in [P -> Outcomes] /\ \A p \in P : h[p] = p.bin BY <1>11
<1>13. \A p, q \in P : h[p] = h[q] => p = q BY <1>11, <1>12
<1>14. ASSUME NEW o \in Outcomes, ~ \E p \in P : h[p] = o PROVE g[o] = 0
  <2> DEFINE p == [bin |-> o, weights |-> After(w, sigma, o)]
  <2>1. p.bin = o /\ p.weights = After(w, sigma, o) OBVIOUS
  <2>2. p \notin P BY <1>12, <1>14, <2>1
  <2>3. ~ (Total(p.weights) > 0) BY <2>2 DEF Posteriors
  <2>4. Total(After(w, sigma, o)) = 0 BY <1>8, <2>1, <2>3, TotalIsWhole
  <2>5. QED BY <1>8, <1>9, <2>4 DEF EntropyVanishes
<1>15. \A p \in P : f[p] = g[h[p]] /\ f[p] \in Int BY <1>3, <1>9, <1>11, <1>12
<1> HIDE DEF P, f, g, h, Unrolls
<1>16. sum[P] = total[Outcomes] /\ sum[P] \in Int
  <2>1. Outweighs(Outcomes, g, total, P, f, sum, h)
    BY <1>2, <1>3, <1>7, <1>9, <1>10, <1>12, <1>13, <1>14, <1>15, SumsCompare
  <2>2. QED BY <1>15, <2>1 DEF Outweighs
<1>17. total[Outcomes] \in Int /\ total[Outcomes] >= 0 BY <1>7, <1>9, <1>10, SumIsNotNegative
<1>18. OutcomeSums(w, sigma, total)
  BY <1>2, <1>5, <1>10, <1>16, <1>17 DEF OutcomeSums, g
<1>19. QED BY <1>18

(* Ending with a pair leaves, over all outcomes, what its gain is less.    *)
LEMMA FinalIsEntropyLessGain ==
  ASSUME EntropyIsWhole, EntropyVanishes, NEW branch, NEW w \in [Hypotheses -> Nat],
         branch.weights = w, NEW d, d # Stop, NEW sigma \in Sigmas,
         decision.snapshot[Design[d].group] = sigma
  PROVE  /\ FinalEntropy(branch, d) = Scale * Entropy(w) - Gain(w, sigma)
         /\ FinalEntropy(branch, d) \in Int /\ FinalEntropy(branch, d) >= 0
<1>1. PICK total : OutcomeSums(w, sigma, total) BY GainIsOverOutcomes
<1>2. FinalEntropy(branch, d) = MapThenSumSet(LAMBDA o : Entropy(After(w, sigma, o)), Outcomes)
  BY DEF FinalEntropy
<1>3. PICK t : t = total[Outcomes] OBVIOUS
<1>4. PICK m : m = MapThenSumSet(LAMBDA o : Entropy(After(w, sigma, o)), Outcomes) OBVIOUS
<1>5. m = t /\ t \in Int /\ t >= 0 /\ Gain(w, sigma) = Scale * Entropy(w) - t
  BY <1>1, <1>3, <1>4 DEF OutcomeSums
<1>6. PICK e \in Int : e = Scale * Entropy(w) BY PlannerAssumption DEF EntropyIsWhole
<1>7. FinalEntropy(branch, d) = t BY <1>2, <1>4, <1>5
<1>8. QED BY <1>5, <1>6, <1>7
-----------------------------------------------------------------------------
(* What information is: a gain is never negative, and is proportional to   *)
(* the weights.                                                            *)

(* Entropy is concave, and homogeneous of degree one.                      *)
EntropyIsConcave ==
  /\ \A u, v \in [Hypotheses -> Nat] :
       Entropy(u) + Entropy(v) <= Entropy([h \in Hypotheses |-> u[h] + v[h]])
  /\ \A w \in [Hypotheses -> Nat] : Entropy([h \in Hypotheses |-> w[h] * Scale]) = Scale * Entropy(w)

Enlarged(w) == Weigh(w, [h \in Hypotheses |-> Scale])

LEMMA EnlargedIsTyped ==
  ASSUME NEW w \in [Hypotheses -> Nat]
  PROVE  /\ Enlarged(w) = [h \in Hypotheses |-> w[h] * Scale]
         /\ Enlarged(w) \in [Hypotheses -> Nat] /\ \A h \in Hypotheses : Enlarged(w)[h] = w[h] * Scale
<1>1. Scale \in Nat /\ \A h \in Hypotheses : w[h] \in Nat BY PlannerAssumption
<1>2. \A h \in Hypotheses : w[h] * Scale \in Nat BY <1>1
<1>3. Enlarged(w) = [h \in Hypotheses |-> w[h] * Scale] BY DEF Enlarged, Weigh, Hypotheses
<1>4. QED BY <1>2, <1>3

LEMMA GainIsProportional ==
  ASSUME EntropyIsWhole, EntropyVanishes, EntropyIsConcave,
         NEW w \in [Hypotheses -> Nat], NEW sigma \in Sigmas
  PROVE  Gain(Enlarged(w), sigma) = Scale * Gain(w, sigma)
<1>1. PICK u : u = Enlarged(w) OBVIOUS
<1>2. /\ u = [h \in Hypotheses |-> w[h] * Scale] /\ u \in [Hypotheses -> Nat]
      /\ \A h \in Hypotheses : u[h] = w[h] * Scale
  BY <1>1, EnlargedIsTyped
<1> DEFINE f == [o \in Outcomes |-> Entropy(After(w, sigma, o))]
           g == [o \in Outcomes |-> Entropy(After(u, sigma, o))]
<1>3. PICK sum : OutcomeSums(w, sigma, sum) BY GainIsOverOutcomes
<1>4. PICK total : OutcomeSums(u, sigma, total) BY <1>2, GainIsOverOutcomes
<1>5. /\ Sums(Outcomes, f, sum) /\ Gain(w, sigma) = Scale * Entropy(w) - sum[Outcomes]
      /\ sum[Outcomes] \in Int
      /\ Sums(Outcomes, g, total) /\ Gain(u, sigma) = Scale * Entropy(u) - total[Outcomes]
  BY <1>3, <1>4 DEF OutcomeSums
<1>6. IsFiniteSet(Outcomes) /\ Scale \in Int BY PlannerAssumption
<1>7. ASSUME NEW o \in Outcomes
      PROVE  /\ After(w, sigma, o) \in [Hypotheses -> Nat] /\ After(u, sigma, o) \in [Hypotheses -> Nat]
             /\ Entropy(After(u, sigma, o)) = Scale * Entropy(After(w, sigma, o))
  <2>1. PICK a, b : a = After(w, sigma, o) /\ b = After(u, sigma, o) OBVIOUS
  <2>2. /\ a \in [Hypotheses -> Nat] /\ \A h \in Hypotheses : a[h] = w[h] * Likelihood[sigma][o][h]
        /\ b \in [Hypotheses -> Nat] /\ \A h \in Hypotheses : b[h] = u[h] * Likelihood[sigma][o][h]
    BY <1>2, <2>1, WeighedIsTyped
  <2>3. ASSUME NEW h \in Hypotheses PROVE b[h] = a[h] * Scale
    <3>1. PICK x, y, z : x = w[h] /\ y = Likelihood[sigma][o][h] /\ z = Scale OBVIOUS
    <3>2. x \in Nat /\ y \in Nat /\ z \in Nat BY <3>1, PlannerAssumption
    <3>3. a[h] = x * y /\ b[h] = (x * z) * y BY <1>2, <2>2, <3>1
    <3>4. (x * z) * y = (x * y) * z BY <3>2
    <3>5. QED BY <3>1, <3>3, <3>4
  <2>4. b = [h \in Hypotheses |-> a[h] * Scale] BY <2>2, <2>3
  <2>5. Entropy(b) = Scale * Entropy(a) BY <2>2, <2>4 DEF EntropyIsConcave
  <2>6. QED BY <2>1, <2>2, <2>5
<1>8. /\ f \in [Outcomes -> Int] /\ g \in [Outcomes -> Int]
      /\ \A o \in Outcomes : g[o] = Scale * f[o]
  BY <1>7 DEF EntropyIsWhole
<1> HIDE DEF f, g
<1>9. total[Outcomes] = Scale * sum[Outcomes]
  <2>1. Multiplies(Scale, Outcomes, sum, total) BY <1>5, <1>6, <1>8, SumsScale
  <2>2. QED BY <2>1 DEF Multiplies
<1>10. Entropy(u) = Scale * Entropy(w) BY <1>2 DEF EntropyIsConcave
<1>11. PICK k, e, s : k = Scale /\ e = Entropy(w) /\ s = sum[Outcomes] OBVIOUS
<1>12. k \in Int /\ e \in Int /\ s \in Int BY <1>5, <1>6, <1>11 DEF EntropyIsWhole
<1>13. Gain(u, sigma) = k * (k * e) - k * s /\ Gain(w, sigma) = k * e - s
  BY <1>5, <1>9, <1>10, <1>11
<1>14. PICK p : p = k * e OBVIOUS
<1>15. p \in Int BY <1>12, <1>14
<1>16. k * p - k * s = k * (p - s) BY <1>12, <1>15
<1>17. QED BY <1>1, <1>11, <1>13, <1>14, <1>16

LEMMA MassesAddUp ==
  ASSUME NEW sigma \in Sigmas, NEW h \in Hypotheses
  PROVE  \E mass : /\ Sums(Outcomes, [o \in Outcomes |-> Likelihood[sigma][o][h]], mass)
                   /\ mass[Outcomes] = Scale
<1> DEFINE l(o) == Likelihood[sigma][o][h]
           f == [o \in Outcomes |-> l(o)]
           Unrolls(v) == v = [s \in SUBSET Outcomes |-> IF s = {} THEN 0
                                ELSE l(CHOOSE x \in s : TRUE) + v[s \ {CHOOSE x \in s : TRUE}]]
<1>1. PICK mass : mass = CHOOSE v : Unrolls(v) OBVIOUS
<1>2. MapThenSumSet(LAMBDA o : Likelihood[sigma][o][h], Outcomes) = mass[Outcomes]
  BY <1>1 DEF MapThenSumSet, MapThenFoldSet
<1>3. mass[Outcomes] = Scale BY <1>2, PlannerAssumption
<1>4. IsFiniteSet(Outcomes) /\ \A o \in Outcomes : l(o) \in Nat BY PlannerAssumption
<1>5. f = [o \in Outcomes |-> Likelihood[sigma][o][h]] OBVIOUS
<1> HIDE DEF l
<1>6. f \in [Outcomes -> Int] BY <1>4
<1>7. \A s \in SUBSET Outcomes : s # {} => f[CHOOSE x \in s : TRUE] = l(CHOOSE x \in s : TRUE)
  <2>1. \A s \in SUBSET Outcomes : s # {} => (CHOOSE x \in s : TRUE) \in Outcomes OBVIOUS
  <2>2. QED BY <2>1
<1>8. ASSUME NEW v PROVE Unrolls(v) <=> Sums(Outcomes, f, v)
  <2> DEFINE p(s) == IF s = {} THEN 0 ELSE l(CHOOSE x \in s : TRUE) + v[s \ {CHOOSE x \in s : TRUE}]
             q(s) == IF s = {} THEN 0 ELSE f[CHOOSE x \in s : TRUE] + v[s \ {CHOOSE x \in s : TRUE}]
  <2> HIDE DEF f
  <2>1. \A s \in SUBSET Outcomes : p(s) = q(s) BY <1>7
  <2> HIDE DEF p, q
  <2>2. [s \in SUBSET Outcomes |-> p(s)] = [s \in SUBSET Outcomes |-> q(s)] BY <2>1
  <2>3. QED BY <2>2 DEF Sums, p, q
<1> HIDE DEF f, Unrolls
<1>9. \E v : Sums(Outcomes, f, v) BY <1>4, <1>6, SumIsDefined
<1>10. Sums(Outcomes, f, mass) BY <1>1, <1>8, <1>9
<1>11. QED BY <1>3, <1>5, <1>10

LEMMA GainIsNotNegative ==
  ASSUME EntropyIsWhole, EntropyVanishes, EntropyIsConcave,
         NEW w \in [Hypotheses -> Nat], NEW sigma \in Sigmas
  PROVE  Gain(w, sigma) \in Int /\ Gain(w, sigma) >= 0
<1> DEFINE after(o) == After(w, sigma, o)
           g == [o \in Outcomes |-> Entropy(after(o))]
           l(h) == [o \in Outcomes |-> Likelihood[sigma][o][h]]
           mass == [h \in Hypotheses |-> CHOOSE m : Sums(Outcomes, l(h), m) /\ m[Outcomes] = Scale]
<1>1. PICK total : OutcomeSums(w, sigma, total) BY GainIsOverOutcomes
<1>2. /\ Sums(Outcomes, g, total) /\ Gain(w, sigma) = Scale * Entropy(w) - total[Outcomes]
      /\ total[Outcomes] \in Int
  BY <1>1 DEF OutcomeSums
<1>3. \A h \in Hypotheses : Sums(Outcomes, l(h), mass[h]) /\ mass[h][Outcomes] = Scale
  BY MassesAddUp
<1>4. IsFiniteSet(Outcomes) /\ Scale \in Nat BY PlannerAssumption
<1>5. \A o \in Outcomes : /\ after(o) \in [Hypotheses -> Nat]
                          /\ \A h \in Hypotheses : after(o)[h] = w[h] * Likelihood[sigma][o][h]
  BY WeighedIsTyped
<1>6. \A o \in Outcomes, h \in Hypotheses :
        l(h) \in [Outcomes -> Int] /\ l(h)[o] \in Nat /\ after(o)[h] = w[h] * l(h)[o]
  BY <1>5, PlannerAssumption
<1> HIDE DEF after
<1>7. g \in [Outcomes -> Int] /\ \A o \in Outcomes : g[o] = Entropy(after(o))
  BY <1>5 DEF EntropyIsWhole
<1>8. \A h \in Hypotheses : Additive(Outcomes, l(h), mass[h])
  <2>1. ASSUME NEW h \in Hypotheses PROVE Additive(Outcomes, l(h), mass[h])
    <3>1. l(h) \in [Outcomes -> Int]
      <4>1. \A o \in Outcomes : Likelihood[sigma][o][h] \in Int BY PlannerAssumption
      <4>2. QED BY <4>1
    <3>2. Sums(Outcomes, l(h), mass[h]) BY <1>3
    <3> HIDE DEF l, mass
    <3>3. QED BY <1>4, <3>1, <3>2, SumRemoves
  <2>2. QED BY <2>1
<1> HIDE DEF l, mass, g
<1>9. Additive(Outcomes, g, total) BY <1>2, <1>4, <1>7, SumRemoves
<1> DEFINE V(s) == [h \in Hypotheses |-> w[h] * mass[h][s]]
           Holds(s) == /\ \A h \in Hypotheses : mass[h][s] \in Nat
                       /\ total[s] \in Int /\ total[s] <= Entropy(V(s))
           T == {n \in Nat : \E s \in SUBSET Outcomes : Cardinality(s) = n /\ ~Holds(s)}
<1>10. \A s \in SUBSET Outcomes : IsFiniteSet(s) /\ Cardinality(s) \in Nat
  BY <1>4, FS_Subset, FS_CardinalityType
<1>11. ASSUME NEW s \in SUBSET Outcomes, \A h \in Hypotheses : mass[h][s] \in Nat
       PROVE  V(s) \in [Hypotheses -> Nat]
  <2>1. \A h \in Hypotheses : w[h] * mass[h][s] \in Nat BY <1>11
  <2>2. QED BY <2>1
<1>12. T = {}
  <2> SUFFICES ASSUME T # {} PROVE FALSE OBVIOUS
  <2>1. T \in SUBSET Nat OBVIOUS
  <2>2. PICK n \in T : \A m \in T : n <= m BY <2>1, LeastElement
  <2>3. PICK s \in SUBSET Outcomes : Cardinality(s) = n /\ ~Holds(s) BY <2>2
  <2>4. n \in Nat BY <2>2
  <2>5. s # {}
    <3>1. SUFFICES ASSUME s = {} PROVE FALSE OBVIOUS
    <3>2. \A h \in Hypotheses : mass[h][s] = 0 BY <1>8, <3>1 DEF Additive
    <3>3. total[s] = 0 BY <1>9, <3>1 DEF Additive
    <3>4. V(s) \in [Hypotheses -> Nat] BY <1>11, <3>2
    <3>5. Entropy(V(s)) >= 0 BY <3>4 DEF EntropyVanishes
    <3> HIDE DEF V
    <3>6. QED BY <2>3, <3>2, <3>3, <3>5
  <2>6. PICK e \in s : TRUE BY <2>5
  <2>7. PICK r : r = s \ {e} OBVIOUS
  <2>8. r \in SUBSET Outcomes /\ Cardinality(r) = n - 1 BY <1>10, <2>3, <2>6, <2>7, FS_RemoveElement
  <2>9. n - 1 \in Nat /\ n - 1 \notin T
    <3> HIDE DEF T
    <3>1. Cardinality(r) \in Nat BY <1>10, <2>8
    <3>2. QED BY <2>2, <2>4, <2>8, <3>1
  <2>10. Holds(r)
    <3> HIDE DEF Holds
    <3>1. QED BY <2>8, <2>9
  <2>11. e \in Outcomes /\ after(e) \in [Hypotheses -> Nat] /\ V(r) \in [Hypotheses -> Nat]
    BY <1>5, <1>11, <2>8, <2>10
  <2>12. \A h \in Hypotheses : mass[h][s] = l(h)[e] + mass[h][r] /\ l(h)[e] \in Nat /\ mass[h][r] \in Nat
    BY <1>6, <1>8, <2>6, <2>7, <2>10 DEF Additive
  <2>13. \A h \in Hypotheses : mass[h][s] \in Nat BY <2>12
  <2>14. ASSUME NEW h \in Hypotheses PROVE V(s)[h] = after(e)[h] + V(r)[h]
    <3>1. PICK x, y, z : x = w[h] /\ y = l(h)[e] /\ z = mass[h][r] OBVIOUS
    <3>2. x \in Nat /\ y \in Nat /\ z \in Nat BY <2>12, <3>1
    <3>3. V(s)[h] = x * (y + z) /\ V(r)[h] = x * z /\ after(e)[h] = x * y
      BY <1>6, <2>11, <2>12, <3>1
    <3>4. x * (y + z) = x * y + x * z BY <3>2
    <3>5. QED BY <3>3, <3>4
  <2>15. V(s) = [h \in Hypotheses |-> after(e)[h] + V(r)[h]]
    <3>1. DOMAIN V(s) = Hypotheses /\ V(s) = [h \in Hypotheses |-> V(s)[h]] OBVIOUS
    <3> HIDE DEF V
    <3>2. QED BY <2>14, <3>1
  <2>16. total[s] = g[e] + total[r] /\ g[e] = Entropy(after(e)) /\ g[e] \in Int
    BY <1>7, <1>9, <2>6, <2>7, <2>11 DEF Additive
  <2> HIDE DEF V
  <2>17. Entropy(after(e)) + Entropy(V(r)) <= Entropy(V(s)) BY <2>11, <2>15 DEF EntropyIsConcave
  <2>18. V(s) \in [Hypotheses -> Nat] BY <1>11, <2>13
  <2>19. Entropy(V(s)) \in Int /\ Entropy(V(r)) \in Int BY <2>11, <2>18 DEF EntropyIsWhole
  <2>20. total[r] \in Int /\ total[r] <= Entropy(V(r)) BY <2>10
  <2>21. total[s] \in Int /\ total[s] <= Entropy(V(s)) BY <2>16, <2>17, <2>19, <2>20
  <2>22. QED BY <2>3, <2>13, <2>21
<1>13. Cardinality(Outcomes) \in Nat BY <1>4, FS_CardinalityType
<1>14. Holds(Outcomes)
  <2> HIDE DEF Holds
  <2>1. QED BY <1>12, <1>13
<1>15. V(Outcomes) = [h \in Hypotheses |-> w[h] * Scale] BY <1>3
<1>16. Entropy(V(Outcomes)) = Scale * Entropy(w)
  <2> HIDE DEF V
  <2>1. QED BY <1>15 DEF EntropyIsConcave
<1>17. PICK k : k = Scale * Entropy(w) OBVIOUS
<1>18. k \in Int BY <1>4, <1>17 DEF EntropyIsWhole
<1>19. total[Outcomes] <= k BY <1>14, <1>16, <1>17
<1>20. QED BY <1>2, <1>17, <1>18, <1>19
(* With the tolerance, a second experiment fits exactly when it does in    *)
(* decimals.                                                               *)
LEMMA TwoRoundingsAreAbsorbed ==
  ASSUME TwoCostsAreAbsorbed, NEW a \in ArmIds, NEW c \in Candidates, NEW d \in Candidates,
         NEW s \in 0 .. ArmSpec[a].budget
  PROVE  FitsRoughly(FlCost(d), (Fl(ArmSpec[a].budget) - Fl(s)) - FlCost(c))
           <=> Cost[c] + Cost[d] <= ArmSpec[a].budget - s
<1>. DEFINE B == ArmSpec[a].budget
            error == RoundingError[Cost[c]] + RoundingError[Cost[d]] - (RoundingError[B] - RoundingError[s])
<1>1. /\ {RoundingError[Cost[c]], RoundingError[B], RoundingError[s]} \subseteq Int
      /\ RoundingError[Cost[d]] \in Int
  <2>1. {RoundingError[Cost[d]], RoundingError[B], RoundingError[s]} \subseteq Int
    BY ClosedLoopAssumption
  <2>2. QED BY <2>1, ClosedLoopAssumption
<1>2. /\ Cost[c] \in Nat /\ Cost[d] \in Nat /\ B \in Nat /\ s \in Nat
      /\ RoundingError[Cost[c]] \in Int /\ RoundingError[Cost[d]] \in Int
      /\ RoundingError[B] \in Int /\ RoundingError[s] \in Int
  BY <1>1, PlannerAssumption, ClosedLoopAssumption
<1>3. Grain \in Nat \ {0} /\ Tolerance \in Nat BY PlannerAssumption
<1>4. -Tolerance <= error /\ error <= Tolerance /\ Tolerance - error < Grain
  BY DEF TwoCostsAreAbsorbed
<1>. DEFINE x == Cost[c] + Cost[d] - (B - s)
<1>5. x \in Int /\ error \in Int BY <1>2
<1>6. PICK p, q, r, t : p = RoundingError[Cost[c]] /\ q = RoundingError[Cost[d]]
                        /\ r = RoundingError[B] /\ t = RoundingError[s]
  OBVIOUS
<1>7. /\ FlCost(c) = Cost[c] * Grain + p /\ FlCost(d) = Cost[d] * Grain + q
      /\ Fl(B) = B * Grain + r /\ Fl(s) = s * Grain + t
      /\ p \in Int /\ q \in Int /\ r \in Int /\ t \in Int /\ error = p + q - (r - t)
  BY <1>2, <1>6 DEF FlCost, Fl
<1>8. /\ FlCost(d) - ((Fl(B) - Fl(s)) - FlCost(c)) = x * Grain + error
      /\ FlCost(c) \in Int /\ FlCost(d) \in Int /\ Fl(B) \in Int /\ Fl(s) \in Int
  <2>1. PICK i, j, k, l : i = Cost[c] /\ j = Cost[d] /\ k = B /\ l = s OBVIOUS
  <2>2. i \in Int /\ j \in Int /\ k \in Int /\ l \in Int /\ Grain \in Int BY <1>2, <1>3, <2>1
  <2>. HIDE DEF B
  <2>3. /\ FlCost(c) = i * Grain + p /\ FlCost(d) = j * Grain + q
        /\ Fl(B) = k * Grain + r /\ Fl(s) = l * Grain + t /\ x = i + j - (k - l)
    BY <1>7, <2>1
  <2>. HIDE DEF x, error
  <2>4. QED BY <1>7, <2>2, <2>3
<1>. HIDE DEF x, error, B
<1>9. FitsRoughly(FlCost(d), (Fl(B) - Fl(s)) - FlCost(c)) <=> x * Grain + error <= Tolerance
  <2>1. x * Grain \in Int BY <1>3, <1>5
  <2>2. QED BY <1>3, <1>5, <1>8, <2>1 DEF FitsRoughly
<1>10. CASE x <= 0
  <2>1. x * Grain <= 0 /\ x * Grain \in Int BY <1>3, <1>5, <1>10
  <2>2. x * Grain + error <= Tolerance BY <1>3, <1>4, <1>5, <2>1
  <2>3. Cost[c] + Cost[d] <= B - s BY <1>2, <1>10 DEF x
  <2>4. QED BY <1>9, <2>2, <2>3 DEF B
<1>11. CASE x >= 1
  <2>1. x * Grain >= Grain /\ x * Grain \in Int BY <1>3, <1>5, <1>11
  <2>2. ~ (x * Grain + error <= Tolerance) BY <1>3, <1>4, <1>5, <2>1
  <2>3. ~ (Cost[c] + Cost[d] <= B - s) BY <1>2, <1>11 DEF x
  <2>4. QED BY <1>9, <2>2, <2>3 DEF B
<1>12. QED BY <1>5, <1>10, <1>11

(* A state in which an arm weighs experiments.                             *)
Weighing ==
  /\ arm \in ArmIds /\ Done \subseteq Candidates /\ spent \in 0 .. Current.budget
  /\ weights \in [Hypotheses -> Nat] /\ decision.snapshot \in [Groups -> Sigmas]

(* The second experiments a branch chooses from are those that close a     *)
(* pair within the budget.                                                 *)
Continuations(c, w) ==
  {StopAction} \cup {Score(d, Done \cup {c}, w, decision.snapshot) : d \in Closers(c)}

LEMMA SecondActionsAreClosers ==
  ASSUME TwoCostsAreAbsorbed, Weighing, NEW c \in Candidates, NEW w
  PROVE  SecondActions(Feasible, Done \cup {c}, w, RemainingBudget - FlCost(c), decision.snapshot)
           = Continuations(c, w)
<1>1. arm \in ArmIds /\ spent \in 0 .. ArmSpec[arm].budget
      /\ RemainingBudget = Fl(ArmSpec[arm].budget) - Fl(spent) /\ Left = ArmSpec[arm].budget - spent
  BY DEF Weighing, RemainingBudget, Left, Current
<1>2. \A d \in Candidates : Cost[d] \in Nat BY PlannerAssumption
<1>3. ArmSpec[arm].budget \in Nat /\ spent \in Nat /\ Left \in Int
  BY <1>1, ClosedLoopAssumption
<1>4. \A d \in Candidates :
        FitsRoughly(FlCost(d), RemainingBudget - FlCost(c)) <=> Cost[c] + Cost[d] <= Left
  BY <1>1, TwoRoundingsAreAbsorbed
<1>5. \A d \in Candidates : FitsRoughly(FlCost(d), RemainingBudget) <=> Cost[d] <= Left
  BY <1>1, RoundingIsAbsorbed
<1>6. \A d \in Candidates : Cost[c] + Cost[d] <= Left => Cost[d] <= Left BY <1>2, <1>3
<1>7. ASSUME NEW d
      PROVE  d \in {e \in Feasible \ (Done \cup {c}) : FitsRoughly(FlCost(e), RemainingBudget - FlCost(c))
                                           /\ Effect(e, Done \cup {c}) = "completes_pair"}
               <=> d \in Closers(c)
  BY <1>4, <1>5, <1>6 DEF Feasible, Closers
<1> DEFINE Open == {e \in Feasible \ (Done \cup {c}) : FitsRoughly(FlCost(e), RemainingBudget - FlCost(c))
                                           /\ Effect(e, Done \cup {c}) = "completes_pair"}
<1>8. Open = Closers(c) BY <1>7
<1>9. SecondActions(Feasible, Done \cup {c}, w, RemainingBudget - FlCost(c), decision.snapshot)
        = {StopAction} \cup {Score(d, Done \cup {c}, w, decision.snapshot) : d \in Open}
  BY DEF SecondActions
<1> HIDE DEF Open
<1>10. QED BY <1>8, <1>9 DEF Continuations

(* What a choice of second action comes to.                                *)
Options(c) == {Stop} \cup Closers(c)
ActionOf(c, w, d) == IF d = Stop THEN StopAction ELSE Score(d, Done \cup {c}, w, decision.snapshot)
Comes(c, branch, d) ==
  LET y == ActionOf(c, branch.weights, d)
  IN  /\ y \in Continuations(c, branch.weights) /\ y.candidate = d /\ y.cost \in Int /\ y.gain \in Int
      /\ Price(c, d) = FlCost(c) + y.cost /\ FlCost(c) \in Int
      /\ FinalEntropy(branch, d) = Scale * Entropy(branch.weights) - y.gain
      /\ FinalEntropy(branch, d) \in Int /\ FinalEntropy(branch, d) >= 0

LEMMA OptionsAreWorth ==
  ASSUME EntropyIsWhole, EntropyVanishes, Weighing, NEW c \in Candidates, NEW branch,
         branch.weights \in [Hypotheses -> Nat], NEW d \in Options(c)
  PROVE  Comes(c, branch, d)
<1>1. PICK w : w = branch.weights /\ w \in [Hypotheses -> Nat] OBVIOUS
<1>2. PICK y : y = ActionOf(c, w, d) OBVIOUS
<1>3. FlCost(c) \in Int BY CostsAreWhole DEF Weighing
<1>4. Scale \in Nat /\ Entropy(w) \in Int /\ Entropy(w) >= 0
  BY <1>1, PlannerAssumption DEF EntropyIsWhole, EntropyVanishes
<1>5. PICK e : e = Scale * Entropy(w) /\ e \in Int /\ e >= 0
  <2>1. Scale * Entropy(w) \in Int /\ Scale * Entropy(w) >= 0 BY <1>4
  <2>2. QED BY <2>1
<1>6. CASE d = Stop
  <2>1. y = StopAction BY <1>2, <1>6 DEF ActionOf
  <2>2. y.candidate = Stop /\ y.gain = 0 /\ y.cost = 0 BY <2>1 DEF StopAction
  <2>3. y \in Continuations(c, w) BY <2>1 DEF Continuations
  <2>4. FinalEntropy(branch, d) = e BY <1>1, <1>5, <1>6 DEF FinalEntropy
  <2>5. Price(c, d) = FlCost(c) + 0 BY <1>6 DEF Price
  <2>6. e - y.gain = e BY <1>5, <2>2
  <2>7. QED BY <1>1, <1>2, <1>3, <1>5, <1>6, <2>2, <2>3, <2>4, <2>5, <2>6 DEF Comes
<1>7. CASE d # Stop
  <2>1. d \in Closers(c) /\ d \in Candidates /\ Effect(d, Done \cup {c}) = "completes_pair"
    BY <1>7 DEF Options, Closers
  <2>2. Design[d].group \in Groups BY <2>1, CompleterIsEligible
  <2>3. PICK sigma \in Sigmas : decision.snapshot[Design[d].group] = sigma BY <2>2 DEF Weighing
  <2>4. y = Score(d, Done \cup {c}, w, decision.snapshot) BY <1>2, <1>7 DEF ActionOf
  <2>5. y.candidate = d /\ y.gain = Gain(w, sigma) /\ y.cost = FlCost(d)
    BY <2>1, <2>3, <2>4 DEF Score
  <2>6. y \in Continuations(c, w) BY <2>1, <2>4 DEF Continuations
  <2>7. /\ FinalEntropy(branch, d) = Scale * Entropy(w) - Gain(w, sigma)
        /\ FinalEntropy(branch, d) \in Int /\ FinalEntropy(branch, d) >= 0
    BY <1>1, <1>7, <2>3, FinalIsEntropyLessGain
  <2>8. Price(c, d) = FlCost(c) + FlCost(d) BY <1>7 DEF Price
  <2>9. FlCost(d) \in Int BY <2>1, CostsAreWhole DEF Weighing
  <2>10. y.gain \in Int BY <1>1, <2>5, GainIsWhole
  <2>11. QED BY <1>1, <1>2, <1>3, <2>5, <2>6, <2>7, <2>8, <2>9, <2>10 DEF Comes
<1>8. QED BY <1>6, <1>7

(* A branch of a plan goes on with the best of its options.                *)
PlanOf(c) == PlanFirst(c, Feasible, Done, weights, RemainingBudget, decision.snapshot)
BranchOf(c, branch) == PlanBranch(c, Feasible, Done, branch, RemainingBudget, decision.snapshot)
GoesOn(c, branch) ==
  LET x == BranchOf(c, branch)
      price(d) == Total(branch.weights) * Price(c, d)
  IN  /\ x.bin = branch.bin /\ x.second \in Options(c)
      /\ x.entropy = FinalEntropy(branch, x.second) /\ x.mass * x.cost = price(x.second)
      /\ \A d \in Options(c) :
           /\ FinalEntropy(branch, d) \in Int /\ price(d) \in Int
           /\ x.entropy <= FinalEntropy(branch, d)
           /\ x.entropy = FinalEntropy(branch, d) => x.mass * x.cost <= price(d)

LEMMA BranchesGoOn ==
  ASSUME EntropyIsWhole, EntropyVanishes, TwoCostsAreAbsorbed, Weighing,
         NEW c \in Candidates, NEW branch, branch.weights \in [Hypotheses -> Nat]
  PROVE  GoesOn(c, branch)
<1>1. PICK w : w = branch.weights /\ w \in [Hypotheses -> Nat] OBVIOUS
<1>2. PICK S : S = Continuations(c, w) OBVIOUS
<1>3. PICK y : y = BestOf(S) OBVIOUS
<1>4. Picks(S, y)
  <2>1. Feasible \in SUBSET Candidates /\ arm \in ArmIds /\ decision.snapshot \in [Groups -> Sigmas]
    BY DEF Feasible, Weighing
  <2>2. PICK T : T = SecondActions(Feasible, Done \cup {c}, w, RemainingBudget - FlCost(c), decision.snapshot)
    OBVIOUS
  <2>3. Picks(T, BestOf(T)) BY <1>1, <2>1, <2>2, SecondIsBest
  <2>4. T = S BY <1>2, <2>2, SecondActionsAreClosers
  <2>5. QED BY <1>3, <2>3, <2>4
<1> DEFINE x == BranchOf(c, branch)
<1>5. /\ x.bin = branch.bin /\ x.second = y.candidate /\ x.mass = Total(w) /\ x.cost = FlCost(c) + y.cost
      /\ x.entropy = IF Scale * Entropy(w) - y.gain > 0 THEN Scale * Entropy(w) - y.gain ELSE 0
  <2>1. SecondActions(Feasible, Done \cup {c}, branch.weights, RemainingBudget - FlCost(c), decision.snapshot) = S
    BY <1>1, <1>2, SecondActionsAreClosers
  <2>2. y = BestOf(SecondActions(Feasible, Done \cup {c}, branch.weights, RemainingBudget - FlCost(c),
                                 decision.snapshot))
    BY <1>3, <2>1
  <2>3. QED BY <1>1, <2>2 DEF BranchOf, PlanBranch
<1> HIDE DEF x
<1>6. \A d \in Options(c) : Comes(c, branch, d) BY <1>1, OptionsAreWorth
<1>7. PICK d \in Options(c) : y = ActionOf(c, w, d)
  <2>1. y \in Continuations(c, w) BY <1>2, <1>4 DEF Picks
  <2>2. CASE y = StopAction BY <2>2 DEF ActionOf, Options
  <2>3. CASE y # StopAction
    <3>1. PICK d \in Closers(c) : y = Score(d, Done \cup {c}, w, decision.snapshot)
      BY <2>1, <2>3 DEF Continuations
    <3>2. d # Stop BY CostsAreWhole DEF Closers, Weighing
    <3>3. QED BY <3>1, <3>2 DEF ActionOf, Options
  <2>4. QED BY <2>2, <2>3
<1>8. /\ y.candidate = d /\ y.cost \in Int /\ y.gain \in Int
      /\ Price(c, d) = FlCost(c) + y.cost /\ FlCost(c) \in Int
      /\ FinalEntropy(branch, d) = Scale * Entropy(w) - y.gain
      /\ FinalEntropy(branch, d) \in Int /\ FinalEntropy(branch, d) >= 0
  BY <1>1, <1>6, <1>7 DEF Comes
<1>9. x.second = d /\ x.entropy = FinalEntropy(branch, d) /\ x.mass * x.cost = Total(w) * Price(c, d)
  BY <1>5, <1>8
<1>10. Total(w) \in Nat BY <1>1, TotalIsWhole
<1>11. PICK e : e = Scale * Entropy(w) /\ e \in Int
  BY <1>1, PlannerAssumption DEF EntropyIsWhole
<1>12. ASSUME NEW n \in Options(c)
       PROVE  /\ FinalEntropy(branch, n) \in Int /\ Total(w) * Price(c, n) \in Int
              /\ x.entropy <= FinalEntropy(branch, n)
              /\ x.entropy = FinalEntropy(branch, n) => x.mass * x.cost <= Total(w) * Price(c, n)
  <2>1. PICK z : z = ActionOf(c, w, n) OBVIOUS
  <2>2. /\ z \in S /\ z.cost \in Int /\ z.gain \in Int
        /\ Price(c, n) = FlCost(c) + z.cost /\ FinalEntropy(branch, n) = e - z.gain
        /\ FinalEntropy(branch, n) \in Int
    BY <1>1, <1>2, <1>6, <1>11, <2>1 DEF Comes
  <2>3. z = y \/ Better(y, z) BY <1>4, <2>2 DEF Picks, IsBest
  <2>4. y.gain > z.gain \/ (y.gain = z.gain /\ y.cost <= z.cost) BY <1>8, <2>2, <2>3 DEF Better
  <2>5. PICK p, q : p = Price(c, d) /\ q = Price(c, n) OBVIOUS
  <2>6. p \in Int /\ q \in Int /\ (y.cost <= z.cost => p <= q) BY <1>8, <2>2, <2>5
  <2>7. Total(w) * p \in Int /\ Total(w) * q \in Int /\ (p <= q => Total(w) * p <= Total(w) * q)
    <3>1. PICK k \in Nat : k = Total(w) BY <1>10
    <3>2. k * p \in Int /\ k * q \in Int /\ (p <= q => k * p <= k * q) BY <2>6, <3>1
    <3>3. QED BY <3>1, <3>2
  <2>8. x.entropy = e - y.gain BY <1>8, <1>9, <1>11
  <2>9. QED BY <1>8, <1>9, <1>11, <2>2, <2>4, <2>5, <2>6, <2>7, <2>8
<1>13. QED BY <1>1, <1>5, <1>7, <1>9, <1>12 DEF GoesOn, x
(* A strategy is worth two sums over the branches.                         *)
StrategySums(c, f, v, sum, total) ==
  LET F == FirstOf(c)
  IN  /\ Sums(F, [b \in F |-> FinalEntropy(b, f[b])], sum)
      /\ Sums(F, [b \in F |-> Total(b.weights) * Price(c, f[b])], total)
      /\ v.gain = Scale * Scale * Entropy(weights) - sum[F] /\ v.cost = total[F]
      /\ v.candidate = c

LEMMA StrategyIsSums ==
  ASSUME Weighing, NEW c \in Candidates, NEW f \in [FirstOf(c) -> Options(c)],
         \A b \in FirstOf(c) : FinalEntropy(b, f[b]) \in Int /\ Total(b.weights) * Price(c, f[b]) \in Int
  PROVE  \E sum, total : StrategySums(c, f, StrategyValue(c, f), sum, total)
<1>1. PICK F : F = FirstOf(c) OBVIOUS
<1> DEFINE e(b) == FinalEntropy(b, f[b])
           p(b) == Total(b.weights) * Price(c, f[b])
           g == [b \in F |-> e(b)]
           h == [b \in F |-> p(b)]
           Entropies(v) == v = [s \in SUBSET F |-> IF s = {} THEN 0
                              ELSE e(CHOOSE x \in s : TRUE) + v[s \ {CHOOSE x \in s : TRUE}]]
           Costs(v) == v = [s \in SUBSET F |-> IF s = {} THEN 0
                              ELSE p(CHOOSE x \in s : TRUE) + v[s \ {CHOOSE x \in s : TRUE}]]
<1>2. PICK sum : sum = CHOOSE v : Entropies(v) OBVIOUS
<1>3. PICK total : total = CHOOSE v : Costs(v) OBVIOUS
<1>4. MapThenSumSet(LAMBDA b : FinalEntropy(b, f[b]), F) = sum[F]
  BY <1>2 DEF MapThenSumSet, MapThenFoldSet
<1>5. MapThenSumSet(LAMBDA b : Total(b.weights) * Price(c, f[b]), F) = total[F]
  BY <1>3 DEF MapThenSumSet, MapThenFoldSet
<1> DEFINE v == StrategyValue(c, f)
<1>6. DOMAIN f = F BY <1>1
<1>7. /\ v.gain = Scale * Scale * Entropy(weights) - sum[F] /\ v.cost = total[F] /\ v.candidate = c
  BY <1>4, <1>5, <1>6 DEF StrategyValue
<1> HIDE DEF v
<1>8. IsFiniteSet(F) BY <1>1, BranchesAreTyped DEF FirstOf, Weighing
<1>9. \A b \in F : e(b) \in Int /\ p(b) \in Int BY <1>1
<1> HIDE DEF e, p
<1>10. g \in [F -> Int] /\ h \in [F -> Int] BY <1>9
<1>11. \A s \in SUBSET F : s # {} => (CHOOSE x \in s : TRUE) \in F OBVIOUS
<1>12. \A u : Entropies(u) <=> Sums(F, g, u)
  <2>1. \A s \in SUBSET F : s # {} => g[CHOOSE x \in s : TRUE] = e(CHOOSE x \in s : TRUE) BY <1>11
  <2>2. ASSUME NEW u PROVE Entropies(u) <=> Sums(F, g, u)
    <3> DEFINE l(s) == IF s = {} THEN 0 ELSE e(CHOOSE x \in s : TRUE) + u[s \ {CHOOSE x \in s : TRUE}]
               r(s) == IF s = {} THEN 0 ELSE g[CHOOSE x \in s : TRUE] + u[s \ {CHOOSE x \in s : TRUE}]
    <3> HIDE DEF g
    <3>1. \A s \in SUBSET F : l(s) = r(s) BY <2>1
    <3> HIDE DEF l, r
    <3>2. [s \in SUBSET F |-> l(s)] = [s \in SUBSET F |-> r(s)] BY <3>1
    <3>3. QED BY <3>2 DEF Sums, l, r
  <2>3. QED BY <2>2
<1>13. \A u : Costs(u) <=> Sums(F, h, u)
  <2>1. \A s \in SUBSET F : s # {} => h[CHOOSE x \in s : TRUE] = p(CHOOSE x \in s : TRUE) BY <1>11
  <2>2. ASSUME NEW u PROVE Costs(u) <=> Sums(F, h, u)
    <3> DEFINE l(s) == IF s = {} THEN 0 ELSE p(CHOOSE x \in s : TRUE) + u[s \ {CHOOSE x \in s : TRUE}]
               r(s) == IF s = {} THEN 0 ELSE h[CHOOSE x \in s : TRUE] + u[s \ {CHOOSE x \in s : TRUE}]
    <3> HIDE DEF h
    <3>1. \A s \in SUBSET F : l(s) = r(s) BY <2>1
    <3> HIDE DEF l, r
    <3>2. [s \in SUBSET F |-> l(s)] = [s \in SUBSET F |-> r(s)] BY <3>1
    <3>3. QED BY <3>2 DEF Sums, l, r
  <2>3. QED BY <2>2
<1> HIDE DEF g, h, Entropies, Costs
<1>14. Sums(F, g, sum)
  <2>1. \E u : Sums(F, g, u) BY <1>8, <1>10, SumIsDefined
  <2>2. QED BY <1>2, <1>12, <2>1
<1>15. Sums(F, h, total)
  <2>1. \E u : Sums(F, h, u) BY <1>8, <1>10, SumIsDefined
  <2>2. QED BY <1>3, <1>13, <2>1
<1>16. StrategySums(c, f, v, sum, total)
  BY <1>1, <1>7, <1>14, <1>15 DEF StrategySums, g, h, e, p
<1>17. QED BY <1>16 DEF v

(* The branches of a first experiment differ in their bins.                *)
LEMMA BranchesDiffer ==
  ASSUME Weighing, NEW c \in Candidates, NEW p \in FirstOf(c), NEW q \in FirstOf(c), p.bin = q.bin
  PROVE  p = q
<1>1. CASE Effect(c, Done) = "completes_pair"
  <2>1. PICK sigma : FirstOf(c) = Posteriors(weights, sigma) BY <1>1 DEF FirstOf, FirstBranches
  <2>2. PICK o \in Outcomes : p = [bin |-> o, weights |-> After(weights, sigma, o)]
    BY <2>1 DEF Posteriors
  <2>3. PICK u \in Outcomes : q = [bin |-> u, weights |-> After(weights, sigma, u)]
    BY <2>1 DEF Posteriors
  <2>4. QED BY <2>2, <2>3
<1>2. CASE Effect(c, Done) # "completes_pair"
  BY <1>2 DEF FirstOf, FirstBranches, NoEvidence
<1>3. QED BY <1>1, <1>2

(* No strategy that begins like a plan is better than the plan, and one is *)
(* as good.                                                                *)
Judged(c, plan) ==
  /\ plan.candidate = c /\ plan.gain \in Int /\ plan.cost \in Int
  /\ \A v \in StrategyValues(c) : /\ v.gain \in Int /\ v.cost \in Int /\ v.candidate = c
                                  /\ v.gain <= plan.gain
                                  /\ v.gain = plan.gain => plan.cost <= v.cost
  /\ \E v \in StrategyValues(c) : v.gain = plan.gain /\ v.cost = plan.cost

LEMMA PlansAreTheBestStrategies ==
  ASSUME EntropyIsWhole, EntropyVanishes, TwoCostsAreAbsorbed, Weighing, NEW c \in Candidates
  PROVE  Judged(c, PlanOf(c))
<1>1. PICK F : F = FirstOf(c) OBVIOUS
<1>2. IsFiniteSet(F) /\ \A b \in F : b.weights \in [Hypotheses -> Nat]
  BY <1>1, BranchesAreTyped DEF FirstOf, Weighing
<1>3. \A b \in F : GoesOn(c, b) BY <1>2, BranchesGoOn
<1> DEFINE x(b) == BranchOf(c, b)
<1>4. PICK B : B = {x(b) : b \in F} OBVIOUS
<1>5. \A b \in F : x(b).bin = b.bin BY <1>3 DEF GoesOn
<1>6. \A p, q \in F : p.bin = q.bin => p = q BY <1>1, BranchesDiffer
<1>7. B = Branches(c, Feasible, Done, weights, RemainingBudget, decision.snapshot)
  BY <1>1, <1>4 DEF Branches, FirstOf, BranchOf
<1>8. Feasible \in SUBSET Candidates /\ arm \in ArmIds /\ decision.snapshot \in [Groups -> Sigmas]
      /\ weights \in [Hypotheses -> Nat]
  BY DEF Feasible, Weighing
<1> DEFINE e == [y \in B |-> y.entropy]
           m == [y \in B |-> y.mass * y.cost]
<1>9. IsFiniteSet(B) /\ e \in [B -> Int] /\ m \in [B -> Int] BY <1>7, <1>8, BranchesAreWhole
<1>10. PICK plan : plan = PlanOf(c) OBVIOUS
<1>11. PICK sum, total : PlanSums(plan, B, weights, sum, total)
  BY <1>7, <1>8, <1>10, PlanIsSums DEF PlanOf
<1>12. /\ Sums(B, e, sum) /\ Sums(B, m, total)
       /\ plan.gain = Scale * Scale * Entropy(weights) - sum[B] /\ plan.cost = total[B]
  BY <1>11 DEF PlanSums
<1>13. plan.candidate = c BY <1>10, PlanIsOfItsCandidate DEF PlanOf
<1>14. PICK k \in Int : k = Scale * Scale * Entropy(weights)
  <2>1. Scale \in Int /\ Entropy(weights) \in Int BY <1>8, PlannerAssumption DEF EntropyIsWhole
  <2>2. Scale * Scale * Entropy(weights) \in Int BY <2>1
  <2>3. QED BY <2>2
<1> HIDE DEF x
<1> DEFINE back == [y \in B |-> CHOOSE b \in F : y = x(b)]
<1>15. \A y \in B : back[y] \in F /\ y = x(back[y])
  <2>1. ASSUME NEW y \in B PROVE back[y] \in F /\ y = x(back[y])
    <3>1. \E b \in F : y = x(b) BY <1>4
    <3>2. QED BY <3>1
  <2>2. QED BY <2>1
<1>16. back \in [B -> F] /\ \A y, z \in B : back[y] = back[z] => y = z
  <2>1. back \in [B -> F] BY <1>15
  <2> HIDE DEF back
  <2>2. QED BY <1>15, <2>1
<1>17. \A b \in F : \E y \in B : back[y] = b
  <2>1. ASSUME NEW b \in F PROVE back[x(b)] = b
    <3>1. x(b) \in B BY <1>4
    <3>2. back[x(b)] \in F /\ x(b) = x(back[x(b)]) BY <1>15, <3>1
    <3>3. QED BY <1>5, <1>6, <3>2
  <2>2. QED BY <1>4, <2>1
<1> HIDE DEF back
<1>18. ASSUME NEW f \in [F -> Options(c)]
       PROVE  LET v == StrategyValue(c, f)
              IN  /\ v.gain \in Int /\ v.cost \in Int /\ v.candidate = c
                  /\ plan.gain \in Int /\ plan.cost \in Int /\ v.gain <= plan.gain
                  /\ v.gain = plan.gain => plan.cost <= v.cost
                  /\ (\A b \in F : f[b] = x(b).second) => v.gain = plan.gain /\ v.cost = plan.cost
  <2> DEFINE g == [b \in F |-> FinalEntropy(b, f[b])]
             h == [b \in F |-> Total(b.weights) * Price(c, f[b])]
  <2>1. \A b \in F : f[b] \in Options(c) OBVIOUS
  <2>2. ASSUME NEW b \in F
        PROVE  /\ FinalEntropy(b, f[b]) \in Int /\ Total(b.weights) * Price(c, f[b]) \in Int
               /\ x(b).entropy <= FinalEntropy(b, f[b])
               /\ x(b).entropy = FinalEntropy(b, f[b]) =>
                    x(b).mass * x(b).cost <= Total(b.weights) * Price(c, f[b])
               /\ f[b] = x(b).second =>
                    /\ x(b).entropy = FinalEntropy(b, f[b])
                    /\ x(b).mass * x(b).cost = Total(b.weights) * Price(c, f[b])
    BY <1>3, <2>1 DEF GoesOn, x
  <2>3. PICK v : v = StrategyValue(c, f) OBVIOUS
  <2>4. PICK u, w : StrategySums(c, f, v, u, w) BY <1>1, <2>2, <2>3, StrategyIsSums
  <2>5. /\ Sums(F, g, u) /\ Sums(F, h, w) /\ v.candidate = c
        /\ v.gain = Scale * Scale * Entropy(weights) - u[F] /\ v.cost = w[F]
    BY <1>1, <2>4 DEF StrategySums
  <2>6. g \in [F -> Int] /\ h \in [F -> Int] BY <2>2
  <2>7. \A y \in B : /\ e[y] = y.entropy /\ m[y] = y.mass * y.cost
                     /\ g[back[y]] = FinalEntropy(back[y], f[back[y]])
                     /\ h[back[y]] = Total(back[y].weights) * Price(c, f[back[y]])
    BY <1>15
  <2> HIDE DEF e, m, g, h
  <2>8. \A y \in B : e[y] <= g[back[y]] /\ (e[y] = g[back[y]] => m[y] <= h[back[y]])
    BY <1>15, <2>2, <2>7
  <2>9. (\A b \in F : f[b] = x(b).second) => \A y \in B : e[y] = g[back[y]] /\ m[y] = h[back[y]]
    BY <1>15, <2>2, <2>7
  <2>10. /\ sum[B] \in Int /\ u[F] \in Int /\ sum[B] <= u[F]
         /\ sum[B] = u[F] <=> \A y \in B : e[y] = g[back[y]]
    <3>1. \A b \in F : (\E y \in B : back[y] = b) \/ g[b] = 0 BY <1>17
    <3>2. \A y \in B : e[y] <= g[back[y]] BY <2>8
    <3>3. Outweighs(F, g, u, B, e, sum, back)
      BY <1>2, <1>9, <1>12, <1>16, <2>5, <2>6, <3>1, <3>2, SumsCompare
    <3>4. QED BY <3>3 DEF Outweighs
  <2>11. total[B] \in Int /\ w[F] \in Int BY <1>2, <1>9, <1>12, <2>5, <2>6, SumIsWhole
  <2>12. ASSUME \A y \in B : m[y] <= h[back[y]]
         PROVE  total[B] <= w[F] /\ (total[B] = w[F] <=> \A y \in B : m[y] = h[back[y]])
    <3>1. \A b \in F : (\E y \in B : back[y] = b) \/ h[b] = 0 BY <1>17
    <3>2. Outweighs(F, h, w, B, m, total, back)
      BY <1>2, <1>9, <1>12, <1>16, <2>5, <2>6, <2>12, <3>1, SumsCompare
    <3>3. QED BY <3>2 DEF Outweighs
  <2>13. plan.gain = k - sum[B] /\ v.gain = k - u[F] /\ plan.cost = total[B] /\ v.cost = w[F]
    BY <1>12, <1>14, <2>5
  <2>14. v.gain \in Int /\ v.cost \in Int /\ plan.gain \in Int /\ plan.cost \in Int
         /\ v.gain <= plan.gain /\ (v.gain = plan.gain <=> sum[B] = u[F])
    BY <1>14, <2>10, <2>11, <2>13
  <2>15. v.gain = plan.gain => plan.cost <= v.cost BY <2>8, <2>10, <2>12, <2>13, <2>14
  <2>16. (\A b \in F : f[b] = x(b).second) => v.gain = plan.gain /\ v.cost = plan.cost
    <3>1. SUFFICES ASSUME \A b \in F : f[b] = x(b).second PROVE v.gain = plan.gain /\ v.cost = plan.cost
      OBVIOUS
    <3>2. \A y \in B : e[y] = g[back[y]] /\ m[y] = h[back[y]] BY <2>9, <3>1
    <3>3. sum[B] = u[F] BY <2>10, <3>2
    <3>4. \A y \in B : m[y] <= h[back[y]] BY <2>8, <3>2
    <3>5. total[B] = w[F] BY <2>12, <3>2, <3>4
    <3>6. QED BY <2>13, <3>3, <3>5
  <2>17. QED BY <2>3, <2>5, <2>14, <2>15, <2>16
<1>19. StrategyValues(c) = {StrategyValue(c, f) : f \in [F -> Options(c)]}
  BY <1>1 DEF StrategyValues, Options
<1>20. PICK f : f = [b \in F |-> x(b).second] OBVIOUS
<1>21. f \in [F -> Options(c)] /\ \A b \in F : f[b] = x(b).second
  BY <1>3, <1>20 DEF GoesOn, x
<1>22. StrategyValue(c, f) \in StrategyValues(c) BY <1>19, <1>21
<1>23. /\ plan.gain \in Int /\ plan.cost \in Int
       /\ StrategyValue(c, f).gain = plan.gain /\ StrategyValue(c, f).cost = plan.cost
  BY <1>18, <1>21
<1>24. \A v \in StrategyValues(c) : /\ v.gain \in Int /\ v.cost \in Int /\ v.candidate = c
                                    /\ v.gain <= plan.gain
                                    /\ v.gain = plan.gain => plan.cost <= v.cost
  BY <1>18, <1>19
<1>25. QED BY <1>10, <1>13, <1>22, <1>23, <1>24 DEF Judged
-----------------------------------------------------------------------------
(* What a plan is worth at least, and what an opener counts on.            *)

LEMMA SingleSum ==
  ASSUME NEW b, NEW f \in [{b} -> Int], NEW sum, Sums({b}, f, sum)
  PROVE  sum[{b}] = f[b]
<1>1. IsFiniteSet({b}) BY FS_Singleton
<1>2. Additive({b}, f, sum) BY <1>1, SumRemoves
<1>3. {b} \in SUBSET {b} /\ b \in {b} /\ {b} \ {b} = {} /\ {} \in SUBSET {b} OBVIOUS
<1>4. sum[{b}] = f[b] + sum[{}] /\ sum[{}] = 0 /\ f[b] \in Int BY <1>2, <1>3 DEF Additive
<1>5. QED BY <1>4

(* What experiment c tells by itself.                                      *)
Tells(c) ==
  IF Effect(c, Done) = "completes_pair" THEN Scale * Gain(weights, decision.snapshot[Design[c].group])
  ELSE 0

LEMMA NoEvidenceIsOneBranch ==
  ASSUME NEW c, Effect(c, Done) # "completes_pair"
  PROVE  FirstOf(c) = {[bin |-> None, weights |-> Enlarged(weights)]}
BY DEF FirstOf, FirstBranches, NoEvidence, Enlarged

LEMMA StoppingIsWorth ==
  ASSUME EntropyIsWhole, EntropyVanishes, EntropyIsConcave, TwoCostsAreAbsorbed, Weighing,
         NEW c \in Candidates
  PROVE  \E v \in StrategyValues(c) : v.gain = Tells(c)
<1>1. PICK F : F = FirstOf(c) OBVIOUS
<1>2. IsFiniteSet(F) /\ \A b \in F : b.weights \in [Hypotheses -> Nat]
  BY <1>1, BranchesAreTyped DEF FirstOf, Weighing
<1>3. PICK f : f = [b \in F |-> Stop] OBVIOUS
<1>4. Stop \in Options(c) BY DEF Options
<1>5. f \in [F -> Options(c)] /\ \A b \in F : f[b] = Stop BY <1>3, <1>4
<1>6. \A b \in F : FinalEntropy(b, f[b]) \in Int /\ Total(b.weights) * Price(c, f[b]) \in Int
  <2>1. ASSUME NEW b \in F
        PROVE FinalEntropy(b, f[b]) \in Int /\ Total(b.weights) * Price(c, f[b]) \in Int
    <3>1. GoesOn(c, b) BY <1>2, BranchesGoOn
    <3>2. QED BY <1>4, <1>5, <3>1 DEF GoesOn
  <2>2. QED BY <2>1
<1>7. PICK v : v = StrategyValue(c, f) OBVIOUS
<1>8. PICK sum, total : StrategySums(c, f, v, sum, total) BY <1>1, <1>5, <1>6, <1>7, StrategyIsSums
<1> DEFINE g == [b \in F |-> FinalEntropy(b, f[b])]
<1>9. Sums(F, g, sum) /\ v.gain = Scale * Scale * Entropy(weights) - sum[F]
  BY <1>1, <1>8 DEF StrategySums
<1>10. g \in [F -> Int] /\ \A b \in F : g[b] = Scale * Entropy(b.weights)
  BY <1>5, <1>6 DEF FinalEntropy
<1> HIDE DEF g
<1>11. weights \in [Hypotheses -> Nat] BY DEF Weighing
<1>12. PICK k, e : k = Scale /\ e = Entropy(weights) OBVIOUS
<1>13. k \in Int /\ e \in Int BY <1>11, <1>12, PlannerAssumption DEF EntropyIsWhole
<1>14. PICK p : p = k * e OBVIOUS
<1>15. p \in Int /\ Scale * Entropy(weights) = p BY <1>12, <1>13, <1>14
<1>16. Scale * Scale * Entropy(weights) = k * p
  <2>1. k * k * e = k * (k * e) BY <1>13
  <2>2. QED BY <1>12, <1>14, <2>1
<1>17. v.gain = k * p - sum[F] BY <1>9, <1>16
<1>18. v.gain = Tells(c)
  <2>1. CASE Effect(c, Done) = "completes_pair"
    <3>1. Design[c].group \in Groups BY <2>1, CompleterIsEligible
    <3>2. PICK sigma \in Sigmas : sigma = decision.snapshot[Design[c].group] BY <3>1 DEF Weighing
    <3>3. F = Posteriors(weights, sigma) BY <1>1, <2>1, <3>2 DEF FirstOf, FirstBranches
    <3>4. PICK s : GainSums(weights, sigma, s) BY <1>11, GainIsSum
    <3> DEFINE q == [b \in F |-> Entropy(b.weights)]
    <3>5. Sums(F, q, s) /\ Gain(weights, sigma) = p - s[F]
      BY <1>15, <3>3, <3>4 DEF GainSums
    <3>6. q \in [F -> Int] /\ \A b \in F : g[b] = k * q[b]
      BY <1>2, <1>10, <1>12 DEF EntropyIsWhole
    <3> HIDE DEF q
    <3>7. Multiplies(k, F, s, sum) BY <1>2, <1>9, <1>10, <1>13, <3>5, <3>6, SumsScale
    <3>8. sum[F] = k * s[F] BY <3>7 DEF Multiplies
    <3>9. s[F] \in Int BY <1>2, <3>5, <3>6, SumIsWhole
    <3>10. PICK t \in Int : t = s[F] BY <3>9
    <3>11. v.gain = k * p - k * t /\ Gain(weights, sigma) = p - t BY <1>17, <3>5, <3>8, <3>10
    <3>12. k * p - k * t = k * (p - t) BY <1>13, <1>15, <3>10
    <3>13. v.gain = Scale * Gain(weights, sigma) BY <1>12, <3>11, <3>12
    <3>14. QED BY <2>1, <3>2, <3>13 DEF Tells
  <2>2. CASE Effect(c, Done) # "completes_pair"
    <3>1. PICK b : b = [bin |-> None, weights |-> Enlarged(weights)] OBVIOUS
    <3>2. F = {b} /\ b.weights = Enlarged(weights) BY <1>1, <2>2, <3>1, NoEvidenceIsOneBranch
    <3>3. sum[F] = g[b] BY <1>9, <1>10, <3>2, SingleSum
    <3>4. Entropy(Enlarged(weights)) = p
      BY <1>11, <1>15, EnlargedIsTyped DEF EntropyIsConcave
    <3>5. sum[F] = k * p BY <1>10, <1>12, <3>2, <3>3, <3>4
    <3>6. k * p \in Int BY <1>13, <1>15
    <3>7. v.gain = 0 BY <1>17, <3>5, <3>6
    <3>8. QED BY <2>2, <3>7 DEF Tells
  <2>3. QED BY <2>1, <2>2
<1>19. v \in StrategyValues(c) BY <1>1, <1>5, <1>7 DEF StrategyValues, Options
<1>20. QED BY <1>18, <1>19

(* A feasible experiment has a sound plan, worth at least what the         *)
(* experiment tells.                                                       *)
LEMMA PlansAreSound ==
  ASSUME EntropyIsWhole, EntropyVanishes, EntropyIsConcave, TwoCostsAreAbsorbed, Weighing,
         NEW c \in Feasible
  PROVE  /\ PlanOf(c).gain \in Int /\ PlanOf(c).gain >= Tells(c) /\ Tells(c) \in Int
         /\ PlanOf(c).gain >= 0 /\ PlanOf(c).affordable
<1>1. c \in Candidates /\ FitsRoughly(FlCost(c), RemainingBudget) BY DEF Feasible
<1>2. PICK plan : plan = PlanOf(c) OBVIOUS
<1>3. Judged(c, plan) BY <1>1, <1>2, PlansAreTheBestStrategies
<1>4. PICK v \in StrategyValues(c) : v.gain = Tells(c) BY <1>1, StoppingIsWorth
<1>5. plan.gain \in Int /\ v.gain \in Int /\ v.gain <= plan.gain BY <1>3 DEF Judged
<1>6. Tells(c) \in Int /\ Tells(c) >= 0
  <2>1. CASE Effect(c, Done) = "completes_pair"
    <3>1. Design[c].group \in Groups BY <1>1, <2>1, CompleterIsEligible
    <3>2. PICK sigma \in Sigmas : sigma = decision.snapshot[Design[c].group] BY <3>1 DEF Weighing
    <3>3. PICK n : n = Gain(weights, sigma) OBVIOUS
    <3>4. n \in Int /\ n >= 0 BY <3>3, GainIsNotNegative DEF Weighing
    <3>5. PICK k \in Nat : k = Scale BY PlannerAssumption
    <3>6. k * n \in Int /\ k * n >= 0 BY <3>4, <3>5
    <3>7. Tells(c) = k * n BY <2>1, <3>2, <3>3, <3>5 DEF Tells
    <3>8. QED BY <3>6, <3>7
  <2>2. CASE Effect(c, Done) # "completes_pair" BY <2>2 DEF Tells
  <2>3. QED BY <2>1, <2>2
<1>7. plan.affordable
  <2>1. PICK B : B = Branches(c, Feasible, Done, weights, RemainingBudget, decision.snapshot) OBVIOUS
  <2>2. plan.affordable = \A b \in B : FitsRoughly(b.cost, RemainingBudget)
    BY <1>2, <2>1 DEF PlanOf, PlanFirst, Branches
  <2>3. ASSUME NEW b \in B PROVE FitsRoughly(b.cost, RemainingBudget)
    <3>1. PICK p \in FirstOf(c) : b = PlanBranch(c, Feasible, Done, p, RemainingBudget, decision.snapshot)
      BY <2>1 DEF Branches, FirstOf
    <3>2. p.weights \in [Hypotheses -> Nat] BY <1>1, BranchesAreTyped DEF FirstOf, Weighing
    <3>3. PICK S : S = SecondActions(Feasible, Done \cup {c}, p.weights, RemainingBudget - FlCost(c),
                                     decision.snapshot)
      OBVIOUS
    <3>4. Feasible \in SUBSET Candidates /\ arm \in ArmIds /\ decision.snapshot \in [Groups -> Sigmas]
      BY DEF Feasible, Weighing
    <3>5. Picks(S, BestOf(S)) BY <3>2, <3>3, <3>4, SecondIsBest
    <3>6. PICK y \in S : y = BestOf(S) BY <3>5 DEF Picks
    <3>7. b.cost = FlCost(c) + y.cost BY <3>1, <3>3, <3>6 DEF PlanBranch
    <3>8. FlCost(c) \in Int /\ RemainingBudget \in Int /\ Tolerance \in Int
      <4>1. ArmSpec[arm].budget \in Nat /\ Grain \in Nat /\ spent \in 0 .. ArmSpec[arm].budget
        BY <3>4, PlannerAssumption, ClosedLoopAssumption DEF Weighing, Current
      <4>2. {RoundingError[Cost[c]], RoundingError[ArmSpec[arm].budget], RoundingError[spent]} \subseteq Int
        BY <1>1, <3>4, <4>1, ClosedLoopAssumption
      <4>3. Fl(ArmSpec[arm].budget) \in Int /\ Fl(spent) \in Int BY <4>1, <4>2 DEF Fl
      <4>4. QED BY <1>1, <3>4, <4>3, CostsAreWhole, PlannerAssumption DEF RemainingBudget, Current
    <3>9. CASE y = StopAction
      <4>1. y.cost = 0 BY <3>9 DEF StopAction
      <4>2. QED BY <1>1, <3>7, <3>8, <4>1 DEF FitsRoughly
    <3>10. CASE y # StopAction
      <4>1. PICK d \in Feasible : /\ y = Score(d, Done \cup {c}, p.weights, decision.snapshot)
                                  /\ FitsRoughly(FlCost(d), RemainingBudget - FlCost(c))
        BY <3>3, <3>10 DEF SecondActions
      <4>2. y.cost = FlCost(d) /\ FlCost(d) \in Int
        BY <3>4, <4>1, CostsAreWhole DEF Score
      <4>3. QED BY <3>7, <3>8, <4>1, <4>2 DEF FitsRoughly
    <3>11. QED BY <3>9, <3>10
  <2>4. QED BY <2>2, <2>3
<1>8. QED BY <1>2, <1>4, <1>5, <1>6, <1>7

(* An experiment that informs by itself nothing is chosen for the pair     *)
(* that it lets a second one complete, and for what that pair will tell.   *)
LEMMA OpenersCountOnAPair ==
  ASSUME EntropyIsWhole, EntropyVanishes, EntropyIsConcave, TwoCostsAreAbsorbed, Weighing,
         NEW c \in Candidates, Effect(c, Done) # "completes_pair", PlanOf(c).gain > 0
  PROVE  \E d \in Closers(c) :
           PlanOf(c).gain = Scale * Gain(weights, decision.snapshot[Design[d].group])
<1>1. PICK plan : plan = PlanOf(c) OBVIOUS
<1>2. Judged(c, plan) BY <1>1, PlansAreTheBestStrategies
<1>3. PICK v \in StrategyValues(c) : v.gain = plan.gain BY <1>2 DEF Judged
<1>4. PICK w : w = Enlarged(weights) OBVIOUS
<1>5. weights \in [Hypotheses -> Nat] /\ w \in [Hypotheses -> Nat] BY <1>4, EnlargedIsTyped DEF Weighing
<1>6. PICK b : b = [bin |-> None, weights |-> w] OBVIOUS
<1>7. FirstOf(c) = {b} /\ b.weights = w BY <1>4, <1>6, NoEvidenceIsOneBranch
<1>8. PICK f \in [{b} -> Options(c)] : v = StrategyValue(c, f)
  BY <1>3, <1>7 DEF StrategyValues, Options
<1>9. PICK d \in Options(c) : d = f[b] BY <1>8
<1>10. GoesOn(c, b) BY <1>5, <1>7, BranchesGoOn
<1>11. FinalEntropy(b, d) \in Int /\ Total(w) * Price(c, d) \in Int BY <1>7, <1>9, <1>10 DEF GoesOn
<1>12. \A x \in FirstOf(c) : FinalEntropy(x, f[x]) \in Int /\ Total(x.weights) * Price(c, f[x]) \in Int
  BY <1>7, <1>9, <1>11
<1>13. PICK sum, total : StrategySums(c, f, v, sum, total) BY <1>7, <1>8, <1>12, StrategyIsSums
<1> DEFINE g == [x \in {b} |-> FinalEntropy(x, f[x])]
<1>14. Sums({b}, g, sum) /\ v.gain = Scale * Scale * Entropy(weights) - sum[{b}]
  BY <1>7, <1>13 DEF StrategySums
<1>15. g \in [{b} -> Int] /\ g[b] = FinalEntropy(b, d) BY <1>9, <1>11
<1> HIDE DEF g
<1>16. sum[{b}] = FinalEntropy(b, d) BY <1>14, <1>15, SingleSum
<1>17. PICK k, e : k = Scale /\ e = Entropy(weights) OBVIOUS
<1>18. k \in Int /\ e \in Int BY <1>5, <1>17, PlannerAssumption DEF EntropyIsWhole
<1>19. PICK p : p = k * (k * e) OBVIOUS
<1>20. p \in Int /\ Scale * Scale * Entropy(weights) = p
  <2>1. k * k * e = k * (k * e) /\ k * e \in Int BY <1>18
  <2>2. k * (k * e) \in Int BY <1>18, <2>1
  <2>3. QED BY <1>17, <1>19, <2>1, <2>2
<1>21. Scale * Entropy(w) = p
  <2>1. Entropy(w) = Scale * Entropy(weights) BY <1>4, <1>5, EnlargedIsTyped DEF EntropyIsConcave
  <2>2. QED BY <1>17, <1>19, <2>1
<1>22. d # Stop
  <2>1. SUFFICES ASSUME d = Stop PROVE FALSE OBVIOUS
  <2>2. FinalEntropy(b, d) = p BY <1>7, <1>21, <2>1 DEF FinalEntropy
  <2>3. v.gain = 0 BY <1>14, <1>16, <1>20, <2>2
  <2>4. QED BY <1>1, <1>3, <2>3
<1>23. d \in Closers(c) /\ d \in Candidates /\ Effect(d, Done \cup {c}) = "completes_pair"
  BY <1>22 DEF Options, Closers
<1>24. Design[d].group \in Groups BY <1>23, CompleterIsEligible
<1>25. PICK sigma \in Sigmas : decision.snapshot[Design[d].group] = sigma BY <1>24 DEF Weighing
<1>26. FinalEntropy(b, d) = p - Gain(w, sigma)
  BY <1>5, <1>7, <1>21, <1>22, <1>25, FinalIsEntropyLessGain
<1>27. Gain(w, sigma) \in Int BY <1>5, GainIsWhole
<1>28. v.gain = Gain(w, sigma) BY <1>14, <1>16, <1>20, <1>26, <1>27
<1>29. Gain(w, sigma) = Scale * Gain(weights, sigma) BY <1>4, <1>5, GainIsProportional
<1>30. QED BY <1>1, <1>3, <1>23, <1>25, <1>28, <1>29
(* A decision is the best plan, until the experiment is made.              *)
Planned ==
  phase = "decided" =>
    \E best \in Ranking(Feasible, Snapshots) :
      IsBest(best, Ranking(Feasible, Snapshots)) /\ decision = DecisionTrace(best, Snapshots)

LEMMA QuietSnapshots ==
  ASSUME UNCHANGED <<arm, lineage, history>> PROVE Snapshots' = Snapshots
<1>1. arm' = arm /\ updates' = updates /\ history' = history /\ Current' = Current
  BY DEF lineage, Current
<1>2. \A g : Snapshot(g)' = Snapshot(g)
  BY <1>1 DEF Snapshot, EligibleEffects, NextSequence, Calibrate
<1>3. QED BY <1>2 DEF Snapshots

LEMMA QuietPlans ==
  ASSUME UNCHANGED <<arm, completed, spent, lineage, history>>
  PROVE  /\ Snapshots' = Snapshots /\ Feasible' = Feasible
         /\ Ranking(Feasible, Snapshots)' = Ranking(Feasible, Snapshots)
         /\ \A best : DecisionTrace(best, Snapshots)' = DecisionTrace(best, Snapshots)
<1>1. arm' = arm /\ completed' = completed /\ spent' = spent /\ weights' = weights
  BY DEF lineage
<1>2. /\ Done' = Done /\ Current' = Current /\ RemainingBudget' = RemainingBudget
  BY <1>1 DEF Done, Current, RemainingBudget
<1>4. Snapshots' = Snapshots BY QuietSnapshots
<1>5. Feasible' = Feasible BY <1>2 DEF Feasible
<1>6. \A s : Lookahead(Feasible, s)' = Lookahead(Feasible, s)
  BY <1>1, <1>2, <1>5 DEF Lookahead
<1>7. \A s : InformationGain(Feasible, s)' = InformationGain(Feasible, s)
  BY <1>1, <1>2, <1>5 DEF InformationGain
<1>8. Ranking(Feasible, Snapshots)' = Ranking(Feasible, Snapshots)
  BY <1>1, <1>2, <1>4, <1>5 DEF Ranking, Lookahead, InformationGain
<1>9. \A best : DecisionTrace(best, Snapshots)' = DecisionTrace(best, Snapshots)
  BY <1>1, <1>2, <1>4 DEF DecisionTrace
<1>10. QED BY <1>4, <1>5, <1>8, <1>9

LEMMA PlannedNext ==
  ASSUME Planned, [Next]_vars PROVE Planned'
<1>1. CASE Decide
  <2>1. SUFFICES ASSUME phase' = "decided"
                 PROVE  \E best \in Ranking(Feasible, Snapshots)' :
                          /\ IsBest(best, Ranking(Feasible, Snapshots)')
                          /\ decision' = DecisionTrace(best, Snapshots)'
    BY DEF Planned, IsBest, Better
  <2>2. UNCHANGED <<arm, completed, spent, lineage, history>> BY <1>1 DEF Decide
  <2>3. \E best \in Ranking(Feasible, Snapshots) :
          IsBest(best, Ranking(Feasible, Snapshots)) /\ decision' = DecisionTrace(best, Snapshots)
    BY <1>1, <2>1 DEF Decide
  <2>4. QED BY <2>2, <2>3, QuietPlans
<1>2. CASE UNCHANGED vars
  <2>1. UNCHANGED <<arm, completed, spent, lineage, history>> /\ UNCHANGED <<phase, decision>>
    BY <1>2 DEF vars
  <2>2. QED BY <2>1, QuietPlans DEF Planned, IsBest, Better
<1>3. CASE phase' # "decided" BY <1>3 DEF Planned
<1>4. ASSUME NEW a \in ArmIds, Start(a) PROVE phase' # "decided" BY <1>4 DEF Start
<1>5. Experiment => phase' # "decided" BY DEF Experiment
<1>6. Apply => phase' # "decided" BY DEF Apply
<1>7. Recompute => phase' # "decided" BY DEF Recompute
<1>8. Finish => phase' # "decided" BY DEF Finish
<1>9. Over => UNCHANGED vars BY DEF Over
<1>10. QED BY <1>1, <1>2, <1>3, <1>4, <1>5, <1>6, <1>7, <1>8, <1>9 DEF Next

LEMMA SnapshotsOccur ==
  ASSUME SigmasOccur PROVE Snapshots \in [Groups -> Sigmas]
<1>1. \A g : Snapshot(g) \in Sigmas BY SigmaIsTyped
<1>2. [g \in Groups |-> Snapshot(g)] \in [Groups -> Sigmas] BY <1>1
<1>3. \E s \in [Groups -> Sigmas] : \A g \in Groups : s[g] = Snapshot(g) BY <1>2
<1>4. QED BY <1>3 DEF Snapshots

(* An arm weighs experiments with the snapshot of its last decision as     *)
(* long as that is still the snapshot it would take.                       *)
LEMMA WeighingOccurs ==
  ASSUME SigmasOccur, Typed, Paid, phase \in {"loop", "decided"}, decision.snapshot = Snapshots
  PROVE  Weighing
<1>1. arm \in ArmIds /\ spent \in Nat /\ weights \in [Hypotheses -> Nat] BY DEF Typed
<1>2. Current.budget \in Nat /\ spent <= Current.budget
  BY <1>1, ClosedLoopAssumption DEF Paid, Current
<1>3. Done \subseteq Candidates BY DoneIsTyped
<1>4. spent \in 0 .. Current.budget BY <1>1, <1>2
<1>5. QED BY <1>1, <1>3, <1>4, SnapshotsOccur DEF Weighing

LEMMA PlannedIsBest ==
  ASSUME SigmasOccur, EntropyIsWhole, EntropyVanishes, TwoCostsAreAbsorbed, ExactCostsFit,
         Typed, Paid, Planned
  PROVE  PlanIsBest
<1>1. SUFFICES ASSUME phase = "decided", Current.policy = "lookahead"
               PROVE  /\ \E v \in StrategyValues(decision.candidate) :
                           v.gain = decision.gain /\ v.cost = decision.cost
                      /\ \A c \in {c \in Candidates \ Done : Cost[c] <= Left} :
                           Effect(c, Done) \in {"ineligible", "opens_pair", "completes_pair"} =>
                             \A v \in StrategyValues(c) : ~Better(v, decision)
  BY DEF PlanIsBest
<1>2. PICK plans : plans = Ranking(Feasible, Snapshots) OBVIOUS
<1>3. PICK best \in plans : IsBest(best, plans) /\ decision = DecisionTrace(best, Snapshots)
  BY <1>1, <1>2 DEF Planned
<1>4. /\ decision.candidate = best.candidate /\ decision.gain = best.gain /\ decision.cost = best.cost
      /\ decision.snapshot = Snapshots
  BY <1>3 DEF DecisionTrace
<1>5. Weighing BY <1>1, <1>4, WeighingOccurs
<1>6. plans = {PlanOf(c) : c \in Scorable(Feasible, Done, RemainingBudget)}
  BY <1>1, <1>2, <1>4 DEF Ranking, Lookahead, PlanOf
<1>7. \A c \in Candidates : Judged(c, PlanOf(c)) BY <1>5, PlansAreTheBestStrategies
<1>8. PICK b \in Scorable(Feasible, Done, RemainingBudget) : best = PlanOf(b) BY <1>6
<1>9. b \in Candidates BY <1>8 DEF Scorable, Feasible
<1>10. best.candidate = b /\ best.gain \in Int /\ best.cost \in Int
       /\ \E v \in StrategyValues(b) : v.gain = best.gain /\ v.cost = best.cost
  BY <1>7, <1>8, <1>9 DEF Judged
<1>11. ASSUME NEW c \in Candidates \ Done, Cost[c] <= Left,
              Effect(c, Done) \in {"ineligible", "opens_pair", "completes_pair"},
              NEW v \in StrategyValues(c)
       PROVE  ~Better(v, decision)
  <2>1. c \in Scorable(Feasible, Done, RemainingBudget)
    <3>1. arm \in ArmIds /\ spent \in 0 .. ArmSpec[arm].budget /\ Cost[c] <= ArmSpec[arm].budget - spent
          /\ RemainingBudget = Fl(ArmSpec[arm].budget) - Fl(spent)
      BY <1>5, <1>11 DEF Weighing, Left, Current, RemainingBudget
    <3>2. Fits(FlCost(c), RemainingBudget) BY <3>1 DEF ExactCostsFit, Fits
    <3>3. FitsRoughly(FlCost(c), RemainingBudget) BY <3>1, RoundingIsAbsorbed
    <3>4. QED BY <1>11, <3>2, <3>3 DEF Scorable, Feasible
  <2>2. PICK plan : plan = PlanOf(c) OBVIOUS
  <2>3. plan \in plans /\ (plan = best \/ Better(best, plan)) BY <1>3, <1>6, <2>1, <2>2 DEF IsBest
  <2>4. /\ plan.candidate = c /\ plan.gain \in Int /\ plan.cost \in Int
        /\ v.gain \in Int /\ v.cost \in Int /\ v.candidate = c
        /\ v.gain <= plan.gain /\ (v.gain = plan.gain => plan.cost <= v.cost)
    BY <1>7, <2>2 DEF Judged
  <2>5. b \in Nat /\ c \in Nat BY <1>9, PlannerAssumption
  <2>6. \/ best.gain > plan.gain
        \/ best.gain = plan.gain /\ best.cost < plan.cost
        \/ best.gain = plan.gain /\ best.cost = plan.cost /\ b <= c
    BY <1>10, <2>3, <2>4, <2>5 DEF Better
  <2>7. ASSUME Better(v, decision) PROVE FALSE
    <3>1. \/ v.gain > best.gain
          \/ v.gain = best.gain /\ v.cost < best.cost
          \/ v.gain = best.gain /\ v.cost = best.cost /\ c < b
      BY <1>4, <1>10, <2>4, <2>7 DEF Better
    <3>2. QED BY <1>10, <2>4, <2>5, <2>6, <3>1
  <2>8. QED BY <2>7
<1>12. QED BY <1>4, <1>10, <1>11

(* The first experiment of a lookahead decision begins the best of all     *)
(* two-step strategies within the budget, which some strategy delivers:    *)
(* deciding branch by branch loses nothing.                                *)
THEOREM DecisionsAreTheBestPlans ==
  ASSUME SigmasOccur, EntropyIsWhole, EntropyVanishes, TwoCostsAreAbsorbed, ExactCostsFit
  PROVE  Spec => []PlanIsBest
<1>1. Init => Planned BY DEF Init, Planned
<1>2. Planned /\ [Next]_vars => Planned' BY PlannedNext
<1>3. LoopInv /\ Planned => PlanIsBest BY PlannedIsBest DEF LoopInv
<1>4. QED BY <1>1, <1>2, <1>3, LoopKeeps, PTL DEF Spec
-----------------------------------------------------------------------------
(* A plan is kept: between the experiment that opens a pair and the next   *)
(* decision nothing is learnt, and the pair that the plan counts on can    *)
(* still be closed.                                                        *)
Counting ==
  /\ decision # None /\ Current.policy = "lookahead"
  /\ decision.effect # "completes_pair" /\ decision.gain > 0

Promises(d) ==
  /\ d \in Candidates \ Done /\ Effect(d, Done) = "completes_pair" /\ Cost[d] <= Left
  /\ decision.gain = Tells(d)

Kept ==
  phase \in {"observed", "loop"} /\ Counting =>
    /\ decision.snapshot = Snapshots
    /\ \A k \in Keys : Met(k) => k \in applied
    /\ \E d \in Candidates : Promises(d)

(* Only an experiment that completes a pair makes one.                     *)
LEMMA OpenersMeetNobody ==
  ASSUME NEW c \in Candidates \ Done, Effect(c, Done) \in {"ineligible", "opens_pair"},
         Done' = Done \cup {c}, NEW k, Met(k)'
  PROVE  Met(k)
<1>1. \A d, a : Member(d, k, a)' <=>
                  \/ Member(d, k, a)
                  \/ d = c /\ Design[c].eligible /\ Design[c].key = k /\ Design[c].arm = a
  BY DEF Member
<1>2. CASE ~(Design[c].eligible /\ Design[c].key = k)
  <2>1. \A d, a : Member(d, k, a)' <=> Member(d, k, a) BY <1>1, <1>2
  <2>2. QED BY <2>1 DEF Met, Member
<1>3. CASE Design[c].eligible /\ Design[c].key = k
  <2>1. SUFFICES ASSUME TRUE PROVE FALSE OBVIOUS
  <2>2. PICK b \in Arms : b # Design[c].arm BY DEF Arms
  <2>3. PICK d \in Done' : Member(d, k, b)' BY <2>2 DEF Met
  <2>4. Member(d, k, b) BY <1>1, <2>2, <2>3
  <2> DEFINE related == {e \in Done : SameComparison(c, e)}
             arms == {Design[e].arm : e \in related}
  <2>5. d \in related BY <1>3, <2>4 DEF Member, SameComparison
  <2>6. related # {} BY <2>5
  <2>7. Effect(c, Done) = IF arms = Arms THEN "already_completed_pair"
                          ELSE IF Design[c].arm \in arms THEN "duplicate_arm"
                          ELSE IF Cardinality(related) > 1 THEN "ambiguous_counterpart"
                          ELSE IF related # {} THEN "completes_pair"
                          ELSE "opens_pair"
    BY <1>3 DEF Effect
  <2> HIDE DEF related, arms
  <2>8. QED BY <2>6, <2>7
<1>4. QED BY <1>2, <1>3

LEMMA KeptExperiment ==
  ASSUME SigmasOccur, EntropyIsWhole, EntropyVanishes, EntropyIsConcave, TwoCostsAreAbsorbed,
         Typed, Paired, Paid, Planned, Experiment
  PROVE  Kept'
<1>1. SUFFICES ASSUME phase' \in {"observed", "loop"}, Counting' PROVE
               /\ decision'.snapshot = Snapshots'
               /\ \A k \in Keys : Met(k)' => k \in applied'
               /\ \E d \in Candidates : Promises(d)'
  BY DEF Kept
<1>2. /\ phase = "decided" /\ UNCHANGED <<arm, lineage, history, applied, decision>>
      /\ weights' = weights /\ Current' = Current
  BY DEF Experiment, lineage, Current
<1>3. Snapshots' = Snapshots BY <1>2, QuietSnapshots
<1>4. /\ Current.policy = "lookahead" /\ decision.effect # "completes_pair" /\ decision.gain > 0
  BY <1>1, <1>2 DEF Counting
<1>5. PICK c : c = decision.candidate OBVIOUS
<1>6. /\ Chosen(c) /\ Done' = Done \cup {c} /\ spent' = spent + Cost[c]
  BY <1>1, <1>5, ExperimentGrows
<1>7. PICK best \in Ranking(Feasible, Snapshots) : decision = DecisionTrace(best, Snapshots)
  BY <1>2 DEF Planned
<1>8. /\ c = best.candidate /\ decision.gain = best.gain /\ decision.snapshot = Snapshots
      /\ decision.effect = Effect(c, Done)
  BY <1>5, <1>7 DEF DecisionTrace
<1>9. Weighing BY <1>2, <1>8, WeighingOccurs
<1>10. best = PlanOf(c)
  <2>1. PICK x \in Scorable(Feasible, Done, RemainingBudget) : best = PlanOf(x)
    BY <1>4, <1>7, <1>8 DEF Ranking, Lookahead, PlanOf
  <2>2. best.candidate = x BY <2>1, PlanIsOfItsCandidate DEF PlanOf
  <2>3. QED BY <1>8, <2>1, <2>2
<1>11. c \in Candidates \ Done /\ Effect(c, Done) \in {"ineligible", "opens_pair"}
  BY <1>4, <1>6, <1>8 DEF Chosen, Scored
<1>12. PICK d \in Closers(c) :
         PlanOf(c).gain = Scale * Gain(weights, decision.snapshot[Design[d].group])
  BY <1>4, <1>8, <1>9, <1>10, <1>11, OpenersCountOnAPair
<1>13. /\ d \in Candidates \ Done' /\ Effect(d, Done)' = "completes_pair"
       /\ Cost[c] + Cost[d] <= Left
  BY <1>6, <1>12 DEF Closers
<1>14. Cost[d] <= Left'
  <2>1. Cost[c] \in Nat /\ Cost[d] \in Nat BY <1>11, <1>13, PlannerAssumption
  <2>2. spent \in Nat /\ Current.budget \in Nat
    BY <1>2, ClosedLoopAssumption DEF Typed, Current
  <2>3. Left = Current.budget - spent /\ Left' = Current.budget - (spent + Cost[c])
    BY <1>2, <1>6 DEF Left
  <2>4. QED BY <1>13, <2>1, <2>2, <2>3
<1>15. Tells(d)' = Scale * Gain(weights, decision.snapshot[Design[d].group])
  BY <1>2, <1>13 DEF Tells
<1>16. Promises(d)'
  <2>1. decision'.gain = Tells(d)' BY <1>2, <1>8, <1>10, <1>12, <1>15
  <2>2. QED BY <1>13, <1>14, <2>1 DEF Promises
<1>17. ASSUME NEW k \in Keys, Met(k)' PROVE k \in applied'
  <2>1. Met(k) BY <1>6, <1>11, <1>17, OpenersMeetNobody
  <2>2. QED BY <1>2, <2>1 DEF Paired
<1>18. QED BY <1>2, <1>3, <1>8, <1>12, <1>16, <1>17 DEF Closers

LEMMA KeptStill ==
  ASSUME Kept, UNCHANGED <<arm, completed, spent, lineage, history, applied, decision>>,
         phase' \in {"observed", "loop"} => phase \in {"observed", "loop"}
  PROVE  Kept'
<1>1. /\ arm' = arm /\ completed' = completed /\ spent' = spent /\ weights' = weights
      /\ applied' = applied /\ decision' = decision
  BY DEF lineage
<1>2. Done' = Done /\ Current' = Current /\ Left' = Left BY <1>1 DEF Done, Current, Left
<1>3. Snapshots' = Snapshots BY QuietSnapshots
<1>4. \A k : Met(k)' <=> Met(k) BY <1>2 DEF Met, Member
<1>5. \A d : Promises(d)' <=> Promises(d) BY <1>1, <1>2 DEF Promises, Tells
<1>6. Counting' <=> Counting BY <1>1, <1>2 DEF Counting
<1>7. QED BY <1>1, <1>3, <1>4, <1>5, <1>6 DEF Kept

LEMMA KeptNext ==
  ASSUME SigmasOccur, EntropyIsWhole, EntropyVanishes, EntropyIsConcave, TwoCostsAreAbsorbed,
         Typed, Paired, Paid, Planned, Kept, [Next]_vars
  PROVE  Kept'
<1>1. ASSUME NEW a \in ArmIds, Start(a) PROVE Kept' BY <1>1 DEF Start, Kept, Counting
<1>2. CASE Decide BY <1>2 DEF Decide, Kept
<1>3. CASE Experiment BY <1>3, KeptExperiment
<1>4. CASE Apply
  <2>1. /\ phase = "observed" /\ Unapplied # {} /\ decision' = decision /\ arm' = arm
        /\ Current' = Current
    BY <1>4 DEF Apply, Current
  <2>2. PICK k : k \in Unapplied BY <2>1
  <2>3. k \in Keys /\ Met(k) /\ k \notin applied
    BY <2>2, DoneIsTyped, ValidPairsAreMet DEF Unapplied, Paired
  <2>4. ~Counting BY <2>1, <2>3 DEF Kept
  <2>5. ~Counting' BY <2>1, <2>4 DEF Counting
  <2>6. QED BY <2>5 DEF Kept
<1>5. CASE Recompute BY <1>5, KeptStill DEF Recompute
<1>6. CASE Finish BY <1>6 DEF Finish, Kept
<1>7. CASE UNCHANGED vars BY <1>7, KeptStill DEF vars
<1>8. CASE Over BY <1>7, <1>8 DEF Over
<1>9. QED BY <1>1, <1>2, <1>3, <1>4, <1>5, <1>6, <1>7, <1>8 DEF Next

(* The second decision of an arm whose model is fixed is the first again.  *)
LEMMA CanonicalIsFixed ==
  ASSUME SigmasOccur, Current.model = "fixed", Groups # {}
  PROVE  Canonical(Snapshots) = Snapshots
<1>1. Groups \in SUBSET Nat BY PlannerAssumption DEF Groups, EligibleCandidates
<1>2. \E g \in Groups : \A h \in Groups : g <= h BY <1>1, LeastElement
<1>3. PICK first : first = CHOOSE g \in Groups : \A h \in Groups : g <= h OBVIOUS
<1>4. first \in Groups BY <1>2, <1>3
<1>5. \A h \in Groups : Snapshots[h] = FixedSigma BY SnapshotsAreTaken DEF Snapshot
<1>6. Canonical(Snapshots) = CHOOSE s \in [Groups -> {FixedSigma}] : TRUE
  BY <1>3, <1>4, <1>5 DEF Canonical
<1>7. [h \in Groups |-> FixedSigma] \in [Groups -> {FixedSigma}] OBVIOUS
<1>8. Canonical(Snapshots) \in [Groups -> {FixedSigma}] BY <1>6, <1>7
<1>9. Snapshots \in [Groups -> Sigmas] BY SnapshotsOccur
<1>10. QED BY <1>5, <1>8, <1>9

LEMMA KeepsThePlan ==
  ASSUME SigmasOccur, EntropyIsWhole, EntropyVanishes, EntropyIsConcave,
         TwoCostsAreAbsorbed, ExactCostsFit,
         Typed, Paid, Kept, phase = "loop", Counting, Next, ~UNCHANGED vars
  PROVE  phase' = "decided" /\ decision'.gain >= decision.gain
<1>1. decision.snapshot = Snapshots BY DEF Kept
<1>2. Weighing BY <1>1, WeighingOccurs
<1>3. PICK d \in Candidates : Promises(d) BY DEF Kept
<1>4. /\ d \in Candidates \ Done /\ Effect(d, Done) = "completes_pair" /\ Cost[d] <= Left
      /\ decision.gain = Tells(d)
  BY <1>3 DEF Promises
<1>5. d \in Feasible /\ d \in Scorable(Feasible, Done, RemainingBudget)
  <2>1. arm \in ArmIds /\ spent \in 0 .. ArmSpec[arm].budget /\ Cost[d] <= ArmSpec[arm].budget - spent
        /\ RemainingBudget = Fl(ArmSpec[arm].budget) - Fl(spent)
    BY <1>2, <1>4 DEF Weighing, Left, Current, RemainingBudget
  <2>2. Fits(FlCost(d), RemainingBudget) BY <2>1 DEF ExactCostsFit, Fits
  <2>3. FitsRoughly(FlCost(d), RemainingBudget) BY <2>1, RoundingIsAbsorbed
  <2>4. QED BY <1>4, <2>2, <2>3 DEF Scorable, Feasible
<1>6. Decide
  <2>1. ~Finish BY <1>5 DEF Finish
  <2>2. \A a \in ArmIds : ~Start(a) BY DEF Start
  <2>3. ~Experiment /\ ~Apply /\ ~Recompute BY DEF Experiment, Apply, Recompute
  <2>4. ~Over BY DEF Over
  <2>5. QED BY <2>1, <2>2, <2>3, <2>4 DEF Next
<1>7. PICK plans : plans = Ranking(Feasible, Snapshots) OBVIOUS
<1>8. plans = {PlanOf(x) : x \in Scorable(Feasible, Done, RemainingBudget)}
  BY <1>1, <1>7 DEF Ranking, Lookahead, PlanOf, Counting
<1>9. \A x \in Scorable(Feasible, Done, RemainingBudget) : x \in Feasible BY DEF Scorable
<1>10. \A p \in plans : p.gain \in Int /\ p.gain >= 0 /\ p.affordable
  BY <1>2, <1>8, <1>9, PlansAreSound
<1>11. RegressionMatches(plans, Snapshots)
  <2>1. Groups # {} BY <1>4, CompleterIsEligible
  <2>2. Current.model = "fixed" => Canonical(Snapshots) = Snapshots BY <2>1, CanonicalIsFixed
  <2>3. QED BY <1>7, <2>2 DEF RegressionMatches, UnchangedRanking
<1>12. Decides(plans, Snapshots) BY <1>5, <1>8, <1>10, <1>11 DEF Decides
<1>13. /\ phase' = "decided"
       /\ \E best \in plans : IsBest(best, plans) /\ decision' = DecisionTrace(best, Snapshots)
  BY <1>6, <1>7, <1>12 DEF Decide
<1>14. PICK best \in plans : IsBest(best, plans) /\ decision' = DecisionTrace(best, Snapshots)
  BY <1>13
<1>15. decision'.gain = best.gain BY <1>14 DEF DecisionTrace
<1>16. PICK p \in plans : p = PlanOf(d) BY <1>5, <1>8
<1>17. p.gain >= Tells(d) /\ Tells(d) \in Int BY <1>2, <1>5, <1>16, PlansAreSound
<1>18. best.gain >= p.gain
  <2>1. p = best \/ Better(best, p) BY <1>14 DEF IsBest
  <2>2. best.gain \in Int /\ p.gain \in Int BY <1>10
  <2>3. QED BY <2>1, <2>2 DEF Better
<1>19. best.gain \in Int /\ p.gain \in Int BY <1>10
<1>20. QED BY <1>4, <1>13, <1>15, <1>17, <1>18, <1>19

(* After an experiment that opens a pair for the information the pair will *)
(* give, the arm goes on, and its next decision promises no less: nothing  *)
(* it has not observed can change its belief or its sigmas, what the pair  *)
(* costs is still there, and no check of the next decision fails.          *)
THEOREM PlansAreKept ==
  ASSUME SigmasOccur, EntropyIsWhole, EntropyVanishes, EntropyIsConcave,
         TwoCostsAreAbsorbed, ExactCostsFit
  PROVE  Spec => PlanIsKept
<1>1. Init => Planned /\ Kept BY DEF Init, Planned, Kept, Counting
<1>2. LoopInv /\ Planned /\ Kept /\ [Next]_vars => Planned' /\ Kept'
  BY PlannedNext, KeptNext DEF LoopInv
<1>3. LoopInv /\ Kept /\ [Next]_vars =>
        [phase = "loop" /\ decision # None =>
           (Current.policy = "lookahead" /\ decision.effect # "completes_pair" /\ decision.gain > 0
              => phase' = "decided" /\ decision'.gain >= decision.gain)]_vars
  <2>1. SUFFICES ASSUME LoopInv, Kept, [Next]_vars, ~UNCHANGED vars, phase = "loop", Counting
                 PROVE  phase' = "decided" /\ decision'.gain >= decision.gain
    BY DEF Counting
  <2>2. QED BY <2>1, KeepsThePlan DEF LoopInv
<1>4. QED BY <1>1, <1>2, <1>3, LoopKeeps, PTL DEF Spec, PlanIsKept

(* What these theorems suppose of the entropy can be had: the overlap of   *)
(* the hypotheses, which the runs use, is such an entropy.                 *)
Lesser(a, b) == IF a <= b THEN a ELSE b
Overlap(w) == Lesser(w.sgd, w.equal) + Lesser(w.sgd, w.adam) + Lesser(w.equal, w.adam)

LEMMA LesserScales ==
  ASSUME NEW a \in Nat, NEW b \in Nat, NEW k \in Nat PROVE Lesser(a * k, b * k) = k * Lesser(a, b)
<1>1. CASE a <= b
  <2>1. a * k <= b * k BY <1>1
  <2>2. Lesser(a, b) = a /\ Lesser(a * k, b * k) = a * k BY <1>1, <2>1 DEF Lesser
  <2>3. QED BY <2>2
<1>2. CASE b <= a
  <2>1. b * k <= a * k BY <1>2
  <2>2. Lesser(a, b) = b /\ Lesser(a * k, b * k) = b * k BY <1>2, <2>1 DEF Lesser
  <2>3. QED BY <2>2
<1>3. QED BY <1>1, <1>2

LEMMA OverlapIsAnEntropy ==
  ASSUME \A w \in [Hypotheses -> Nat] : Entropy(w) = Overlap(w)
  PROVE  EntropyIsWhole /\ EntropyVanishes /\ EntropyIsConcave
<1>1. ASSUME NEW w \in [Hypotheses -> Nat]
      PROVE  /\ w.sgd \in Nat /\ w.equal \in Nat /\ w.adam \in Nat
             /\ Overlap(w) \in Int /\ Overlap(w) >= 0 /\ (Total(w) = 0 => Overlap(w) = 0)
  <2>1. w.sgd \in Nat /\ w.equal \in Nat /\ w.adam \in Nat BY DEF Hypotheses
  <2>2. PICK a, b, c \in Nat : a = w.sgd /\ b = w.equal /\ c = w.adam BY <2>1
  <2>3. Overlap(w) = Lesser(a, b) + Lesser(a, c) + Lesser(b, c) /\ Total(w) = a + b + c
    BY <2>2 DEF Overlap, Total
  <2>4. \A x, y \in Nat : Lesser(x, y) \in Nat /\ Lesser(x, y) <= x BY DEF Lesser
  <2>5. PICK p, q, r \in Nat : /\ p = Lesser(a, b) /\ q = Lesser(a, c) /\ r = Lesser(b, c)
                               /\ p <= a /\ q <= a /\ r <= b
    BY <2>4
  <2>6. Overlap(w) = p + q + r BY <2>3, <2>5
  <2>7. QED BY <2>1, <2>3, <2>5, <2>6
<1>2. ASSUME NEW u \in [Hypotheses -> Nat], NEW v \in [Hypotheses -> Nat]
      PROVE  Entropy(u) + Entropy(v) <= Entropy([h \in Hypotheses |-> u[h] + v[h]])
  <2>1. PICK w : w = [h \in Hypotheses |-> u[h] + v[h]] OBVIOUS
  <2>2. w.sgd = u.sgd + v.sgd /\ w.equal = u.equal + v.equal /\ w.adam = u.adam + v.adam
        /\ w \in [Hypotheses -> Nat]
    BY <1>1, <2>1 DEF Hypotheses
  <2>3. \A a, b, c, d \in Nat : Lesser(a, b) + Lesser(c, d) <= Lesser(a + c, b + d) BY DEF Lesser
  <2>4. /\ Lesser(u.sgd, u.equal) + Lesser(v.sgd, v.equal) <= Lesser(w.sgd, w.equal)
        /\ Lesser(u.sgd, u.adam) + Lesser(v.sgd, v.adam) <= Lesser(w.sgd, w.adam)
        /\ Lesser(u.equal, u.adam) + Lesser(v.equal, v.adam) <= Lesser(w.equal, w.adam)
    BY <1>1, <2>2, <2>3
  <2>5. \A a, b \in Nat : Lesser(a, b) \in Nat BY DEF Lesser
  <2>6. Overlap(u) + Overlap(v) <= Overlap(w)
    <3>1. PICK i, j, k \in Nat : /\ i = Lesser(u.sgd, u.equal) /\ j = Lesser(u.sgd, u.adam)
                                 /\ k = Lesser(u.equal, u.adam)
      BY <1>1, <2>5
    <3>2. PICK l, m, n \in Nat : /\ l = Lesser(v.sgd, v.equal) /\ m = Lesser(v.sgd, v.adam)
                                 /\ n = Lesser(v.equal, v.adam)
      BY <1>1, <2>5
    <3>3. PICK p, q, r \in Nat : /\ p = Lesser(w.sgd, w.equal) /\ q = Lesser(w.sgd, w.adam)
                                 /\ r = Lesser(w.equal, w.adam)
      BY <1>1, <2>2, <2>5
    <3>4. i + l <= p /\ j + m <= q /\ k + n <= r BY <2>4, <3>1, <3>2, <3>3
    <3>5. Overlap(u) = i + j + k /\ Overlap(v) = l + m + n /\ Overlap(w) = p + q + r
      BY <3>1, <3>2, <3>3 DEF Overlap
    <3>6. QED BY <3>4, <3>5
  <2>7. QED BY <2>1, <2>2, <2>6
<1>3. ASSUME NEW w \in [Hypotheses -> Nat]
      PROVE  Entropy([h \in Hypotheses |-> w[h] * Scale]) = Scale * Entropy(w)
  <2>1. PICK k \in Nat : k = Scale BY PlannerAssumption
  <2>2. PICK x : x = [h \in Hypotheses |-> w[h] * k] OBVIOUS
  <2>3. /\ x.sgd = w.sgd * k /\ x.equal = w.equal * k /\ x.adam = w.adam * k
        /\ x \in [Hypotheses -> Nat]
    BY <1>1, <2>1, <2>2 DEF Hypotheses
  <2>4. PICK p, q, r \in Nat : /\ p = Lesser(w.sgd, w.equal) /\ q = Lesser(w.sgd, w.adam)
                               /\ r = Lesser(w.equal, w.adam)
    BY <1>1 DEF Lesser
  <2>5. /\ Lesser(x.sgd, x.equal) = k * p /\ Lesser(x.sgd, x.adam) = k * q
        /\ Lesser(x.equal, x.adam) = k * r
    <3>1. PICK a, b, c \in Nat : a = w.sgd /\ b = w.equal /\ c = w.adam BY <1>1
    <3>2. /\ Lesser(a * k, b * k) = k * Lesser(a, b) /\ Lesser(a * k, c * k) = k * Lesser(a, c)
          /\ Lesser(b * k, c * k) = k * Lesser(b, c)
      BY <2>1, LesserScales
    <3>3. QED BY <2>3, <2>4, <3>1, <3>2
  <2>6. Overlap(x) = k * p + k * q + k * r /\ Overlap(w) = p + q + r BY <2>4, <2>5 DEF Overlap
  <2>7. k * p + k * q + k * r = k * (p + q + r) BY <2>1, <2>4
  <2>8. QED BY <2>1, <2>2, <2>3, <2>6, <2>7
<1>4. QED BY <1>1, <1>2, <1>3 DEF EntropyIsWhole, EntropyVanishes, EntropyIsConcave
=============================================================================
