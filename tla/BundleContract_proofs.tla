------------------------- MODULE BundleContract_proofs -------------------------
(***************************************************************************)
(* What verification and replay promise of a document, for any RunSpecs,   *)
(* candidates, policies, observations and edits.                           *)
(***************************************************************************)
EXTENDS BundleContract, SequenceTheorems, FiniteSetTheorems, TLAPS

----------------------------------------------------------------------------
(* Running costs.                                                          *)

(* f[n] is the cumulative cost of the first n records.                     *)
Accumulates(records, f) ==
  f = [n \in 0 .. Len(records) |-> IF n = 0 THEN 0 ELSE FAdd(f[n - 1], records[n].cost)]

LEMMA LeastElement ==
  ASSUME NEW T \in SUBSET Nat, T # {}
  PROVE  \E x \in T : \A y \in T : x <= y
<1>1. PICK x \in T : \A y \in T : ~ (<<y, x>> \in OpToRel(<, Nat)) BY NatLessThanWellFounded, WFMin
<1>2. \A y \in T : y < x => <<y, x>> \in OpToRel(<, Nat) BY DEF OpToRel
<1>3. \A y \in T : ~ (y < x) BY <1>1, <1>2
<1>4. \A y \in T : x \in Nat /\ y \in Nat OBVIOUS
<1>5. QED BY <1>3, <1>4

LEMMA OneAccumulation ==
  ASSUME NEW records, Len(records) \in Nat, NEW f, NEW g,
         Accumulates(records, f), Accumulates(records, g)
  PROVE  f[Len(records)] = g[Len(records)]
<1> DEFINE Apart == {n \in 0 .. Len(records) : f[n] # g[n]}
<1>1. SUFFICES ASSUME Apart # {} PROVE FALSE OBVIOUS
<1>2. Apart \in SUBSET Nat OBVIOUS
<1>3. PICK m \in Apart : \A k \in Apart : m <= k BY <1>1, <1>2, LeastElement
<1>4. \A n \in 0 .. Len(records) :
        /\ f[n] = IF n = 0 THEN 0 ELSE FAdd(f[n - 1], records[n].cost)
        /\ g[n] = IF n = 0 THEN 0 ELSE FAdd(g[n - 1], records[n].cost)
  <2>1. f = [n \in 0 .. Len(records) |-> IF n = 0 THEN 0 ELSE FAdd(f[n - 1], records[n].cost)]
    BY DEF Accumulates
  <2>2. g = [n \in 0 .. Len(records) |-> IF n = 0 THEN 0 ELSE FAdd(g[n - 1], records[n].cost)]
    BY DEF Accumulates
  <2>3. ASSUME NEW n \in 0 .. Len(records)
        PROVE  f[n] = IF n = 0 THEN 0 ELSE FAdd(f[n - 1], records[n].cost)
    BY <2>1
  <2>4. ASSUME NEW n \in 0 .. Len(records)
        PROVE  g[n] = IF n = 0 THEN 0 ELSE FAdd(g[n - 1], records[n].cost)
    BY <2>2
  <2>5. QED BY <2>3, <2>4
<1>5. m \in 0 .. Len(records) /\ f[m] # g[m] OBVIOUS
<1>6. m # 0 BY <1>4, <1>5
<1>7. m - 1 \in 0 .. Len(records) /\ ~(m <= m - 1) BY <1>5, <1>6
<1>8. f[m - 1] = g[m - 1] BY <1>3, <1>7
<1>9. QED BY <1>4, <1>5, <1>6, <1>8

(* A running cost that is kept step by step is the running cost.           *)
LEMMA RunningCostIs ==
  ASSUME NEW records, Len(records) \in Nat, NEW f, Accumulates(records, f)
  PROVE  RunningCost(records) = f[Len(records)]
<1>1. PICK g : g = CHOOSE h : Accumulates(records, h) OBVIOUS
<1>2. Accumulates(records, g) BY <1>1
<1>3. RunningCost(records) = g[Len(records)] BY <1>1 DEF RunningCost, Accumulates
<1>4. QED BY <1>2, <1>3, OneAccumulation

(* The arithmetic of a run does not depend on its RunSpec.                 *)
LEMMA RunAdds ==
  ASSUME NEW p, NEW x, NEW n, NEW k
  PROVE  /\ \A a, b : Run(p, x, n, k)!FAdd(a, b) = FAdd(a, b)
         /\ \A a, b : Run(p, x, n, k)!FSub(a, b) = FSub(a, b)
<1>1. \A a : Run(p, x, n, k)!Ulp(a) = Ulp(a) BY DEF Run!Ulp, Ulp
<1>2. \A a : Run(p, x, n, k)!RoundMagnitude(a) = RoundMagnitude(a)
  BY <1>1 DEF Run!RoundMagnitude, RoundMagnitude
<1>3. \A a : Run(p, x, n, k)!Float(a) = Float(a) BY <1>2 DEF Run!Float, Float
<1>4. \A a, b : Run(p, x, n, k)!FAdd(a, b) = FAdd(a, b) BY <1>3 DEF Run!FAdd, FAdd
<1>5. \A a, b : Run(p, x, n, k)!FSub(a, b) = FSub(a, b) BY <1>3 DEF Run!FSub, FSub
<1>6. QED BY <1>4, <1>5

LEMMA RunSpends ==
  ASSUME NEW p, NEW x, NEW n, NEW k, NEW records
  PROVE  Run(p, x, n, k)!SpentCost(records) = SpentCost(records)
<1> DEFINE Ours(h) ==
      h = [i \in 0 .. Len(records) |->
            IF i = 0 THEN [total |-> 0, error |-> 0]
            ELSE Run(p, x, n, k)!Neumaier(h[i - 1], records[i].cost)]
    Theirs(h) ==
      h = [i \in 0 .. Len(records) |->
            IF i = 0 THEN [total |-> 0, error |-> 0] ELSE Neumaier(h[i - 1], records[i].cost)]
<1>1. \A a : Run(p, x, n, k)!AbsValue(a) = AbsValue(a) BY DEF Run!AbsValue, AbsValue
<1>2. \A a, c : Run(p, x, n, k)!Neumaier(a, c) = Neumaier(a, c)
  BY <1>1, RunAdds DEF Run!Neumaier, Neumaier
<1>3. \A h : Ours(h) <=> Theirs(h) BY <1>2
<1>4. PICK sum : sum = CHOOSE h : Theirs(h) OBVIOUS
<1>5. SpentCost(records) = FAdd(sum[Len(records)].total, sum[Len(records)].error)
  BY <1>4 DEF SpentCost
<1>6. PICK own : own = CHOOSE h : Ours(h) OBVIOUS
<1>7. Run(p, x, n, k)!SpentCost(records) =
        Run(p, x, n, k)!FAdd(own[Len(records)].total, own[Len(records)].error)
  BY <1>6 DEF Run!SpentCost
<1> HIDE DEF Ours, Theirs
<1>8. sum = own BY <1>3, <1>4, <1>6, Zenon
<1>9. QED BY <1>5, <1>7, <1>8, RunAdds

LEMMA RunAccumulates ==
  ASSUME NEW p, NEW x, NEW n, NEW k, NEW records, Len(records) \in Nat,
         NEW f, Accumulates(records, f)
  PROVE  Run(p, x, n, k)!RunningCost(records) = f[Len(records)]
<1> DEFINE Solves(h) ==
      h = [i \in 0 .. Len(records) |->
            IF i = 0 THEN 0 ELSE Run(p, x, n, k)!FAdd(h[i - 1], records[i].cost)]
<1>1. \A a, b : Run(p, x, n, k)!FAdd(a, b) = FAdd(a, b) BY RunAdds
<1>2. \A h : Solves(h) <=> Accumulates(records, h) BY <1>1 DEF Accumulates
<1>3. PICK g : g = CHOOSE h : Solves(h) OBVIOUS
<1>4. Run(p, x, n, k)!RunningCost(records) = g[Len(records)] BY <1>3 DEF Run!RunningCost
<1> HIDE DEF Solves
<1>5. Accumulates(records, g) BY <1>2, <1>3
<1>6. QED BY <1>4, <1>5, OneAccumulation

----------------------------------------------------------------------------
(* Steps and documents are records with these fields, whatever is in them. *)

HasFields(r, fields) == r = [f \in fields |-> r[f]]
StepFields ==
  {"index", "selected", "decision", "rationale", "observation", "lineage", "cumulative"}

(* What verification of a step comes down to, in every version.            *)
Sound(sp, earlier, previous, step) ==
  /\ step.observation \in Observation
  /\ ~Exhausted(sp, previous)
  /\ Selects(sp, earlier, step.observation.candidate)
  /\ step.cumulative = FAdd(previous, step.observation.cost) /\ ~Exceeded(sp, step.cumulative)
  /\ HasLineage(sp, earlier, step.observation)
  /\ step = Capture(sp, earlier, step.observation, previous)

LEMMA StepEquals ==
  ASSUME NEW sp, NEW earlier, NEW previous, NEW decision, NEW rationale, NEW step,
         HasFields(step, StepFields), step.index = Len(earlier),
         step.selected = step.observation.candidate,
         step.decision = decision, step.rationale = rationale,
         step.lineage = LineageFor(sp, earlier, step.observation),
         step.cumulative = FAdd(previous, step.observation.cost)
  PROVE  step = StepOf(sp, earlier, step.observation, previous, decision, rationale)
  BY DEF HasFields, StepFields, StepOf

LEMMA VersionsOf ==
  ASSUME NEW sp \in Specs
  PROVE  /\ sp.version \in Versions
         /\ sp.version = "v1" => sp.policy = "random"
         /\ sp.version = "v2" => sp.policy \in {"random", "greedy_prior"}
         /\ sp.version = "v3" => sp.policy \in {"random", "greedy_prior", "information_gain_table"}
<1>1. sp.version \in Versions /\ sp.policy \in PoliciesOf(sp.version) BY ContractAssumption
<1>2. sp.version = "v1" => PoliciesOf(sp.version) = {"random"} BY DEF PoliciesOf
<1>3. sp.version = "v2" => PoliciesOf(sp.version) = {"random", "greedy_prior"} BY DEF PoliciesOf
<1>4. sp.version = "v3" =>
        PoliciesOf(sp.version) = {"random", "greedy_prior", "information_gain_table"}
  BY DEF PoliciesOf
<1>5. QED BY <1>1, <1>2, <1>3, <1>4

LEMMA CaptureOf ==
  ASSUME NEW sp, NEW earlier, NEW rec, NEW previous
  PROVE  /\ sp.version = "v1" => Capture(sp, earlier, rec, previous) = CaptureV1(sp, earlier, rec, previous)
         /\ sp.version = "v2" => Capture(sp, earlier, rec, previous) = CaptureV2(sp, earlier, rec, previous)
         /\ sp.version = "v3" => Capture(sp, earlier, rec, previous) = CaptureV3(sp, earlier, rec, previous)
  BY DEF Capture

(* Without the information-gain policy there is no lineage to compute.     *)
LEMMA NoLineage ==
  ASSUME NEW sp, sp.policy # "information_gain_table", NEW earlier, NEW rec
  PROVE  HasLineage(sp, earlier, rec) /\ LineageFor(sp, earlier, rec) = <<>>
<1>1. HasLineage(sp, earlier, rec) BY DEF HasLineage, Run!HasLineage
<1>2. QED BY <1>1 DEF LineageFor

LEMMA SoundV1 ==
  ASSUME NEW sp \in Specs, sp.version = "v1", NEW earlier, NEW previous, NEW step,
         HasFields(step, StepFields), ValidStepV1(sp, earlier, previous, step, Len(earlier))
  PROVE  Sound(sp, earlier, previous, step)
<1>1. sp.policy = "random" BY VersionsOf
<1>2. HasLineage(sp, earlier, step.observation) /\ LineageFor(sp, earlier, step.observation) = <<>>
  BY <1>1, NoLineage
<1>3. /\ step.observation \in Observation /\ step.observation.candidate = step.selected
      /\ ~Exhausted(sp, previous) /\ Selects(sp, earlier, step.selected)
      /\ step.index = Len(earlier) /\ step.decision = DecisionV1(sp, step.selected)
      /\ step.rationale = RationaleV1(earlier) /\ step.lineage = <<>>
      /\ step.cumulative = FAdd(previous, step.observation.cost) /\ ~Exceeded(sp, step.cumulative)
  BY DEF ValidStepV1
<1>4. step = CaptureV1(sp, earlier, step.observation, previous)
  BY <1>2, <1>3, StepEquals DEF CaptureV1
<1>5. QED BY <1>2, <1>3, <1>4, CaptureOf DEF Sound

LEMMA SoundV2 ==
  ASSUME NEW sp \in Specs, sp.version = "v2", NEW earlier, NEW previous, NEW step,
         HasFields(step, StepFields), ValidStepV2(sp, earlier, previous, step, Len(earlier))
  PROVE  Sound(sp, earlier, previous, step)
<1>1. sp.policy \in {"random", "greedy_prior"} BY VersionsOf
<1>2. HasLineage(sp, earlier, step.observation) /\ LineageFor(sp, earlier, step.observation) = <<>>
  BY <1>1, NoLineage
<1>3. ClosedV2(step) /\ Observed(step) /\ step.lineage = <<>>
  BY DEF ValidStepV2, ClosedV2, ClosedPolicy
<1>4. step.observation \in Observation /\ step.observation.candidate = step.selected
  BY <1>3 DEF Observed
<1>5. /\ ~Exhausted(sp, previous) /\ Selects(sp, earlier, step.selected)
      /\ step.index = Len(earlier) /\ step.decision = DecisionV2(sp, earlier)
      /\ step.rationale = RationaleV2(sp, earlier)
      /\ step.cumulative = FAdd(previous, step.observation.cost) /\ ~Exceeded(sp, step.cumulative)
  BY DEF ValidStepV2
<1>6. step = CaptureV2(sp, earlier, step.observation, previous)
  BY <1>2, <1>3, <1>4, <1>5, StepEquals DEF CaptureV2
<1>7. QED BY <1>2, <1>4, <1>5, <1>6, CaptureOf DEF Sound

LEMMA SoundV3 ==
  ASSUME NEW sp \in Specs, sp.version = "v3", NEW earlier, NEW previous, NEW step,
         HasFields(step, StepFields), ValidStepV3(sp, earlier, previous, step, Len(earlier))
  PROVE  Sound(sp, earlier, previous, step)
<1>1. Observed(step) BY DEF ValidStepV3, ClosedV3
<1>2. step.observation \in Observation /\ step.observation.candidate = step.selected
  BY <1>1 DEF Observed
<1>3. /\ ~Exhausted(sp, previous) /\ Selects(sp, earlier, step.selected)
      /\ step.index = Len(earlier) /\ step.decision = DecisionV3(sp, earlier)
      /\ step.rationale = RationaleV3(sp, earlier)
      /\ step.cumulative = FAdd(previous, step.observation.cost) /\ ~Exceeded(sp, step.cumulative)
      /\ HasLineage(sp, earlier, step.observation)
      /\ step.lineage = LineageFor(sp, earlier, step.observation)
  BY DEF ValidStepV3, SameSelection
<1>4. step = CaptureV3(sp, earlier, step.observation, previous)
  BY <1>2, <1>3, StepEquals DEF CaptureV3
<1>5. QED BY <1>2, <1>3, <1>4, CaptureOf DEF Sound

----------------------------------------------------------------------------
(* Documents.                                                              *)

DocumentFields == {"schema", "run_spec", "run_spec_digest", "steps", "terminal", "sections"}
TerminalFields == {"completed", "selected", "total", "stop", "belief", "steps"}
SectionFields == {"run_spec", "steps", "terminal"}

FormedSteps(steps) ==
  /\ steps \in Seq(Range(steps))
  /\ \A i \in DOMAIN steps : HasFields(steps[i], StepFields)

Formed(doc) ==
  /\ HasFields(doc, DocumentFields) /\ HasFields(doc.terminal, TerminalFields)
  /\ HasFields(doc.sections, SectionFields)
  /\ doc.schema \in Versions /\ doc.run_spec \in Specs /\ FormedSteps(doc.steps)

LEMMA PrefixOf ==
  ASSUME NEW S, NEW s \in Seq(S), NEW n \in 0 .. Len(s)
  PROVE  /\ SubSeq(s, 1, n) \in Seq(S) /\ Len(SubSeq(s, 1, n)) = n
         /\ DOMAIN SubSeq(s, 1, n) = 1 .. n
         /\ \A i \in 1 .. n : SubSeq(s, 1, n)[i] = s[i]
<1>1. /\ SubSeq(s, 1, n) \in Seq(S) /\ Len(SubSeq(s, 1, n)) = n
      /\ \A i \in 1 .. n : SubSeq(s, 1, n)[i] = s[i]
  BY SubSeqProperties
<1>2. DOMAIN SubSeq(s, 1, n) = 1 .. n BY <1>1
<1>3. QED BY <1>1, <1>2

(* The records of the steps before one are those before its record.        *)
LEMMA RecordsBefore ==
  ASSUME NEW steps, FormedSteps(steps), NEW i \in 1 .. Len(steps) + 1
  PROVE  /\ Len(Records(steps)) = Len(steps) /\ DOMAIN Records(steps) = DOMAIN steps
         /\ DOMAIN steps = 1 .. Len(steps) /\ Len(steps) \in Nat
         /\ Records(Before(steps, i)) = SubSeq(Records(steps), 1, i - 1)
         /\ Len(SubSeq(Records(steps), 1, i - 1)) = i - 1
<1> DEFINE S == Range(steps) T == {s.observation : s \in S}
<1>1. steps \in Seq(S) /\ DOMAIN steps = 1 .. Len(steps) /\ Len(steps) \in Nat
  BY DEF FormedSteps
<1>2. i - 1 \in 0 .. Len(steps) BY <1>1
<1>3. Records(steps) = [j \in 1 .. Len(steps) |-> steps[j].observation] BY <1>1 DEF Records
<1>4. \A j \in 1 .. Len(steps) : steps[j] \in S BY <1>1
<1>5. Records(steps) \in Seq(T) /\ Len(Records(steps)) = Len(steps) BY <1>1, <1>3, <1>4
<1>6. i - 1 \in 0 .. Len(Records(steps)) BY <1>2, <1>5
<1>7. /\ Len(SubSeq(Records(steps), 1, i - 1)) = i - 1
      /\ SubSeq(Records(steps), 1, i - 1) \in Seq(T)
      /\ \A j \in 1 .. i - 1 : SubSeq(Records(steps), 1, i - 1)[j] = Records(steps)[j]
  BY <1>5, <1>6, PrefixOf
<1>8. /\ DOMAIN SubSeq(steps, 1, i - 1) = 1 .. i - 1
      /\ \A j \in 1 .. i - 1 : SubSeq(steps, 1, i - 1)[j] = steps[j]
  BY <1>1, <1>2, PrefixOf
<1>9. Records(Before(steps, i)) = [j \in 1 .. i - 1 |-> steps[j].observation]
  BY <1>8 DEF Records, Before
<1>10. SubSeq(Records(steps), 1, i - 1) = [j \in 1 .. i - 1 |-> steps[j].observation]
  <2>1. SubSeq(Records(steps), 1, i - 1) =
          [j \in 1 .. i - 1 |-> SubSeq(Records(steps), 1, i - 1)[j]]
    BY <1>7
  <2>2. \A j \in 1 .. i - 1 : SubSeq(Records(steps), 1, i - 1)[j] = steps[j].observation
    <3>1. \A j \in 1 .. i - 1 : j \in 1 .. Len(steps) BY <1>1, <1>2
    <3>2. QED BY <1>3, <1>7, <3>1
  <2>3. QED BY <2>1, <2>2
<1>11. QED BY <1>1, <1>3, <1>5, <1>7, <1>9, <1>10

EverySound(sp, steps) ==
  \A i \in DOMAIN steps :
    Sound(sp, Records(Before(steps, i)), Cumulative(Before(steps, i)), steps[i])

(* An accepted document consists of sound steps.                           *)
LEMMA ValidIsSound ==
  ASSUME NEW doc, Formed(doc), NEW version \in Versions, ValidDocument(version, doc)
  PROVE  /\ Identified(version, doc) /\ Concluded(doc) /\ EverySound(doc.run_spec, doc.steps)
<1> DEFINE sp == doc.run_spec
           steps == doc.steps
<1>1. FormedSteps(steps) /\ sp \in Specs BY DEF Formed
<1>2. \A i \in DOMAIN steps : i \in 1 .. Len(steps) + 1 /\ i - 1 = Len(Records(Before(steps, i)))
  <2>1. DOMAIN steps = 1 .. Len(steps) /\ Len(steps) \in Nat BY <1>1 DEF FormedSteps
  <2>2. SUFFICES ASSUME NEW i \in DOMAIN steps
                 PROVE  i \in 1 .. Len(steps) + 1 /\ i - 1 = Len(Records(Before(steps, i)))
    OBVIOUS
  <2>3. i \in 1 .. Len(steps) + 1 BY <2>1
  <2>4. QED BY <1>1, <2>3, RecordsBefore
<1>3. \A i \in DOMAIN steps : HasFields(steps[i], StepFields) BY <1>1 DEF FormedSteps
<1>4. CASE version = "v1"
  <2>1. Identified("v1", doc) /\ Concluded(doc) /\ ValidSteps(doc, ValidStepV1)
    BY <1>4 DEF ValidDocument, ValidV1
  <2>2. sp.version = "v1" BY <2>1 DEF Identified
  <2>3. ASSUME NEW i \in DOMAIN steps
        PROVE  Sound(sp, Records(Before(steps, i)), Cumulative(Before(steps, i)), steps[i])
    <3>1. ValidStepV1(sp, Records(Before(steps, i)), Cumulative(Before(steps, i)), steps[i], i - 1)
      BY <2>1 DEF ValidSteps
    <3>2. HasFields(steps[i], StepFields) /\ i - 1 = Len(Records(Before(steps, i))) BY <1>2, <1>3
    <3>3. QED BY <1>1, <2>2, <3>1, <3>2, SoundV1
  <2>4. QED BY <1>4, <2>1, <2>3 DEF EverySound
<1>5. CASE version = "v2"
  <2>1. Identified("v2", doc) /\ Concluded(doc) /\ ValidSteps(doc, ValidStepV2)
    BY <1>5 DEF ValidDocument, ValidV2
  <2>2. sp.version = "v2" BY <2>1 DEF Identified
  <2>3. ASSUME NEW i \in DOMAIN steps
        PROVE  Sound(sp, Records(Before(steps, i)), Cumulative(Before(steps, i)), steps[i])
    <3>1. ValidStepV2(sp, Records(Before(steps, i)), Cumulative(Before(steps, i)), steps[i], i - 1)
      BY <2>1 DEF ValidSteps
    <3>2. HasFields(steps[i], StepFields) /\ i - 1 = Len(Records(Before(steps, i))) BY <1>2, <1>3
    <3>3. QED BY <1>1, <2>2, <3>1, <3>2, SoundV2
  <2>4. QED BY <1>5, <2>1, <2>3 DEF EverySound
<1>6. CASE version = "v3"
  <2>1. Identified("v3", doc) /\ Concluded(doc) /\ ValidSteps(doc, ValidStepV3)
    BY <1>6 DEF ValidDocument, ValidV3
  <2>2. sp.version = "v3" BY <2>1 DEF Identified
  <2>3. ASSUME NEW i \in DOMAIN steps
        PROVE  Sound(sp, Records(Before(steps, i)), Cumulative(Before(steps, i)), steps[i])
    <3>1. ValidStepV3(sp, Records(Before(steps, i)), Cumulative(Before(steps, i)), steps[i], i - 1)
      BY <2>1 DEF ValidSteps
    <3>2. HasFields(steps[i], StepFields) /\ i - 1 = Len(Records(Before(steps, i))) BY <1>2, <1>3
    <3>3. QED BY <1>1, <2>2, <3>1, <3>2, SoundV3
  <2>4. QED BY <1>6, <2>1, <2>3 DEF EverySound
<1>7. QED BY <1>4, <1>5, <1>6 DEF Versions

(* The cumulative costs of sound steps are the running costs of the code   *)
(* that captures, and of every runner.                                     *)
LEMMA SoundCosts ==
  ASSUME NEW sp, NEW steps, FormedSteps(steps), EverySound(sp, steps),
         NEW i \in 1 .. Len(steps) + 1
  PROVE  LET earlier == SubSeq(Records(steps), 1, i - 1)
         IN  /\ Cumulative(Before(steps, i)) = RunningCost(earlier)
             /\ Cumulative(Before(steps, i)) =
                  Run(sp.policy, PickIndexOf(sp), sp.count, sp.cost)!RunningCost(earlier)
<1> DEFINE earlier == SubSeq(Records(steps), 1, i - 1)
           total(n) == IF n = 0 THEN 0 ELSE steps[n].cumulative
           f == [n \in 0 .. i - 1 |-> total(n)]
<1>1. /\ DOMAIN steps = 1 .. Len(steps) /\ Len(steps) \in Nat
      /\ Len(earlier) = i - 1 /\ earlier = Records(Before(steps, i))
  BY RecordsBefore
<1>2. steps \in Seq(Range(steps)) BY DEF FormedSteps
<1>3. \A n \in 0 .. Len(steps) : Cumulative(Before(steps, n + 1)) = total(n)
  <2>1. ASSUME NEW n \in 0 .. Len(steps) PROVE Cumulative(Before(steps, n + 1)) = total(n)
    <3>1. Before(steps, n + 1) = SubSeq(steps, 1, n) BY DEF Before
    <3>2. /\ SubSeq(steps, 1, n) \in Seq(Range(steps)) /\ Len(SubSeq(steps, 1, n)) = n
          /\ \A k \in 1 .. n : SubSeq(steps, 1, n)[k] = steps[k]
      BY <1>2, PrefixOf
    <3>3. CASE n = 0
      <4>1. SubSeq(steps, 1, n) = <<>> BY <3>2, <3>3
      <4>2. QED BY <3>1, <3>3, <4>1 DEF Cumulative
    <3>4. CASE n # 0
      <4>1. SubSeq(steps, 1, n) # <<>> BY <3>2, <3>4
      <4>2. n \in 1 .. n BY <3>4
      <4>3. Last(SubSeq(steps, 1, n)) = steps[n] BY <3>2, <4>2 DEF Last
      <4>4. QED BY <3>1, <3>4, <4>1, <4>3 DEF Cumulative
    <3>5. QED BY <3>3, <3>4
  <2>2. QED BY <2>1
<1>4. \A n \in 1 .. i - 1 : total(n) = FAdd(total(n - 1), earlier[n].cost)
  <2>1. SUFFICES ASSUME NEW n \in 1 .. i - 1 PROVE total(n) = FAdd(total(n - 1), earlier[n].cost)
    OBVIOUS
  <2>2. n \in DOMAIN steps /\ n # 0 /\ n - 1 \in 0 .. Len(steps) /\ (n - 1) + 1 = n BY <1>1
  <2>3. steps[n].cumulative = FAdd(Cumulative(Before(steps, n)), steps[n].observation.cost)
    BY <2>2 DEF EverySound, Sound
  <2>4. Cumulative(Before(steps, n)) = total(n - 1) BY <1>3, <2>2
  <2>5. earlier[n] = steps[n].observation
    <3>1. DOMAIN SubSeq(steps, 1, i - 1) = 1 .. i - 1 /\ SubSeq(steps, 1, i - 1)[n] = steps[n]
      BY <1>1, <1>2, PrefixOf
    <3>2. QED BY <1>1, <3>1 DEF Records, Before
  <2>6. QED BY <2>2, <2>3, <2>4, <2>5
<1>5. Accumulates(earlier, f)
  <2>1. \A n \in 0 .. i - 1 :
          total(n) = IF n = 0 THEN 0 ELSE FAdd(f[n - 1], earlier[n].cost)
    <3>1. SUFFICES ASSUME NEW n \in 0 .. i - 1
                   PROVE  total(n) = IF n = 0 THEN 0 ELSE FAdd(f[n - 1], earlier[n].cost)
      OBVIOUS
    <3>2. CASE n = 0 BY <3>2
    <3>3. CASE n # 0
      <4>1. n \in 1 .. i - 1 /\ n - 1 \in 0 .. i - 1 BY <3>3
      <4>2. f[n - 1] = total(n - 1) BY <4>1
      <4> HIDE DEF f
      <4>3. QED BY <1>4, <3>3, <4>1, <4>2
    <3>4. QED BY <3>2, <3>3
  <2>2. f = [n \in 0 .. i - 1 |-> IF n = 0 THEN 0 ELSE FAdd(f[n - 1], earlier[n].cost)]
    BY <2>1
  <2>3. QED BY <1>1, <2>2 DEF Accumulates
<1>6. Cumulative(Before(steps, i)) = total(i - 1)
  <2>1. i - 1 \in 0 .. Len(steps) /\ (i - 1) + 1 = i BY <1>1
  <2>2. QED BY <1>3, <2>1
<1>7. i - 1 \in 0 .. i - 1 /\ f[i - 1] = total(i - 1) BY <1>1
<1>8. Len(earlier) \in Nat BY <1>1
<1> HIDE DEF earlier, f, total
<1>9. RunningCost(earlier) = f[Len(earlier)] BY <1>5, <1>8, RunningCostIs
<1>10. Run(sp.policy, PickIndexOf(sp), sp.count, sp.cost)!RunningCost(earlier) = f[Len(earlier)]
  BY <1>5, <1>8, RunAccumulates
<1>11. QED BY <1>1, <1>6, <1>7, <1>9, <1>10 DEF earlier

(* Sound steps are those that capture makes of their records.              *)
LEMMA SoundIsCaptured ==
  ASSUME NEW sp, NEW steps, FormedSteps(steps), EverySound(sp, steps)
  PROVE  steps = Captured(sp, Records(steps)) /\ Records(steps) \in Seq(Observation)
<1>1. DOMAIN steps = 1 .. Len(steps) /\ Len(steps) \in Nat /\ steps \in Seq(Range(steps))
  BY DEF FormedSteps
<1>2. Records(steps) = [i \in 1 .. Len(steps) |-> steps[i].observation] BY <1>1 DEF Records
<1>3. \A i \in 1 .. Len(steps) : steps[i].observation \in Observation
  BY <1>1 DEF EverySound, Sound
<1>4. Records(steps) \in Seq(Observation) BY <1>1, <1>2, <1>3
<1>5. ASSUME NEW i \in 1 .. Len(steps)
      PROVE  LET earlier == SubSeq(Records(steps), 1, i - 1)
             IN  steps[i] = Capture(sp, earlier, Records(steps)[i], RunningCost(earlier))
  <2> DEFINE earlier == SubSeq(Records(steps), 1, i - 1)
  <2>1. i \in 1 .. Len(steps) + 1 /\ i \in DOMAIN steps BY <1>1
  <2>2. steps[i] = Capture(sp, Records(Before(steps, i)), steps[i].observation, Cumulative(Before(steps, i)))
    BY <2>1 DEF EverySound, Sound
  <2>3. Cumulative(Before(steps, i)) = RunningCost(earlier) BY <2>1, SoundCosts
  <2>4. Records(Before(steps, i)) = earlier BY <2>1, RecordsBefore
  <2>5. Records(steps)[i] = steps[i].observation BY <1>2
  <2>6. QED BY <2>2, <2>3, <2>4, <2>5
<1>6. steps = [i \in 1 .. Len(steps) |-> steps[i]] BY <1>1
<1>7. DOMAIN Records(steps) = 1 .. Len(steps) BY <1>2
<1>8. Captured(sp, Records(steps)) = [i \in 1 .. Len(steps) |-> steps[i]]
  BY <1>5, <1>7 DEF Captured
<1>9. QED BY <1>4, <1>6, <1>8

(* Its terminal summary and its sections leave nothing else to say.        *)
LEMMA DocumentEquals ==
  ASSUME NEW doc, Formed(doc), NEW version, Identified(version, doc), Concluded(doc)
  PROVE  /\ doc.terminal = Terminal(doc.run_spec, doc.steps, doc.terminal.stop)
         /\ doc = Document(doc.run_spec, doc.steps, doc.terminal.stop)
<1> DEFINE sp == doc.run_spec
           steps == doc.steps
           stop == doc.terminal.stop
<1>1. /\ doc.terminal.completed = Len(steps)
      /\ doc.terminal.selected = [i \in DOMAIN steps |-> steps[i].selected]
      /\ doc.terminal.total = Cumulative(steps) /\ doc.terminal.belief = FinalBelief(sp, steps)
      /\ doc.terminal.steps = Digest(steps)
  BY DEF Concluded, ValidTerminal
<1>2. HasFields(doc.terminal, TerminalFields) BY DEF Formed
<1>3. doc.terminal = Terminal(sp, steps, stop) BY <1>1, <1>2 DEF HasFields, TerminalFields, Terminal
<1>4. /\ doc.sections.run_spec = Digest(sp) /\ doc.sections.steps = Digest(steps)
      /\ doc.sections.terminal = Digest(doc.terminal)
  BY DEF Identified, Concluded
<1>5. HasFields(doc.sections, SectionFields) BY DEF Formed
<1>6. doc.sections = Sections(sp, steps, doc.terminal)
  BY <1>4, <1>5 DEF HasFields, SectionFields, Sections
<1>7. HasFields(doc, DocumentFields) BY DEF Formed
<1>8. doc.schema = sp.version /\ doc.run_spec_digest = Digest(sp) BY DEF Identified
<1>9. doc = Document(sp, steps, stop)
  <2>1. PICK terminal : terminal = doc.terminal OBVIOUS
  <2>2. PICK sections : sections = doc.sections OBVIOUS
  <2>3. doc = [schema |-> sp.version, run_spec |-> sp, run_spec_digest |-> Digest(sp), steps |-> steps,
               terminal |-> terminal, sections |-> sections]
    BY <1>7, <1>8, <2>1, <2>2 DEF HasFields, DocumentFields
  <2>4. terminal = Terminal(sp, steps, stop) /\ sections = Sections(sp, steps, terminal)
    BY <1>3, <1>6, <2>1, <2>2
  <2>5. QED BY <2>3, <2>4 DEF Document
<1>10. QED BY <1>3, <1>9

(* The records of sound steps are a history that a runner makes and        *)
(* resumes.                                                                *)
LEMMA SoundIsAdmissible ==
  ASSUME SumsAgree, NEW sp \in Specs, NEW steps, FormedSteps(steps), EverySound(sp, steps),
         Len(steps) <= sp.count, NEW i \in DOMAIN steps
  PROVE  LET earlier == SubSeq(Records(steps), 1, i - 1)
         IN  Admissible(sp, earlier, Records(steps)[i])
<1> DEFINE earlier == SubSeq(Records(steps), 1, i - 1)
           previous == Cumulative(Before(steps, i))
           rec == steps[i].observation
<1>1. /\ DOMAIN steps = 1 .. Len(steps) /\ Len(steps) \in Nat /\ i \in 1 .. Len(steps) + 1
      /\ Len(earlier) = i - 1 /\ earlier = Records(Before(steps, i))
  <2>1. DOMAIN steps = 1 .. Len(steps) /\ Len(steps) \in Nat BY DEF FormedSteps
  <2>2. i \in 1 .. Len(steps) + 1 BY <2>1
  <2>3. QED BY <2>1, <2>2, RecordsBefore
<1>2. sp.count \in 1 .. CandidateCount /\ CandidateCount \in Nat BY ContractAssumption DEF Candidates
<1>3. Records(steps)[i] = rec BY DEF Records
<1>4. previous = RunningCost(earlier) BY <1>1, SoundCosts
<1>5. SpentCost(earlier) = previous
  <2>1. Records(steps) \in Seq(Observation) /\ Len(Records(steps)) = Len(steps)
    BY <1>1, RecordsBefore, SoundIsCaptured
  <2>2. i - 1 \in 0 .. Len(Records(steps)) BY <1>1, <2>1
  <2>3. earlier \in Seq(Observation) BY <2>1, <2>2, PrefixOf
  <2>4. earlier \in [1 .. i - 1 -> Observation] BY <1>1, <2>3, LenProperties
  <2>5. i - 1 \in 0 .. CandidateCount BY <1>1, <1>2
  <2>6. SpentCost(earlier) = RunningCost(earlier) BY <2>4, <2>5 DEF SumsAgree
  <2>7. QED BY <1>4, <2>6
<1>6. Sound(sp, earlier, previous, steps[i]) BY <1>1 DEF EverySound
<1>7. Run(sp.policy, PickIndexOf(sp), sp.count, sp.cost)!Picks(earlier, rec.candidate)
  BY <1>6 DEF Sound, Selects
<1>8. Run(sp.policy, PickIndexOf(sp), sp.count, sp.cost)!MayExperiment(earlier)
  <2>1. Run(sp.policy, PickIndexOf(sp), sp.count, sp.cost)!SpentCost(earlier) = previous
    BY <1>5, RunSpends
  <2>2. ~Exhausted(sp, previous) BY <1>6 DEF Sound
  <2>3. ~Run(sp.policy, PickIndexOf(sp), sp.count, sp.cost)!CostExhausted(previous)
    BY <2>2 DEF Run!CostExhausted, Exhausted
  <2>4. Len(earlier) < sp.count BY <1>1, <1>2
  <2>5. QED BY <2>1, <2>3, <2>4 DEF Run!MayExperiment
<1>9. Run(sp.policy, PickIndexOf(sp), sp.count, sp.cost)!Affordable(earlier, rec.cost)
  <2>1. Run(sp.policy, PickIndexOf(sp), sp.count, sp.cost)!SpentCost(earlier) = previous
    BY <1>5, RunSpends
  <2>2. ~Exceeded(sp, FAdd(previous, rec.cost)) BY <1>6 DEF Sound
  <2>3. ~Run(sp.policy, PickIndexOf(sp), sp.count, sp.cost)!CostExceeded(FAdd(previous, rec.cost))
    BY <2>2 DEF Run!CostExceeded, Exceeded
  <2>4. Run(sp.policy, PickIndexOf(sp), sp.count, sp.cost)!FAdd(previous, rec.cost) = FAdd(previous, rec.cost)
    BY RunAdds
  <2>5. QED BY <2>1, <2>3, <2>4 DEF Run!Affordable
<1>10. Run(sp.policy, PickIndexOf(sp), sp.count, sp.cost)!Admissible(earlier, rec)
  BY <1>7, <1>8, <1>9 DEF Run!Admissible
<1>11. QED BY <1>3, <1>10 DEF Admissible

LEMMA SoundIsResumable ==
  ASSUME NEW sp, NEW steps, FormedSteps(steps), EverySound(sp, steps)
  PROVE  Resumable(sp, Records(steps))
<1>1. /\ DOMAIN steps = 1 .. Len(steps) /\ Len(steps) \in Nat
      /\ DOMAIN Records(steps) = DOMAIN steps
  <2>1. DOMAIN steps = 1 .. Len(steps) /\ Len(steps) \in Nat BY DEF FormedSteps
  <2>2. QED BY <2>1 DEF Records
<1>2. ASSUME NEW i \in DOMAIN Records(steps)
      PROVE  Run(sp.policy, PickIndexOf(sp), sp.count, sp.cost)!Capturable(
               SubSeq(Records(steps), 1, i - 1), Records(steps)[i])
  <2> DEFINE earlier == SubSeq(Records(steps), 1, i - 1)
             previous == Cumulative(Before(steps, i))
             rec == steps[i].observation
  <2>1. i \in DOMAIN steps /\ i \in 1 .. Len(steps) + 1 BY <1>1
  <2>2. earlier = Records(Before(steps, i)) BY <2>1, RecordsBefore
  <2>3. Records(steps)[i] = rec BY <2>1 DEF Records
  <2>4. Run(sp.policy, PickIndexOf(sp), sp.count, sp.cost)!RunningCost(earlier) = previous
    BY <2>1, SoundCosts
  <2>5. Sound(sp, earlier, previous, steps[i]) BY <2>1, <2>2 DEF EverySound
  <2>6. ~Run(sp.policy, PickIndexOf(sp), sp.count, sp.cost)!CostExhausted(previous)
    BY <2>5 DEF Run!CostExhausted, Exhausted, Sound
  <2>7. Run(sp.policy, PickIndexOf(sp), sp.count, sp.cost)!Picks(earlier, rec.candidate)
    BY <2>5 DEF Sound, Selects
  <2>8. ~Run(sp.policy, PickIndexOf(sp), sp.count, sp.cost)!CostExceeded(FAdd(previous, rec.cost))
    BY <2>5 DEF Run!CostExceeded, Exceeded, Sound
  <2>9. Run(sp.policy, PickIndexOf(sp), sp.count, sp.cost)!FAdd(previous, rec.cost) = FAdd(previous, rec.cost)
    BY RunAdds
  <2>10. Run(sp.policy, PickIndexOf(sp), sp.count, sp.cost)!HasLineage(earlier, rec)
    BY <2>5 DEF Sound, HasLineage
  <2>11. Run(sp.policy, PickIndexOf(sp), sp.count, sp.cost)!Capturable(earlier, rec)
    BY <2>4, <2>6, <2>7, <2>8, <2>9, <2>10 DEF Run!Capturable
  <2>12. QED BY <2>3, <2>11
<1>3. QED BY <1>2 DEF Resumable, Run!Reconstructible, Run!Prefix

(* Whatever is accepted is what an honest run would have exported.         *)
LEMMA ValidIsGenuine ==
  ASSUME SumsAgree, NEW doc, Formed(doc), NEW version \in Versions, ValidDocument(version, doc)
  PROVE  Genuine(doc)
<1> DEFINE sp == doc.run_spec
           steps == doc.steps
           records == Records(steps)
<1>1. Identified(version, doc) /\ Concluded(doc) /\ EverySound(sp, steps) BY ValidIsSound
<1>2. sp \in Specs /\ FormedSteps(steps) BY DEF Formed
<1>3. steps = Captured(sp, records) /\ records \in Seq(Observation) BY <1>1, <1>2, SoundIsCaptured
<1>4. Len(steps) <= sp.count BY <1>1 DEF Concluded
<1>5. DOMAIN records = DOMAIN steps BY DEF Records
<1>6. \A i \in DOMAIN records : Admissible(sp, SubSeq(records, 1, i - 1), records[i])
  BY <1>1, <1>2, <1>4, <1>5, SoundIsAdmissible
<1>7. Resumable(sp, records) BY <1>1, <1>2, SoundIsResumable
<1>8. doc = Document(sp, Captured(sp, records), doc.terminal.stop) BY <1>1, <1>3, DocumentEquals
<1>9. StopAllowed(sp, doc.terminal.stop, Len(records), doc.terminal.total)
  <2>1. StopAllowed(sp, doc.terminal.stop, Len(steps), doc.terminal.total)
    BY <1>1 DEF Concluded, ValidTerminal
  <2>2. Len(records) = Len(steps)
    <3>1. Len(steps) \in Nat BY <1>2 DEF FormedSteps
    <3>2. 1 \in 1 .. Len(steps) + 1 BY <3>1
    <3>3. QED BY <1>2, <3>2, RecordsBefore
  <2>3. QED BY <2>1, <2>2
<1>10. QED BY <1>3, <1>6, <1>7, <1>8, <1>9 DEF Genuine

----------------------------------------------------------------------------
(* Replay.                                                                 *)

LEMMA RankIsUnique ==
  ASSUME NEW A \in SUBSET Int, IsFiniteSet(A), NEW c \in A, NEW d \in A,
         Cardinality({y \in A : y <= c}) = Cardinality({y \in A : y <= d})
  PROVE  ~(c < d)
<1> DEFINE Below(x) == {y \in A : y <= x}
<1> SUFFICES ASSUME c < d PROVE FALSE
  OBVIOUS
<1>1. Below(c) \subseteq Below(d) /\ d \in Below(d) /\ d \notin Below(c)
  <2>1. c \in Int /\ d \in Int /\ \A y \in A : y \in Int OBVIOUS
  <2>2. \A y \in A : y <= c => y <= d BY <2>1
  <2>3. d <= d /\ ~(d <= c) BY <2>1
  <2>4. QED BY <2>2, <2>3
<1>2. IsFiniteSet(Below(d)) BY FS_Subset
<1>3. QED BY <1>1, <1>2, FS_Subset

LEMMA RunCounts ==
  ASSUME NEW p, NEW x, NEW n, NEW k, NEW S
  PROVE  Run(p, x, n, k)!Cardinality(S) = Cardinality(S)
  BY DEF Run!Cardinality, Cardinality

(* The random policy picks by rank, and every candidate has its own.       *)
LEMMA RandomPicksOne ==
  ASSUME NEW sp, sp.policy = "random", NEW h, NEW c, NEW d, Selects(sp, h, c), Selects(sp, h, d)
  PROVE  c = d /\ c \in Candidates
<1>1. PICK A : A = Run(sp.policy, PickIndexOf(sp), sp.count, sp.cost)!Available(h) OBVIOUS
<1>2. PICK r : r = PickIndexOf(sp)[Cardinality(A)] OBVIOUS
<1>3. ASSUME NEW e, Selects(sp, h, e) PROVE e \in A /\ Cardinality({y \in A : y <= e}) = r
  <2>1. Run(sp.policy, PickIndexOf(sp), sp.count, sp.cost)!Picks(h, e) BY <1>3 DEF Selects
  <2>2. e \in A /\ Run(sp.policy, PickIndexOf(sp), sp.count, sp.cost)!PicksRandom(h, e)
    BY <1>1, <2>1 DEF Run!Picks
  <2>3. QED BY <1>1, <1>2, <2>2, RunCounts DEF Run!PicksRandom
<1>4. A \subseteq Candidates /\ Candidates \subseteq Int /\ IsFiniteSet(Candidates)
  <2>1. A \subseteq Candidates BY <1>1 DEF Run!Available, Run!Candidates, Candidates
  <2>2. CandidateCount \in Int BY ContractAssumption
  <2>3. IsFiniteSet(Candidates) BY <2>2, FS_Interval DEF Candidates
  <2>4. QED BY <2>1, <2>2, <2>3 DEF Candidates
<1>5. A \in SUBSET Int /\ IsFiniteSet(A) BY <1>4, FS_Subset
<1>6. c \in A /\ d \in A /\ Cardinality({y \in A : y <= c}) = Cardinality({y \in A : y <= d})
  BY <1>3
<1>7. ~(c < d) /\ ~(d < c) BY <1>5, <1>6, RankIsUnique
<1>8. c \in Int /\ d \in Int BY <1>5, <1>6
<1>9. QED BY <1>4, <1>6, <1>7, <1>8

LEMMA RandomSelected ==
  ASSUME NEW sp, sp.policy = "random", NEW h, NEW c, Selects(sp, h, c)
  PROVE  Selected(sp, h) = c
<1>1. c \in Candidates BY RandomPicksOne
<1>2. PICK d : d = CHOOSE x \in Candidates : Selects(sp, h, x) OBVIOUS
<1>3. Selects(sp, h, d) BY <1>1, <1>2
<1>4. d = c BY <1>3, RandomPicksOne
<1>5. QED BY <1>2, <1>4 DEF Selected

(* What replay computes again of a sound step is what the step says.       *)
LEMMA SoundReplays ==
  ASSUME NEW sp \in Specs, NEW earlier, NEW previous, NEW step, Sound(sp, earlier, previous, step)
  PROVE  /\ sp.version = "v1" => ReplaysStepV1(sp, earlier, previous, step)
         /\ sp.version = "v2" => ReplaysStepV2(sp, earlier, previous, step)
         /\ sp.version = "v3" => ReplaysStepV3(sp, earlier, previous, step)
<1> DEFINE rec == step.observation
<1>1. /\ ~Exhausted(sp, previous) /\ Selects(sp, earlier, rec.candidate)
      /\ step.cumulative = FAdd(previous, rec.cost) /\ ~Exceeded(sp, step.cumulative)
      /\ HasLineage(sp, earlier, rec) /\ step = Capture(sp, earlier, rec, previous)
  BY DEF Sound
<1>2. CASE sp.version = "v1"
  <2>1. sp.policy = "random" BY <1>2, VersionsOf
  <2>2. step = StepOf(sp, earlier, rec, previous, DecisionV1(sp, rec.candidate), RationaleV1(earlier))
    BY <1>1, <1>2, CaptureOf DEF CaptureV1
  <2>3. /\ step.selected = rec.candidate /\ step.decision = DecisionV1(sp, rec.candidate)
        /\ step.rationale = RationaleV1(earlier) /\ step.lineage = LineageFor(sp, earlier, rec)
    <3>1. PICK lineage : lineage = LineageFor(sp, earlier, rec) OBVIOUS
    <3>2. PICK decision : decision = DecisionV1(sp, rec.candidate) OBVIOUS
    <3>3. PICK rationale : rationale = RationaleV1(earlier) OBVIOUS
    <3>4. step = [index |-> Len(earlier), selected |-> rec.candidate, decision |-> decision,
                  rationale |-> rationale, observation |-> rec, lineage |-> lineage,
                  cumulative |-> FAdd(previous, rec.cost)]
      BY <2>2, <3>1, <3>2, <3>3 DEF StepOf
    <3>5. QED BY <3>1, <3>2, <3>3, <3>4
  <2>4. LineageFor(sp, earlier, rec) = <<>> BY <2>1, NoLineage
  <2>5. Selected(sp, earlier) = rec.candidate BY <1>1, <2>1, RandomSelected
  <2>6. QED BY <1>1, <1>2, <2>3, <2>4, <2>5 DEF ReplaysStepV1
<1>3. CASE sp.version = "v2"
  <2>1. step = StepOf(sp, earlier, rec, previous, DecisionV2(sp, earlier), RationaleV2(sp, earlier))
    BY <1>1, <1>3, CaptureOf DEF CaptureV2
  <2>2. /\ step.selected = rec.candidate /\ step.decision = DecisionV2(sp, earlier)
        /\ step.rationale = RationaleV2(sp, earlier)
    <3>1. PICK lineage : lineage = LineageFor(sp, earlier, rec) OBVIOUS
    <3>2. PICK decision : decision = DecisionV2(sp, earlier) OBVIOUS
    <3>3. PICK rationale : rationale = RationaleV2(sp, earlier) OBVIOUS
    <3>4. step = [index |-> Len(earlier), selected |-> rec.candidate, decision |-> decision,
                  rationale |-> rationale, observation |-> rec, lineage |-> lineage,
                  cumulative |-> FAdd(previous, rec.cost)]
      BY <2>1, <3>1, <3>2, <3>3 DEF StepOf
    <3>5. QED BY <3>1, <3>2, <3>3, <3>4
  <2>3. QED BY <1>1, <1>3, <2>2 DEF ReplaysStepV2
<1>4. CASE sp.version = "v3"
  <2>1. step = CaptureV3(sp, earlier, rec, previous) BY <1>1, <1>4, CaptureOf
  <2>2. step = StepOf(sp, earlier, rec, previous, DecisionV3(sp, earlier), RationaleV3(sp, earlier))
    BY <2>1 DEF CaptureV3
  <2>3. /\ step.selected = rec.candidate /\ step.decision = DecisionV3(sp, earlier)
        /\ step.rationale = RationaleV3(sp, earlier)
    <3>1. PICK lineage : lineage = LineageFor(sp, earlier, rec) OBVIOUS
    <3>2. PICK decision : decision = DecisionV3(sp, earlier) OBVIOUS
    <3>3. PICK rationale : rationale = RationaleV3(sp, earlier) OBVIOUS
    <3>4. step = [index |-> Len(earlier), selected |-> rec.candidate, decision |-> decision,
                  rationale |-> rationale, observation |-> rec, lineage |-> lineage,
                  cumulative |-> FAdd(previous, rec.cost)]
      BY <2>2, <3>1, <3>2, <3>3 DEF StepOf
    <3>5. QED BY <3>1, <3>2, <3>3, <3>4
  <2>4. SameSelection(sp, earlier, step) BY <1>1, <2>3 DEF SameSelection
  <2>5. ~Exceeded(sp, FAdd(previous, rec.cost)) BY <1>1
  <2>6. QED BY <1>1, <1>4, <2>1, <2>4, <2>5 DEF ReplaysStepV3
<1>5. QED BY <1>2, <1>3, <1>4

(* Replay accepts what verification has accepted.                          *)
LEMMA ValidReplays ==
  ASSUME NEW doc, Formed(doc), ValidDocument(doc.schema, doc)
  PROVE  Replayed(doc) = Records(doc.steps) /\ Records(doc.steps) \in Seq(Observation)
<1> DEFINE sp == doc.run_spec
           steps == doc.steps
<1>1. doc.schema \in Versions /\ sp \in Specs /\ FormedSteps(steps) BY DEF Formed
<1>2. Identified(doc.schema, doc) /\ Concluded(doc) /\ EverySound(sp, steps) BY <1>1, ValidIsSound
<1>3. doc.schema = sp.version BY <1>2 DEF Identified
<1>4. steps = Captured(sp, Records(steps)) /\ Records(steps) \in Seq(Observation)
  BY <1>1, <1>2, SoundIsCaptured
<1>5. doc.terminal = Terminal(sp, steps, doc.terminal.stop) BY <1>2, DocumentEquals
<1>6. SameTerminal(doc) BY <1>4, <1>5 DEF SameTerminal
<1>7. \A i \in DOMAIN steps :
        Sound(sp, Records(Before(steps, i)), Cumulative(Before(steps, i)), steps[i])
  BY <1>2 DEF EverySound
<1>8. CASE doc.schema = "v1"
  <2>1. ReplaysSteps(doc, ReplaysStepV1) BY <1>1, <1>3, <1>7, <1>8, SoundReplays DEF ReplaysSteps
  <2>2. ReplayedV1(doc) = Records(steps) BY <1>6, <2>1 DEF ReplayedV1, Persisted
  <2>3. QED BY <1>4, <1>8, <2>2 DEF Replayed
<1>9. CASE doc.schema = "v2"
  <2>1. ReplaysSteps(doc, ReplaysStepV2) BY <1>1, <1>3, <1>7, <1>9, SoundReplays DEF ReplaysSteps
  <2>2. ReplayedV2(doc) = Records(steps) BY <1>6, <2>1 DEF ReplayedV2, Persisted
  <2>3. QED BY <1>4, <1>9, <2>2 DEF Replayed
<1>10. CASE doc.schema = "v3"
  <2>1. ReplaysSteps(doc, ReplaysStepV3) BY <1>1, <1>3, <1>7, <1>10, SoundReplays DEF ReplaysSteps
  <2>2. ReplayedV3(doc) = Records(steps) BY <1>6, <2>1 DEF ReplayedV3, Persisted
  <2>3. QED BY <1>4, <1>10, <2>2 DEF Replayed
<1>11. QED BY <1>1, <1>8, <1>9, <1>10 DEF Versions

----------------------------------------------------------------------------
(* Edits keep the form.                                                    *)

LEMMA FieldEdited ==
  ASSUME NEW r, NEW F, HasFields(r, F), NEW k, NEW v
  PROVE  /\ HasFields([r EXCEPT ![k] = v], F)
         /\ \A f \in F : f # k => [r EXCEPT ![k] = v][f] = r[f]
         /\ k \in F => [r EXCEPT ![k] = v][k] = v
  BY DEF HasFields

LEMMA FormedStepsEdited ==
  ASSUME NEW steps, FormedSteps(steps), NEW i \in DOMAIN steps, NEW new, HasFields(new, StepFields)
  PROVE  FormedSteps([steps EXCEPT ![i] = new])
<1> DEFINE t == [steps EXCEPT ![i] = new]
<1>1. DOMAIN steps = 1 .. Len(steps) /\ Len(steps) \in Nat BY DEF FormedSteps
<1>2. DOMAIN t = 1 .. Len(steps) /\ \A j \in DOMAIN t : t[j] = IF j = i THEN new ELSE steps[j]
  BY <1>1
<1>3. \A j \in DOMAIN t : HasFields(t[j], StepFields) BY <1>1, <1>2 DEF FormedSteps
<1>4. t = [j \in 1 .. Len(steps) |-> t[j]] BY <1>1
<1>5. \A j \in 1 .. Len(steps) : t[j] \in Range(t) BY <1>2 DEF Range
<1> HIDE DEF t
<1>6. t \in Seq(Range(t)) BY <1>1, <1>4, <1>5
<1>7. QED BY <1>3, <1>6 DEF FormedSteps, t

LEMMA StepEdited ==
  ASSUME NEW step, HasFields(step, StepFields), NEW new \in StepEdits(step)
  PROVE  HasFields(new, StepFields)
<1>1. \A f, v : HasFields([step EXCEPT ![f] = v], StepFields) BY FieldEdited
<1>2. ASSUME NEW c PROVE HasFields(Reselected(step, c), StepFields)
  BY DEF Reselected, HasFields, StepFields
<1>3. CASE new \in {Reselected(step, c) : c \in Candidates} BY <1>2, <1>3
<1>4. CASE new \in {[step EXCEPT !.index = k] : k \in 0 .. 2} BY <1>1, <1>4
<1>5. CASE new \in {[step EXCEPT !.selected = c] : c \in Candidates} BY <1>1, <1>5
<1>6. CASE new \in {[step EXCEPT !.observation = rec] : rec \in Observation} BY <1>1, <1>6
<1>7. CASE new \in {[step EXCEPT !.cumulative = @ + k] : k \in {-1, 1}} BY <1>1, <1>7
<1>8. CASE new \in {[step EXCEPT !.decision[f] = Forged] : f \in DOMAIN step.decision} BY <1>1, <1>8
<1>9. CASE new \in {[step EXCEPT !.decision.policy_seed = seed] :
                     seed \in IF "policy_seed" \in DOMAIN step.decision THEN Seeds ELSE {}}
  BY <1>1, <1>9
<1>10. CASE new \in {[step EXCEPT !.rationale[f] = Forged] : f \in DOMAIN step.rationale}
  BY <1>1, <1>10
<1>11. CASE new \in {[step EXCEPT !.lineage = <<>>]}
  <2>1. PICK lineage : lineage = <<>> OBVIOUS
  <2>2. new = [step EXCEPT !.lineage = lineage] BY <1>11, <2>1
  <2>3. QED BY <1>1, <2>2, Zenon
<1>12. CASE new \in {[step EXCEPT !.lineage[1][f] = Forged] :
                      f \in IF step.lineage = <<>> THEN {} ELSE DOMAIN step.lineage[1]}
  <2>1. PICK f : new = [step EXCEPT !.lineage[1][f] = Forged] BY <1>12
  <2>2. PICK lineage : new = [step EXCEPT !.lineage = lineage] BY <2>1
  <2>3. QED BY <1>1, <2>2, Zenon
<1>13. QED
  BY <1>3, <1>4, <1>5, <1>6, <1>7, <1>8, <1>9, <1>10, <1>11, <1>12, Zenon DEF StepEdits

LEMMA CapturedIsFormed ==
  ASSUME NEW sp \in Specs, NEW records \in Seq(Observation)
  PROVE  FormedSteps(Captured(sp, records))
<1> DEFINE t == Captured(sp, records)
<1>1. Len(records) \in Nat /\ DOMAIN records = 1 .. Len(records) BY LenProperties
<1>2. \A earlier, rec, previous : HasFields(Capture(sp, earlier, rec, previous), StepFields)
  <2>1. \A earlier, rec, previous, decision, rationale :
          HasFields(StepOf(sp, earlier, rec, previous, decision, rationale), StepFields)
    <3>1. \A n, c, o, d, r, l, k :
            HasFields([index |-> n, selected |-> c, decision |-> d, rationale |-> r,
                       observation |-> o, lineage |-> l, cumulative |-> k], StepFields)
      BY DEF HasFields, StepFields
    <3>2. QED BY <3>1, Zenon DEF StepOf
  <2>2. SUFFICES ASSUME NEW earlier, NEW rec, NEW previous
                 PROVE  HasFields(Capture(sp, earlier, rec, previous), StepFields)
    OBVIOUS
  <2>3. sp.version \in {"v1", "v2", "v3"} BY VersionsOf DEF Versions
  <2>4. CASE sp.version = "v1" BY <2>1, <2>4, CaptureOf DEF CaptureV1
  <2>5. CASE sp.version = "v2" BY <2>1, <2>5, CaptureOf DEF CaptureV2
  <2>6. CASE sp.version = "v3" BY <2>1, <2>6, CaptureOf DEF CaptureV3
  <2>7. QED BY <2>3, <2>4, <2>5, <2>6
<1>3. DOMAIN t = 1 .. Len(records) /\ t = [i \in 1 .. Len(records) |-> t[i]]
  BY <1>1 DEF Captured
<1>4. \A i \in DOMAIN t : HasFields(t[i], StepFields) BY <1>1, <1>2 DEF Captured
<1>5. \A j \in 1 .. Len(records) : t[j] \in Range(t) BY <1>3 DEF Range
<1> HIDE DEF t
<1>6. t \in Seq(Range(t)) BY <1>1, <1>3, <1>5
<1>7. QED BY <1>4, <1>6 DEF FormedSteps, t

LEMMA DocumentIsFormed ==
  ASSUME NEW sp \in Specs, NEW steps, FormedSteps(steps), NEW stop
  PROVE  Formed(Document(sp, steps, stop))
<1> DEFINE doc == Document(sp, steps, stop)
<1>1. PICK terminal : terminal = Terminal(sp, steps, stop) OBVIOUS
<1>2. PICK sections : sections = Sections(sp, steps, terminal) OBVIOUS
<1>3. HasFields(terminal, TerminalFields)
  <2>1. \A a, b, c, d, e, f :
          HasFields([completed |-> a, selected |-> b, total |-> c, stop |-> d, belief |-> e, steps |-> f],
                    TerminalFields)
    BY DEF HasFields, TerminalFields
  <2>2. QED BY <1>1, <2>1, Zenon DEF Terminal
<1>4. HasFields(sections, SectionFields) BY <1>2 DEF Sections, HasFields, SectionFields
<1>5. PICK digest : digest = Digest(sp) OBVIOUS
<1>6. doc = [schema |-> sp.version, run_spec |-> sp, run_spec_digest |-> digest, steps |-> steps,
             terminal |-> terminal, sections |-> sections]
  BY <1>1, <1>2, <1>5 DEF Document
<1>7. HasFields(doc, DocumentFields) BY <1>6 DEF HasFields, DocumentFields
<1>8. /\ doc.schema = sp.version /\ doc.run_spec = sp /\ doc.steps = steps
      /\ doc.terminal = terminal /\ doc.sections = sections
  BY <1>6
<1>9. doc.schema \in Versions BY <1>8, VersionsOf
<1> HIDE DEF doc
<1>10. QED BY <1>3, <1>4, <1>7, <1>8, <1>9 DEF Formed, doc

LEMMA DocumentEdited ==
  ASSUME NEW doc, Formed(doc), NEW f \in DocumentFields, NEW v,
         f = "schema" => v \in Versions, f = "run_spec" => v \in Specs,
         f = "steps" => FormedSteps(v), f = "terminal" => HasFields(v, TerminalFields),
         f = "sections" => HasFields(v, SectionFields)
  PROVE  Formed([doc EXCEPT ![f] = v])
<1> DEFINE new == [doc EXCEPT ![f] = v]
<1>1. /\ HasFields(doc, DocumentFields) /\ HasFields(doc.terminal, TerminalFields)
      /\ HasFields(doc.sections, SectionFields)
      /\ doc.schema \in Versions /\ doc.run_spec \in Specs /\ FormedSteps(doc.steps)
  BY DEF Formed
<1>2. /\ HasFields(new, DocumentFields)
      /\ \A g \in DocumentFields : g # f => new[g] = doc[g]
      /\ f \in DocumentFields => new[f] = v
  <2>1. PICK F : F = DocumentFields OBVIOUS
  <2>2. HasFields(doc, F) BY <1>1, <2>1
  <2>3. HasFields(new, F) BY <2>2, FieldEdited, Zenon
  <2>4. \A g \in F : g # f => new[g] = doc[g] BY <2>2 DEF HasFields
  <2>5. f \in F => new[f] = v BY <2>2 DEF HasFields
  <2>6. QED BY <2>1, <2>3, <2>4, <2>5
<1>3. \A g \in DocumentFields : new[g] = IF g = f THEN v ELSE doc[g] BY <1>2
<1>4. {"schema", "run_spec", "steps", "terminal", "sections"} \subseteq DocumentFields
  BY DEF DocumentFields
<1> HIDE DEF new
<1>5. new.schema \in Versions BY <1>1, <1>3, <1>4
<1>6. new.run_spec \in Specs BY <1>1, <1>3, <1>4
<1>7. FormedSteps(new.steps) BY <1>1, <1>3, <1>4
<1>8. HasFields(new.terminal, TerminalFields) BY <1>1, <1>3, <1>4
<1>9. HasFields(new.sections, SectionFields) BY <1>1, <1>3, <1>4
<1>10. QED BY <1>2, <1>5, <1>6, <1>7, <1>8, <1>9 DEF Formed, new

LEMMA InventedIsFormed ==
  ASSUME NEW sp \in Specs, NEW records \in Invented(sp)
  PROVE  FormedSteps(Captured(sp, records))
<1>1. records \in UNION {[1 .. m -> Observation] : m \in 0 .. 2} BY DEF Invented, BoundedSeq, SeqOf
<1>2. PICK m \in 0 .. 2 : records \in [1 .. m -> Observation] BY <1>1
<1>3. m \in Nat OBVIOUS
<1>4. records \in Seq(Observation) BY <1>2, <1>3
<1>5. QED BY <1>4, CapturedIsFormed

(* An edited document has the form of the one before.                      *)
LEMMA EditedIsFormed ==
  ASSUME Formed(document), EditDocument
  PROVE  Formed(document')
<1> DEFINE doc == document
<1>1. /\ HasFields(doc, DocumentFields) /\ HasFields(doc.terminal, TerminalFields)
      /\ HasFields(doc.sections, SectionFields)
      /\ doc.run_spec \in Specs /\ FormedSteps(doc.steps)
  BY DEF Formed
<1>2. \A f, v : HasFields([doc.terminal EXCEPT ![f] = v], TerminalFields) BY <1>1, FieldEdited
<1>3. \A f, v : HasFields([doc.sections EXCEPT ![f] = v], SectionFields) BY <1>1, FieldEdited
<1>4. "schema" # "run_spec" /\ "schema" # "steps" /\ "schema" # "terminal" /\ "schema" # "sections"
      /\ "run_spec" # "steps" /\ "run_spec" # "terminal" /\ "run_spec" # "sections"
      /\ "steps" # "terminal" /\ "steps" # "sections" /\ "terminal" # "sections"
      /\ "run_spec_digest" \notin {"schema", "run_spec", "steps", "terminal", "sections"}
      /\ {"schema", "run_spec", "steps", "terminal", "sections", "run_spec_digest"} = DocumentFields
  BY DEF DocumentFields
<1>5. ASSUME NEW v \in Versions PROVE Formed([doc EXCEPT !.schema = v])
  BY <1>4, <1>5, DocumentEdited
<1>6. ASSUME NEW sp \in Specs PROVE Formed([doc EXCEPT !.run_spec = sp])
  BY <1>4, <1>6, DocumentEdited
<1>7. ASSUME NEW v PROVE Formed([doc EXCEPT !.run_spec_digest = v])
  BY <1>4, <1>7, DocumentEdited
<1>8. ASSUME NEW steps, FormedSteps(steps) PROVE Formed([doc EXCEPT !.steps = steps])
  BY <1>4, <1>8, DocumentEdited
<1>9. ASSUME NEW t, HasFields(t, TerminalFields) PROVE Formed([doc EXCEPT !.terminal = t])
  BY <1>4, <1>9, DocumentEdited
<1>10. ASSUME NEW t, HasFields(t, SectionFields) PROVE Formed([doc EXCEPT !.sections = t])
  BY <1>4, <1>10, DocumentEdited
<1>11. CASE document' \in {[document EXCEPT !.schema = version] : version \in Versions}
  BY <1>5, <1>11
<1>12. CASE document' \in {[document EXCEPT !.run_spec = sp] : sp \in Specs} BY <1>6, <1>12
<1>13. CASE document' \in {[document EXCEPT !.run_spec_digest = Digest(Forged)]} BY <1>7, <1>13
<1>14. CASE document' \in
              UNION {{[document EXCEPT !.steps[i] = step] : step \in StepEdits(document.steps[i])} :
                       i \in DOMAIN document.steps}
  <2>1. PICK i \in DOMAIN document.steps :
          document' \in {[document EXCEPT !.steps[i] = step] : step \in StepEdits(document.steps[i])}
    BY <1>14
  <2>2. PICK step \in StepEdits(document.steps[i]) : document' = [document EXCEPT !.steps[i] = step]
    BY <2>1
  <2>3. HasFields(document.steps[i], StepFields) BY <1>1 DEF FormedSteps
  <2>4. HasFields(step, StepFields) BY <2>3, StepEdited
  <2>5. PICK steps : steps = [document.steps EXCEPT ![i] = step] OBVIOUS
  <2>6. FormedSteps(steps) BY <1>1, <2>4, <2>5, FormedStepsEdited
  <2>7. document' = [document EXCEPT !.steps = steps] BY <2>2, <2>5
  <2>8. QED BY <1>8, <2>6, <2>7
<1>15. CASE document' \in {[document EXCEPT !.steps = steps] : steps \in Inventions}
  <2>1. PICK steps \in Inventions : document' = [document EXCEPT !.steps = steps] BY <1>15
  <2>2. FormedSteps(steps) BY <1>1, InventedIsFormed DEF Inventions
  <2>3. QED BY <1>8, <2>1, <2>2
<1>16. CASE document' \in {[document EXCEPT !.terminal.stop = stop] : stop \in StopReasons}
  <2>1. PICK stop : document' = [document EXCEPT !.terminal.stop = stop] BY <1>16
  <2>2. PICK t : t = [document.terminal EXCEPT !.stop = stop] OBVIOUS
  <2>3. document' = [document EXCEPT !.terminal = t] BY <2>1, <2>2
  <2>4. QED BY <1>2, <1>9, <2>2, <2>3
<1>17. CASE document' \in {[document EXCEPT !.terminal.total = @ + 1],
                           [document EXCEPT !.terminal.completed = @ + 1]}
  <2>1. PICK t, u : t = [document.terminal EXCEPT !.total = @ + 1]
                    /\ u = [document.terminal EXCEPT !.completed = @ + 1]
    OBVIOUS
  <2>2. document' = [document EXCEPT !.terminal = t] \/ document' = [document EXCEPT !.terminal = u]
    BY <1>17, <2>1
  <2>3. HasFields(t, TerminalFields) /\ HasFields(u, TerminalFields) BY <1>2, <2>1
  <2>4. QED BY <1>9, <2>2, <2>3
<1>18. CASE document' \in {[document EXCEPT !.terminal[f] = Forged] : f \in {"selected", "belief", "steps"}}
  <2>1. PICK f : document' = [document EXCEPT !.terminal[f] = Forged] BY <1>18
  <2>2. PICK t : t = [document.terminal EXCEPT ![f] = Forged] OBVIOUS
  <2>3. document' = [document EXCEPT !.terminal = t] BY <2>1, <2>2
  <2>4. QED BY <1>2, <1>9, <2>2, <2>3
<1>19. CASE document' \in {[document EXCEPT !.sections[f] = Digest(Forged)] : f \in DOMAIN document.sections}
  <2>1. PICK f : document' = [document EXCEPT !.sections[f] = Digest(Forged)] BY <1>19
  <2>2. PICK t : t = [document.sections EXCEPT ![f] = Digest(Forged)] OBVIOUS
  <2>3. document' = [document EXCEPT !.sections = t] BY <2>1, <2>2
  <2>4. QED BY <1>3, <1>10, <2>2, <2>3
<1>20. QED
  BY <1>11, <1>12, <1>13, <1>14, <1>15, <1>16, <1>17, <1>18, <1>19, Zenon DEF EditDocument

----------------------------------------------------------------------------
(* The invariant.                                                          *)

FormedTrace(tr) ==
  /\ HasFields(tr, {"spec", "steps", "stop"}) /\ tr.spec \in Specs /\ FormedSteps(tr.steps)

(* What the trace and the document are made of.                            *)
WellFormed ==
  /\ spec \in Specs /\ history \in Seq(Observation)
  /\ trace # None => FormedTrace(trace)
  /\ Exists => trace # None /\ Formed(document)

(* A verdict and a replay are about the document as it stays.              *)
Judged ==
  /\ verdict # None => Exists
  /\ database # None => verdict # None
  /\ verdict = "valid" => \E version \in Versions : ValidDocument(version, document)
  /\ database = Refused => ~ValidDocument(document.schema, document)
  /\ database \notin {None, Refused} =>
       ValidDocument(document.schema, document) /\ database = Records(document.steps)

ContractInv == WellFormed /\ Judged

LEMMA ExportedIs ==
  ASSUME NEW tr, FormedTrace(tr), Exported(tr) # Refused
  PROVE  /\ Exported(tr) = Document(tr.spec, tr.steps, tr.stop)
         /\ tr.spec.version \in Versions /\ ValidDocument(tr.spec.version, Exported(tr))
<1>1. tr.spec.version \in {"v1", "v2", "v3"} BY VersionsOf DEF FormedTrace, Versions
<1>2. CASE tr.spec.version = "v1"
  <2>1. Exported(tr) = BuiltV1(tr) BY <1>2 DEF Exported
  <2>2. Exported(tr) = Document(tr.spec, tr.steps, tr.stop) /\ ValidV1(Exported(tr))
    BY <2>1 DEF BuiltV1, Built
  <2>3. QED BY <1>2, <2>2 DEF ValidDocument, Versions
<1>3. CASE tr.spec.version = "v2"
  <2>1. Exported(tr) = BuiltV2(tr) BY <1>3 DEF Exported
  <2>2. Exported(tr) = Document(tr.spec, tr.steps, tr.stop) /\ ValidV2(Exported(tr))
    BY <2>1 DEF BuiltV2, Built
  <2>3. QED BY <1>3, <2>2 DEF ValidDocument, Versions
<1>4. CASE tr.spec.version = "v3"
  <2>1. Exported(tr) = BuiltV3(tr) BY <1>4 DEF Exported
  <2>2. Exported(tr) = Document(tr.spec, tr.steps, tr.stop) /\ ValidV3(Exported(tr))
    BY <2>1 DEF BuiltV3, Built
  <2>3. QED BY <1>4, <2>2 DEF ValidDocument, Versions
<1>5. QED BY <1>1, <1>2, <1>3, <1>4

LEMMA ExportedIsFormed ==
  ASSUME NEW tr, FormedTrace(tr), Exported(tr) # Refused
  PROVE  Formed(Exported(tr))
  BY ExportedIs, DocumentIsFormed DEF FormedTrace

LEMMA ContractInit ==
  ASSUME Init PROVE ContractInv
<1>1. /\ spec \in Specs /\ history = <<>> /\ trace = None /\ document = None
      /\ verdict = None /\ database = None
  BY DEF Init
<1>2. None # Refused /\ None # "valid" BY ContractAssumption
<1>3. WellFormed BY <1>1 DEF WellFormed, Exists
<1>4. Judged BY <1>1, <1>2 DEF Judged
<1>5. QED BY <1>3, <1>4 DEF ContractInv

LEMMA ContractStep ==
  ASSUME ContractInv, [Next]_vars PROVE ContractInv'
<1> USE DEF ContractInv
<1>0. /\ None # Refused /\ Refused # "valid" /\ None # "valid"
      /\ Refused \notin Seq(Observation)
  BY ContractAssumption
<1>1. ASSUME UNCHANGED <<document, verdict, database>> PROVE Judged'
  BY <1>1 DEF Judged, Exists
<1>2. ASSUME NEW rec \in Observation, Complete(rec) PROVE ContractInv'
  <2>1. history' \in Seq(Observation) BY <1>2 DEF Complete, WellFormed
  <2>2. UNCHANGED <<spec, trace, document, verdict, database>> BY <1>2 DEF Complete
  <2>3. WellFormed' BY <2>1, <2>2 DEF WellFormed, Exists
  <2>4. QED BY <1>1, <2>2, <2>3
<1>3. ASSUME NEW stop \in StopReasons, MakeTrace(stop) PROVE ContractInv'
  <2>1. UNCHANGED <<spec, history, document, verdict, database>> /\ trace = None
    BY <1>3 DEF MakeTrace
  <2>2. PICK steps : steps = Captured(spec, history) OBVIOUS
  <2>3. FormedSteps(steps) BY <2>2, CapturedIsFormed DEF WellFormed
  <2>4. trace' = [spec |-> spec, steps |-> steps, stop |-> stop] BY <1>3, <2>2 DEF MakeTrace
  <2>5. PICK tr : tr = trace' OBVIOUS
  <2>6. PICK sp : sp = spec OBVIOUS
  <2>7. tr = [spec |-> sp, steps |-> steps, stop |-> stop] BY <2>4, <2>5, <2>6
  <2>8. HasFields(tr, {"spec", "steps", "stop"}) BY <2>7 DEF HasFields
  <2>9. tr.spec = sp /\ tr.steps = steps BY <2>7
  <2>10. FormedTrace(tr) BY <2>3, <2>6, <2>8, <2>9 DEF FormedTrace, WellFormed
  <2>11. ~Exists BY <2>1 DEF WellFormed
  <2>12. WellFormed' BY <2>1, <2>5, <2>10, <2>11 DEF WellFormed, Exists
  <2>13. QED BY <1>1, <2>1, <2>12
<1>4. CASE Export
  <2>1. /\ trace # None /\ document = None /\ document' = Exported(trace)
        /\ UNCHANGED <<spec, history, trace, verdict, database>>
    BY <1>4 DEF Export
  <2>2. FormedTrace(trace) BY <2>1 DEF WellFormed
  <2>3. Exists' => Formed(document') BY <2>1, <2>2, ExportedIsFormed DEF Exists
  <2>4. WellFormed' BY <2>1, <2>2, <2>3 DEF WellFormed
  <2>5. verdict = None /\ database = None BY <2>1 DEF Judged, Exists
  <2>6. Judged' BY <1>0, <2>1, <2>5 DEF Judged
  <2>7. QED BY <2>4, <2>6
<1>5. ASSUME NEW version \in Versions, Verify(version) PROVE ContractInv'
  <2>1. /\ Exists /\ verdict = None /\ UNCHANGED <<spec, history, trace, document, database>>
        /\ verdict' = IF ValidDocument(version, document) THEN "valid" ELSE Refused
    BY <1>5 DEF Verify
  <2>2. WellFormed' BY <2>1 DEF WellFormed, Exists
  <2>3. database = None BY <2>1 DEF Judged
  <2>4. verdict' # None BY <1>0, <2>1
  <2>5. verdict' = "valid" => \E v \in Versions : ValidDocument(v, document') BY <1>0, <2>1
  <2>6. Judged' BY <1>0, <2>1, <2>3, <2>4, <2>5 DEF Judged, Exists
  <2>7. QED BY <2>2, <2>6
<1>6. CASE Replay
  <2>1. /\ Exists /\ verdict # None /\ UNCHANGED <<spec, history, trace, document, verdict>>
        /\ database' = IF ValidDocument(document.schema, document) THEN Replayed(document) ELSE Refused
    BY <1>6 DEF Replay
  <2>2. WellFormed' BY <2>1 DEF WellFormed, Exists
  <2>3. Formed(document) BY <2>1 DEF WellFormed
  <2>4. ValidDocument(document.schema, document) =>
          database' = Records(document.steps) /\ database' \in Seq(Observation)
    BY <2>1, <2>3, ValidReplays
  <2>5. database' = Refused => ~ValidDocument(document.schema, document) BY <1>0, <2>4
  <2>6. database' \notin {None, Refused} =>
          ValidDocument(document.schema, document) /\ database' = Records(document.steps)
    BY <2>1, <2>4
  <2>7. Judged' BY <2>1, <2>5, <2>6 DEF Judged, Exists
  <2>8. QED BY <2>2, <2>7
<1>7. CASE EditTrace
  <2>1. /\ trace # None /\ document = None /\ UNCHANGED <<spec, history, document, verdict, database>>
        /\ \E i \in DOMAIN trace.steps : \E step \in StepEdits(trace.steps[i]) :
             trace' = [trace EXCEPT !.steps[i] = step]
    BY <1>7 DEF EditTrace
  <2>2. FormedTrace(trace) BY <2>1 DEF WellFormed
  <2>3. PICK i \in DOMAIN trace.steps : \E step \in StepEdits(trace.steps[i]) :
          trace' = [trace EXCEPT !.steps[i] = step]
    BY <2>1
  <2>4. PICK step \in StepEdits(trace.steps[i]) : trace' = [trace EXCEPT !.steps[i] = step]
    BY <2>3
  <2>5. HasFields(step, StepFields) BY <2>2, StepEdited DEF FormedTrace, FormedSteps
  <2>6. PICK steps : steps = [trace.steps EXCEPT ![i] = step] OBVIOUS
  <2>7. FormedSteps(steps) BY <2>2, <2>5, <2>6, FormedStepsEdited DEF FormedTrace
  <2>8. trace' = [trace EXCEPT !.steps = steps] BY <2>4, <2>6
  <2>9. HasFields(trace', {"spec", "steps", "stop"}) /\ trace'.spec = trace.spec /\ trace'.steps = steps
    BY <2>2, <2>8 DEF FormedTrace, HasFields
  <2>10. FormedTrace(trace') BY <2>2, <2>7, <2>9 DEF FormedTrace
  <2>11. WellFormed' BY <2>1, <2>10 DEF WellFormed, Exists
  <2>12. QED BY <1>1, <2>1, <2>11
<1>8. CASE EditDocument
  <2>1. Exists /\ verdict = None /\ UNCHANGED <<spec, history, trace, verdict, database>>
    BY <1>8 DEF EditDocument
  <2>2. Formed(document) /\ trace # None BY <2>1 DEF WellFormed
  <2>3. Formed(document') BY <1>8, <2>2, EditedIsFormed
  <2>4. WellFormed' BY <2>1, <2>2, <2>3 DEF WellFormed
  <2>5. database = None BY <2>1 DEF Judged
  <2>6. Judged' BY <1>0, <2>1, <2>5 DEF Judged
  <2>7. QED BY <2>4, <2>6
<1>9. CASE Reseal
  <2>1. /\ Exists /\ verdict = None /\ UNCHANGED <<spec, history, trace, verdict, database>>
        /\ document' = Document(document.run_spec, document.steps, document.terminal.stop)
    BY <1>9 DEF Reseal
  <2>2. Formed(document) /\ trace # None BY <2>1 DEF WellFormed
  <2>3. Formed(document') BY <2>1, <2>2, DocumentIsFormed DEF Formed
  <2>4. WellFormed' BY <2>1, <2>2, <2>3 DEF WellFormed
  <2>5. database = None BY <2>1 DEF Judged
  <2>6. Judged' BY <1>0, <2>1, <2>5 DEF Judged
  <2>7. QED BY <2>4, <2>6
<1>10. CASE UNCHANGED vars
  <2>1. UNCHANGED <<spec, history, trace, document, verdict, database>> BY <1>10 DEF vars
  <2>2. WellFormed' BY <2>1 DEF WellFormed, Exists
  <2>3. QED BY <1>1, <2>1, <2>2
<1>11. QED
  BY <1>2, <1>3, <1>4, <1>5, <1>6, <1>7, <1>8, <1>9, <1>10 DEF Next

(* The invariant of traces, documents and what is said of them.            *)
THEOREM ContractKeeps == Spec => []ContractInv
<1>1. Init => ContractInv BY ContractInit
<1>2. ContractInv /\ [Next]_vars => ContractInv' BY ContractStep
<1>3. QED BY <1>1, <1>2, PTL DEF Spec

(* Only what an honest run would have produced is verified, under any      *)
(* version, however a document was edited and sealed again.                *)
THEOREM OnlyGenuineIsAccepted ==
  ASSUME SumsAgree PROVE Spec => []AcceptedIsGenuine
<1>1. ContractInv => AcceptedIsGenuine
  <2>1. SUFFICES ASSUME ContractInv, verdict = "valid" PROVE Genuine(document)
    BY DEF AcceptedIsGenuine
  <2>2. Exists BY <2>1, ContractAssumption DEF ContractInv, Judged
  <2>3. Formed(document) BY <2>1, <2>2 DEF ContractInv, WellFormed
  <2>4. QED BY <2>1, <2>3, ValidIsGenuine DEF ContractInv, Judged
<1>2. QED BY <1>1, ContractKeeps, PTL

(* Only what an honest run would have produced is exported, whatever the   *)
(* steps of a trace were made to say through their constructors.           *)
THEOREM OnlyGenuineIsExported ==
  ASSUME SumsAgree PROVE Spec => []ExportedIsGenuine
<1>1. ContractInv => ExportedIsGenuine
  <2>1. SUFFICES ASSUME ContractInv, Exists, document = Exported(trace) PROVE Genuine(document)
    BY DEF ExportedIsGenuine
  <2>2. FormedTrace(trace) /\ Formed(document) BY <2>1 DEF ContractInv, WellFormed
  <2>3. Exported(trace) # Refused BY <2>1 DEF Exists
  <2>4. trace.spec.version \in Versions /\ ValidDocument(trace.spec.version, document)
    BY <2>1, <2>2, <2>3, ExportedIs
  <2>5. QED BY <2>2, <2>4, ValidIsGenuine
<1>2. QED BY <1>1, ContractKeeps, PTL

(* Replay never refuses what verification accepts.                         *)
THEOREM ReplayAgreesWithVerification == Spec => []ReplayAgrees
<1>1. ContractInv => ReplayAgrees BY DEF ContractInv, Judged, ReplayAgrees
<1>2. QED BY <1>1, ContractKeeps, PTL

(* A replayed database holds a history that a runner of the document's     *)
(* RunSpec resumes.                                                        *)
THEOREM ReplayedIsResumable == Spec => []ReplayedRunResumes
<1>1. ContractInv => ReplayedRunResumes
  <2>1. SUFFICES ASSUME ContractInv, database \notin {None, Refused}
                 PROVE  Resumable(document.run_spec, database)
    BY DEF ReplayedRunResumes
  <2>2. ValidDocument(document.schema, document) /\ database = Records(document.steps) /\ Exists
    BY <2>1 DEF ContractInv, Judged
  <2>3. Formed(document) BY <2>1, <2>2 DEF ContractInv, WellFormed
  <2>4. document.schema \in Versions /\ FormedSteps(document.steps) BY <2>3 DEF Formed
  <2>5. EverySound(document.run_spec, document.steps) BY <2>2, <2>3, <2>4, ValidIsSound
  <2>6. QED BY <2>2, <2>4, <2>5, SoundIsResumable
<1>2. QED BY <1>1, ContractKeeps, PTL


----------------------------------------------------------------------------
(* Recurrences: a value kept step by step exists, and is the last step     *)
(* away from the value of all but the last record.                         *)

AllButLast(records) == SubSeq(records, 1, Len(records) - 1)

LEMMA AllButLastIs ==
  ASSUME NEW S, NEW records \in Seq(S), Len(records) # 0
  PROVE  /\ AllButLast(records) \in Seq(S) /\ Len(AllButLast(records)) = Len(records) - 1
         /\ \A i \in 1 .. Len(records) - 1 : AllButLast(records)[i] = records[i]
         /\ DOMAIN AllButLast(records) = 1 .. Len(records) - 1
<1>1. Len(records) - 1 \in 0 .. Len(records) OBVIOUS
<1>2. QED BY <1>1, PrefixOf DEF AllButLast

(* f[n] is the cumulative cost of the first n records, up to n = last.     *)
AccumulatesTo(records, last, f) ==
  f = [n \in 0 .. last |-> IF n = 0 THEN 0 ELSE FAdd(f[n - 1], records[n].cost)]

LEMMA AccumulationExists ==
  ASSUME NEW records, NEW last \in Nat
  PROVE  \E f : AccumulatesTo(records, last, f)
<1> DEFINE Without == {n \in Nat : ~ \E f : AccumulatesTo(records, n, f)}
<1>1. SUFFICES ASSUME Without # {} PROVE FALSE OBVIOUS
<1>2. PICK m \in Without : \A k \in Without : m <= k BY <1>1, LeastElement
<1>3. m # 0
  <2>1. [n \in 0 .. 0 |-> 0] = [n \in 0 .. 0 |->
          IF n = 0 THEN 0 ELSE FAdd([k \in 0 .. 0 |-> 0][n - 1], records[n].cost)]
    OBVIOUS
  <2>2. AccumulatesTo(records, 0, [n \in 0 .. 0 |-> 0]) BY <2>1 DEF AccumulatesTo
  <2>3. QED BY <2>2
<1>4. PICK g : AccumulatesTo(records, m - 1, g)
  <2>1. m - 1 \in Nat /\ ~(m <= m - 1) BY <1>3
  <2>2. QED BY <1>2, <2>1
<1>5. \A n \in 0 .. m - 1 : g[n] = IF n = 0 THEN 0 ELSE FAdd(g[n - 1], records[n].cost)
  <2>1. g = [n \in 0 .. m - 1 |-> IF n = 0 THEN 0 ELSE FAdd(g[n - 1], records[n].cost)]
    BY <1>4 DEF AccumulatesTo
  <2>2. QED BY <2>1
<1> DEFINE f == [n \in 0 .. m |-> IF n = m THEN FAdd(g[m - 1], records[m].cost) ELSE g[n]]
<1>6. ASSUME NEW n \in 0 .. m
      PROVE  f[n] = IF n = 0 THEN 0 ELSE FAdd(f[n - 1], records[n].cost)
  <2>1. CASE n = m
    <3>1. f[m] = FAdd(g[m - 1], records[m].cost) /\ f[m - 1] = g[m - 1] BY <1>3
    <3>2. QED BY <1>3, <2>1, <3>1
  <2>2. CASE n # m
    <3>1. n \in 0 .. m - 1 /\ f[n] = g[n] BY <2>2
    <3>2. n # 0 => f[n - 1] = g[n - 1] BY <3>1
    <3>3. QED BY <1>5, <3>1, <3>2
  <2>3. QED BY <2>1, <2>2
<1>7. f = [n \in 0 .. m |-> f[n]] OBVIOUS
<1> HIDE DEF f
<1>8. f = [n \in 0 .. m |-> IF n = 0 THEN 0 ELSE FAdd(f[n - 1], records[n].cost)]
  BY <1>6, <1>7
<1>9. QED BY <1>8 DEF AccumulatesTo

LEMMA RunningCostStep ==
  ASSUME NEW S, NEW records \in Seq(S)
  PROVE  /\ RunningCost(records) =
              IF Len(records) = 0 THEN 0
              ELSE FAdd(RunningCost(AllButLast(records)), records[Len(records)].cost)
         /\ \A p, x, n, k : Run(p, x, n, k)!RunningCost(records) = RunningCost(records)
<1>1. Len(records) \in Nat OBVIOUS
<1>2. PICK f : AccumulatesTo(records, Len(records), f) BY <1>1, AccumulationExists
<1>3. f = [n \in 0 .. Len(records) |-> IF n = 0 THEN 0 ELSE FAdd(f[n - 1], records[n].cost)]
  BY <1>2 DEF AccumulatesTo
<1>4. Accumulates(records, f) BY <1>3 DEF Accumulates
<1>5. RunningCost(records) = f[Len(records)] BY <1>1, <1>4, RunningCostIs
<1>6. \A n \in 0 .. Len(records) : f[n] = IF n = 0 THEN 0 ELSE FAdd(f[n - 1], records[n].cost)
  BY <1>3
<1>7. ASSUME Len(records) # 0
      PROVE  RunningCost(AllButLast(records)) = f[Len(records) - 1]
  <2> DEFINE few == AllButLast(records)
             g == [n \in 0 .. Len(records) - 1 |-> f[n]]
  <2>1. /\ Len(few) = Len(records) - 1 /\ Len(few) \in Nat
        /\ \A i \in 1 .. Len(few) : few[i] = records[i]
    BY <1>7, AllButLastIs
  <2>2. ASSUME NEW n \in 0 .. Len(few)
        PROVE  g[n] = IF n = 0 THEN 0 ELSE FAdd(g[n - 1], few[n].cost)
    <3>1. n \in 0 .. Len(records) /\ g[n] = f[n] /\ (n # 0 => g[n - 1] = f[n - 1]) BY <2>1
    <3>2. n # 0 => few[n] = records[n] BY <2>1
    <3>3. QED BY <1>6, <3>1, <3>2
  <2>3. g = [n \in 0 .. Len(few) |-> g[n]] BY <2>1
  <2> HIDE DEF g
  <2>4. g = [n \in 0 .. Len(few) |-> IF n = 0 THEN 0 ELSE FAdd(g[n - 1], few[n].cost)]
    BY <2>2, <2>3
  <2>5. Accumulates(few, g) BY <2>4 DEF Accumulates
  <2>6. RunningCost(few) = g[Len(few)] BY <2>1, <2>5, RunningCostIs
  <2>7. g[Len(records) - 1] = f[Len(records) - 1] BY <1>1, <1>7 DEF g
  <2>8. QED BY <2>1, <2>6, <2>7
<1>8. Len(records) = 0 => RunningCost(records) = 0 BY <1>1, <1>5, <1>6
<1>9. Len(records) # 0 =>
        RunningCost(records) = FAdd(RunningCost(AllButLast(records)), records[Len(records)].cost)
  BY <1>1, <1>5, <1>6, <1>7
<1>10. \A p, x, n, k : Run(p, x, n, k)!RunningCost(records) = RunningCost(records)
  BY <1>1, <1>4, <1>5, RunAccumulates
<1>11. QED BY <1>8, <1>9, <1>10

----------------------------------------------------------------------------
(* Beliefs.                                                                *)

Evidence(weights) == weights \in Seq(Nat) /\ \E k \in DOMAIN weights : weights[k] # 0
Weights == [DOMAIN Prior -> 0 .. MaxWeight]

(* What a record makes of the belief before it.                            *)
Revised(sp, belief, rec) ==
  IF belief = <<>> THEN <<>>
  ELSE Run(sp.policy, PickIndexOf(sp), sp.count, sp.cost)!UpdateBelief(belief, rec.candidate,
         Run(sp.policy, PickIndexOf(sp), sp.count, sp.cost)!ClassifyObservation(rec.value))

(* f[n] is the belief after the first n records, up to n = last.           *)
RevisesTo(sp, records, last, f) ==
  f = [n \in 0 .. last |-> IF n = 0 THEN Prior ELSE Revised(sp, f[n - 1], records[n])]

LEMMA RevisionExists ==
  ASSUME NEW sp, NEW records, NEW last \in Nat
  PROVE  \E f : RevisesTo(sp, records, last, f)
<1> DEFINE Without == {n \in Nat : ~ \E f : RevisesTo(sp, records, n, f)}
<1>1. SUFFICES ASSUME Without # {} PROVE FALSE OBVIOUS
<1>2. PICK m \in Without : \A k \in Without : m <= k BY <1>1, LeastElement
<1>3. m # 0
  <2>1. [n \in 0 .. 0 |-> Prior] = [n \in 0 .. 0 |->
          IF n = 0 THEN Prior ELSE Revised(sp, [k \in 0 .. 0 |-> Prior][n - 1], records[n])]
    OBVIOUS
  <2>2. RevisesTo(sp, records, 0, [n \in 0 .. 0 |-> Prior]) BY <2>1 DEF RevisesTo
  <2>3. QED BY <2>2
<1>4. PICK g : RevisesTo(sp, records, m - 1, g)
  <2>1. m - 1 \in Nat /\ ~(m <= m - 1) BY <1>3
  <2>2. QED BY <1>2, <2>1
<1>5. \A n \in 0 .. m - 1 : g[n] = IF n = 0 THEN Prior ELSE Revised(sp, g[n - 1], records[n])
  <2>1. g = [n \in 0 .. m - 1 |-> IF n = 0 THEN Prior ELSE Revised(sp, g[n - 1], records[n])]
    BY <1>4 DEF RevisesTo
  <2>2. QED BY <2>1
<1> DEFINE f == [n \in 0 .. m |-> IF n = m THEN Revised(sp, g[m - 1], records[m]) ELSE g[n]]
<1>6. ASSUME NEW n \in 0 .. m
      PROVE  f[n] = IF n = 0 THEN Prior ELSE Revised(sp, f[n - 1], records[n])
  <2>1. CASE n = m
    <3>1. f[m] = Revised(sp, g[m - 1], records[m]) /\ f[m - 1] = g[m - 1] BY <1>3
    <3>2. QED BY <1>3, <2>1, <3>1
  <2>2. CASE n # m
    <3>1. n \in 0 .. m - 1 /\ f[n] = g[n] BY <2>2
    <3>2. n # 0 => f[n - 1] = g[n - 1] BY <3>1
    <3>3. QED BY <1>5, <3>1, <3>2
  <2>3. QED BY <2>1, <2>2
<1>7. f = [n \in 0 .. m |-> f[n]] OBVIOUS
<1> HIDE DEF f
<1>8. f = [n \in 0 .. m |-> IF n = 0 THEN Prior ELSE Revised(sp, f[n - 1], records[n])]
  BY <1>6, <1>7
<1>9. QED BY <1>8 DEF RevisesTo

LEMMA OneRevision ==
  ASSUME NEW sp, NEW records, NEW last \in Nat, NEW f, NEW g,
         RevisesTo(sp, records, last, f), RevisesTo(sp, records, last, g)
  PROVE  f[last] = g[last]
<1> DEFINE Apart == {n \in 0 .. last : f[n] # g[n]}
<1>1. SUFFICES ASSUME Apart # {} PROVE FALSE OBVIOUS
<1>2. Apart \in SUBSET Nat OBVIOUS
<1>3. PICK m \in Apart : \A k \in Apart : m <= k BY <1>1, <1>2, LeastElement
<1>4. \A n \in 0 .. last : f[n] = IF n = 0 THEN Prior ELSE Revised(sp, f[n - 1], records[n])
  <2>1. f = [n \in 0 .. last |-> IF n = 0 THEN Prior ELSE Revised(sp, f[n - 1], records[n])]
    BY DEF RevisesTo
  <2>2. QED BY <2>1
<1>5. \A n \in 0 .. last : g[n] = IF n = 0 THEN Prior ELSE Revised(sp, g[n - 1], records[n])
  <2>1. g = [n \in 0 .. last |-> IF n = 0 THEN Prior ELSE Revised(sp, g[n - 1], records[n])]
    BY DEF RevisesTo
  <2>2. QED BY <2>1
<1>6. m \in 0 .. last /\ f[m] # g[m] OBVIOUS
<1>7. m # 0 BY <1>4, <1>5, <1>6
<1>8. m - 1 \in 0 .. last /\ ~(m <= m - 1) BY <1>6, <1>7
<1>9. f[m - 1] = g[m - 1] BY <1>3, <1>8
<1>10. QED BY <1>4, <1>5, <1>6, <1>7, <1>9

(* A belief that is revised step by step is the belief after the records.  *)
LEMMA BeliefIs ==
  ASSUME NEW sp, NEW records, Len(records) \in Nat, NEW f, RevisesTo(sp, records, Len(records), f)
  PROVE  Belief(sp, records) = f[Len(records)]
<1> DEFINE Solves(h) ==
      h = [n \in 0 .. Len(records) |->
            IF n = 0 THEN Prior
            ELSE IF h[n - 1] = Run(sp.policy, PickIndexOf(sp), sp.count, sp.cost)!NoBelief
                 THEN Run(sp.policy, PickIndexOf(sp), sp.count, sp.cost)!NoBelief
                 ELSE Run(sp.policy, PickIndexOf(sp), sp.count, sp.cost)!UpdateBelief(
                        h[n - 1], records[n].candidate,
                        Run(sp.policy, PickIndexOf(sp), sp.count, sp.cost)!ClassifyObservation(
                          records[n].value))]
<1>1. \A h : Solves(h) <=> RevisesTo(sp, records, Len(records), h)
  BY DEF RevisesTo, Revised, Run!NoBelief
<1>2. PICK g : g = CHOOSE h : Solves(h) OBVIOUS
<1>3. Belief(sp, records) = g[Len(records)] BY <1>2 DEF Belief, Run!BeliefAfter
<1> HIDE DEF Solves
<1>4. RevisesTo(sp, records, Len(records), g) BY <1>1, <1>2
<1>5. QED BY <1>3, <1>4, OneRevision

LEMMA BeliefStep ==
  ASSUME NEW sp, NEW S, NEW records \in Seq(S)
  PROVE  Belief(sp, records) =
           IF Len(records) = 0 THEN Prior
           ELSE Revised(sp, Belief(sp, AllButLast(records)), records[Len(records)])
<1>1. Len(records) \in Nat OBVIOUS
<1>2. PICK f : RevisesTo(sp, records, Len(records), f) BY <1>1, RevisionExists
<1>3. f = [n \in 0 .. Len(records) |-> IF n = 0 THEN Prior ELSE Revised(sp, f[n - 1], records[n])]
  BY <1>2 DEF RevisesTo
<1>4. Belief(sp, records) = f[Len(records)] BY <1>1, <1>2, BeliefIs
<1>5. \A n \in 0 .. Len(records) : f[n] = IF n = 0 THEN Prior ELSE Revised(sp, f[n - 1], records[n])
  BY <1>3
<1>6. ASSUME Len(records) # 0
      PROVE  Belief(sp, AllButLast(records)) = f[Len(records) - 1]
  <2> DEFINE few == AllButLast(records)
             g == [n \in 0 .. Len(records) - 1 |-> f[n]]
  <2>1. /\ Len(few) = Len(records) - 1 /\ Len(few) \in Nat
        /\ \A i \in 1 .. Len(few) : few[i] = records[i]
    BY <1>6, AllButLastIs
  <2>2. ASSUME NEW n \in 0 .. Len(few)
        PROVE  g[n] = IF n = 0 THEN Prior ELSE Revised(sp, g[n - 1], few[n])
    <3>1. n \in 0 .. Len(records) /\ g[n] = f[n] /\ (n # 0 => g[n - 1] = f[n - 1]) BY <2>1
    <3>2. n # 0 => few[n] = records[n] BY <2>1
    <3>3. QED BY <1>5, <3>1, <3>2
  <2>3. g = [n \in 0 .. Len(few) |-> g[n]] BY <2>1
  <2> HIDE DEF g
  <2>4. g = [n \in 0 .. Len(few) |-> IF n = 0 THEN Prior ELSE Revised(sp, g[n - 1], few[n])]
    BY <2>2, <2>3
  <2>5. RevisesTo(sp, few, Len(few), g) BY <2>4 DEF RevisesTo
  <2>6. Belief(sp, few) = g[Len(few)] BY <2>1, <2>5, BeliefIs
  <2>7. g[Len(records) - 1] = f[Len(records) - 1] BY <1>1, <1>6 DEF g
  <2>8. QED BY <2>1, <2>6, <2>7
<1>7. Len(records) = 0 => Belief(sp, records) = Prior BY <1>1, <1>4, <1>5
<1>8. Len(records) # 0 =>
        Belief(sp, records) = Revised(sp, Belief(sp, AllButLast(records)), records[Len(records)])
  BY <1>1, <1>4, <1>5, <1>6
<1>9. QED BY <1>7, <1>8

(* The divisor that reduces a belief divides every weight.                 *)
LEMMA DivisorDivides ==
  ASSUME NEW p, NEW x, NEW n, NEW q, MaxWeight \in Nat \ {0},
         NEW weights, \A k \in DOMAIN weights : weights[k] \in Nat
  PROVE  LET d == Run(p, x, n, q)!GCDOf(weights)
         IN  d \in 1 .. MaxWeight /\ \A k \in DOMAIN weights : weights[k] % d = 0
<1> DEFINE Common(d) == \A k \in DOMAIN weights : weights[k] % d = 0
           Greatest(d) == Common(d) /\ \A e \in (d + 1) .. MaxWeight : ~Common(e)
<1>1. \E d \in 1 .. MaxWeight : Greatest(d)
  <2> DEFINE Slack == {s \in 0 .. MaxWeight - 1 : Common(MaxWeight - s)}
  <2>1. MaxWeight - 1 \in Slack
    <3>1. \A k \in DOMAIN weights : weights[k] % 1 = 0 OBVIOUS
    <3>2. MaxWeight - (MaxWeight - 1) = 1 OBVIOUS
    <3>3. QED BY <3>1, <3>2
  <2>2. Slack \in SUBSET Nat OBVIOUS
  <2>3. PICK s \in Slack : \A t \in Slack : s <= t BY <2>1, <2>2, LeastElement
  <2>4. MaxWeight - s \in 1 .. MaxWeight /\ Common(MaxWeight - s) OBVIOUS
  <2>5. ASSUME NEW e \in (MaxWeight - s + 1) .. MaxWeight, Common(e) PROVE FALSE
    <3>1. MaxWeight - (MaxWeight - e) = e /\ MaxWeight - e \in 0 .. MaxWeight - 1 OBVIOUS
    <3>2. MaxWeight - e \in Slack BY <2>5, <3>1
    <3>3. ~(s <= MaxWeight - e) BY <2>4
    <3>4. QED BY <2>3, <3>2, <3>3
  <2> HIDE DEF Common
  <2>6. Greatest(MaxWeight - s) BY <2>4, <2>5
  <2>7. QED BY <2>4, <2>6
<1>2. \A d : (\A e \in (d + 1) .. MaxWeight : \E k \in DOMAIN weights : ~(weights[k] % e = 0))
        <=> (\A e \in (d + 1) .. MaxWeight : ~Common(e))
  OBVIOUS
<1>3. PICK g : g = CHOOSE d \in 1 .. MaxWeight :
                 /\ \A k \in DOMAIN weights : weights[k] % d = 0
                 /\ \A e \in (d + 1) .. MaxWeight : \E k \in DOMAIN weights : ~(weights[k] % e = 0)
  OBVIOUS
<1>4. Run(p, x, n, q)!GCDOf(weights) = g BY <1>3 DEF Run!GCDOf, Run!Divides
<1>5. g \in 1 .. MaxWeight /\ Common(g)
  <2>1. \E d \in 1 .. MaxWeight :
          /\ \A k \in DOMAIN weights : weights[k] % d = 0
          /\ \A e \in (d + 1) .. MaxWeight : \E k \in DOMAIN weights : ~(weights[k] % e = 0)
    BY <1>1, <1>2
  <2>2. QED BY <1>3, <2>1
<1>6. QED BY <1>4, <1>5

LEMMA OutcomeOf ==
  ASSUME NEW p, NEW x, NEW n, NEW q, NEW value
  PROVE  Run(p, x, n, q)!ClassifyObservation(value) \in 1 .. Len(Thresholds) + 1
<1> DEFINE passed == {i \in DOMAIN Thresholds : Thresholds[i] <= value}
<1>1. Len(Thresholds) \in Nat /\ DOMAIN Thresholds = 1 .. Len(Thresholds) BY ContractAssumption
<1>2. IsFiniteSet(1 .. Len(Thresholds)) /\ Cardinality(1 .. Len(Thresholds)) = Len(Thresholds)
  <2>1. 1 \in Int /\ Len(Thresholds) \in Int BY <1>1
  <2>2. /\ IsFiniteSet(1 .. Len(Thresholds))
        /\ Cardinality(1 .. Len(Thresholds)) =
             IF 1 > Len(Thresholds) THEN 0 ELSE Len(Thresholds) - 1 + 1
    BY <2>1, FS_Interval
  <2>3. QED BY <1>1, <2>2
<1>3. passed \subseteq 1 .. Len(Thresholds) BY <1>1
<1>4. IsFiniteSet(passed) /\ Cardinality(passed) <= Len(Thresholds) BY <1>2, <1>3, FS_Subset
<1>5. Cardinality(passed) \in Nat BY <1>4, FS_CardinalityType
<1>6. Run(p, x, n, q)!Cardinality(passed) = Cardinality(passed) BY RunCounts
<1>7. Run(p, x, n, q)!ClassifyObservation(value) = 1 + Run(p, x, n, q)!Cardinality(passed)
  BY DEF Run!ClassifyObservation
<1> HIDE DEF passed
<1>8. QED BY <1>1, <1>4, <1>5, <1>6, <1>7

LEMMA WeightsAre ==
  /\ Len(Prior) \in Nat \ {0} /\ DOMAIN Prior = 1 .. Len(Prior) /\ MaxWeight \in Nat \ {0}
  /\ Prior \in Weights /\ Evidence(Prior) /\ <<>> \notin Weights
  /\ \A b \in Weights : b \in Seq(Nat) /\ DOMAIN b = DOMAIN Prior
                        /\ \A k \in DOMAIN Prior : b[k] \in 0 .. MaxWeight
<1>1. Prior \in Seq(1 .. MaxWeight) /\ Prior # <<>> /\ MaxWeight \in Nat BY ContractAssumption
<1>2. Len(Prior) \in Nat /\ DOMAIN Prior = 1 .. Len(Prior) /\ Len(Prior) # 0
  BY <1>1, EmptySeq
<1>3. \A k \in 1 .. Len(Prior) : Prior[k] \in 1 .. MaxWeight BY <1>1, <1>2
<1>4. 1 \in 1 .. Len(Prior) BY <1>2
<1>5. MaxWeight # 0 BY <1>1, <1>3, <1>4
<1>6. Prior \in Weights
  <2>1. Prior = [k \in 1 .. Len(Prior) |-> Prior[k]] BY <1>1, <1>2
  <2>2. \A k \in 1 .. Len(Prior) : Prior[k] \in 0 .. MaxWeight BY <1>1, <1>3
  <2>3. QED BY <1>2, <2>1, <2>2 DEF Weights
<1>7. \A b \in Weights : b \in Seq(Nat) /\ DOMAIN b = DOMAIN Prior
                         /\ \A k \in DOMAIN Prior : b[k] \in 0 .. MaxWeight
  <2>1. TAKE b \in Weights
  <2>2. b \in [1 .. Len(Prior) -> 0 .. MaxWeight] BY <1>2 DEF Weights
  <2>3. b \in [1 .. Len(Prior) -> Nat] BY <1>1, <2>2
  <2>4. b \in Seq(Nat) BY <1>2, <2>3
  <2>5. QED BY <1>2, <2>2, <2>4
<1>8. Evidence(Prior)
  <2>1. Prior \in Seq(Nat) BY <1>6, <1>7
  <2>2. Prior[1] # 0 BY <1>1, <1>3, <1>4
  <2>3. QED BY <1>2, <1>4, <2>1, <2>2 DEF Evidence
<1>9. <<>> \notin Weights
  <2>1. DOMAIN <<>> = {} OBVIOUS
  <2>2. QED BY <1>2, <1>4, <1>7, <2>1
<1>10. QED BY <1>1, <1>2, <1>5, <1>6, <1>7, <1>8, <1>9

(* A possible outcome leaves some weight to some hypothesis.               *)
LEMMA RevisedIsEvidence ==
  ASSUME NEW sp, NEW belief \in Weights, NEW rec \in Observation, Revised(sp, belief, rec) \in Weights
  PROVE  Evidence(Revised(sp, belief, rec))
<1> DEFINE outcome == Run(sp.policy, PickIndexOf(sp), sp.count, sp.cost)!ClassifyObservation(rec.value)
           products == [k \in DOMAIN Prior |-> belief[k] * Likelihood[rec.candidate][outcome][k]]
           divisor == Run(sp.policy, PickIndexOf(sp), sp.count, sp.cost)!GCDOf(products)
           after == Revised(sp, belief, rec)
<1>1. outcome \in 1 .. Len(Thresholds) + 1 BY OutcomeOf
<1>2. rec.candidate \in Candidates BY DEF Observation
<1>3. belief # <<>> BY WeightsAre
<1>4. after = Run(sp.policy, PickIndexOf(sp), sp.count, sp.cost)!UpdateBelief(
                belief, rec.candidate, outcome)
  BY <1>3 DEF Revised
<1>5. after = IF \/ \E k \in DOMAIN Prior : products[k] > MaxWeight
                 \/ \A k \in DOMAIN Prior : products[k] = 0
              THEN <<>> ELSE [k \in DOMAIN Prior |-> products[k] \div divisor]
  BY <1>4 DEF Run!UpdateBelief, Run!Hypotheses, Run!NoBelief
<1>6. \A k \in DOMAIN Prior : products[k] \in Nat
  <2>1. TAKE k \in DOMAIN Prior
  <2> DEFINE likelihood == Likelihood[rec.candidate][outcome][k]
  <2>2. likelihood \in Nat
    <3> HIDE DEF outcome
    <3>1. QED BY <1>1, <1>2, ContractAssumption
  <2>3. belief[k] \in Nat BY WeightsAre
  <2>4. products[k] = belief[k] * likelihood OBVIOUS
  <2> HIDE DEF likelihood, products
  <2>5. QED BY <2>2, <2>3, <2>4
<1>7. DOMAIN products = DOMAIN Prior OBVIOUS
<1> HIDE DEF outcome, products
<1>8. divisor \in 1 .. MaxWeight /\ \A k \in DOMAIN Prior : products[k] % divisor = 0
  BY <1>6, <1>7, WeightsAre, DivisorDivides
<1> HIDE DEF divisor, after
<1>9. after # <<>> BY WeightsAre DEF after
<1>10. PICK k \in DOMAIN Prior : products[k] # 0 BY <1>5, <1>9
<1>11. after[k] = products[k] \div divisor BY <1>5, <1>9
<1>12. products[k] \div divisor # 0
  <2>1. products[k] \in Nat /\ divisor \in Nat \ {0} /\ products[k] % divisor = 0
    BY <1>6, <1>8, WeightsAre
  <2>2. \A a \in Nat, d \in Nat \ {0} : a % d = 0 /\ a \div d = 0 => a = 0 OBVIOUS
  <2>3. QED BY <1>10, <2>1, <2>2
<1>13. after \in Seq(Nat) /\ DOMAIN after = DOMAIN Prior BY WeightsAre DEF after
<1>14. QED BY <1>11, <1>12, <1>13 DEF Evidence, after

----------------------------------------------------------------------------
(* Selections of an honest run.                                            *)

LEMMA BestIsUnique ==
  ASSUME NEW p, NEW x, NEW n, NEW q, NEW score, NEW A \in SUBSET Int, \A e \in A : score[e] \in Int,
         NEW c \in A, NEW d \in A,
         Run(p, x, n, q)!FirstBest(score, A, c), Run(p, x, n, q)!FirstBest(score, A, d)
  PROVE  c = d
<1>1. score[d] < score[c] \/ (score[d] = score[c] /\ c <= d) BY DEF Run!FirstBest
<1>2. score[c] < score[d] \/ (score[c] = score[d] /\ d <= c) BY DEF Run!FirstBest
<1>3. score[c] \in Int /\ score[d] \in Int /\ c \in Int /\ d \in Int OBVIOUS
<1>4. QED BY <1>1, <1>2, <1>3

(* No policy picks two candidates after one history.                       *)
LEMMA SelectsOne ==
  ASSUME NEW sp \in Specs, NEW h, NEW c, Selects(sp, h, c)
  PROVE  c \in Candidates /\ Selected(sp, h) = c
<1>1. PICK A : A = Run(sp.policy, PickIndexOf(sp), sp.count, sp.cost)!Available(h) OBVIOUS
<1>2. A \subseteq Candidates BY <1>1 DEF Run!Available, Run!Candidates, Candidates
<1>3. A \in SUBSET Int
  <2>1. CandidateCount \in Int BY ContractAssumption
  <2>2. QED BY <1>2, <2>1 DEF Candidates
<1>4. \A e : Selects(sp, h, e) => e \in A
  <2>1. SUFFICES ASSUME NEW e, Selects(sp, h, e) PROVE e \in A OBVIOUS
  <2>2. Run(sp.policy, PickIndexOf(sp), sp.count, sp.cost)!Picks(h, e) BY <2>1 DEF Selects
  <2>3. QED BY <1>1, <2>2 DEF Run!Picks
<1>5. ASSUME NEW d, Selects(sp, h, d) PROVE d = c
  <2>1. sp.policy \in {"random", "greedy_prior", "information_gain_table"}
    BY VersionsOf DEF Versions
  <2>2. CASE sp.policy = "random" BY <1>5, <2>2, RandomPicksOne
  <2>3. CASE sp.policy = "greedy_prior"
    <3>1. ASSUME NEW e, Selects(sp, h, e)
          PROVE  Run(sp.policy, PickIndexOf(sp), sp.count, sp.cost)!FirstBest(Utility, A, e)
      <4>1. Run(sp.policy, PickIndexOf(sp), sp.count, sp.cost)!Picks(h, e) BY <3>1 DEF Selects
      <4>2. Run(sp.policy, PickIndexOf(sp), sp.count, sp.cost)!PicksGreedyPrior(h, e)
        BY <2>3, <4>1 DEF Run!Picks
      <4>3. QED BY <1>1, <4>2 DEF Run!PicksGreedyPrior
    <3>2. \A e \in A : Utility[e] \in Int BY <1>2, ContractAssumption
    <3>3. c \in A /\ d \in A BY <1>4, <1>5
    <3>4. QED BY <1>3, <1>5, <3>1, <3>2, <3>3, BestIsUnique
  <2>4. CASE sp.policy = "information_gain_table"
    <3> DEFINE belief == Belief(sp, h)
               gain == [e \in Candidates |-> Gain(e, belief)]
    <3>1. ASSUME NEW e, Selects(sp, h, e)
          PROVE  /\ belief \in Weights
                 /\ Run(sp.policy, PickIndexOf(sp), sp.count, sp.cost)!FirstBest(gain, A, e)
      <4>1. Run(sp.policy, PickIndexOf(sp), sp.count, sp.cost)!Picks(h, e) BY <3>1 DEF Selects
      <4>2. Run(sp.policy, PickIndexOf(sp), sp.count, sp.cost)!PicksInformationGain(h, e)
        BY <2>4, <4>1 DEF Run!Picks
      <4>3. QED
        BY <1>1, <4>2 DEF Run!PicksInformationGain, Run!Beliefs, Run!Hypotheses, Weights, Belief,
                          Run!Candidates, Candidates
    <3>2. \A e \in A : gain[e] \in Int
      <4>1. \A e \in Candidates : \A b \in [DOMAIN Prior -> 0 .. MaxWeight] : Gain(e, b) \in Int
        BY ContractAssumption
      <4>2. belief \in [DOMAIN Prior -> 0 .. MaxWeight] BY <1>5, <3>1 DEF Weights
      <4> HIDE DEF belief
      <4>3. QED BY <1>2, <4>1, <4>2
    <3>3. c \in A /\ d \in A BY <1>4, <1>5
    <3> HIDE DEF gain
    <3>4. QED BY <1>3, <1>5, <3>1, <3>2, <3>3, BestIsUnique
  <2>5. QED BY <2>1, <2>2, <2>3, <2>4
<1>6. c \in Candidates BY <1>2, <1>4
<1>7. PICK d : d = CHOOSE e \in Candidates : Selects(sp, h, e) OBVIOUS
<1>8. Selects(sp, h, d) BY <1>6, <1>7
<1>9. QED BY <1>5, <1>6, <1>7, <1>8 DEF Selected

(* What a policy picks has not been completed.                             *)
LEMMA SelectsNew ==
  ASSUME NEW sp, NEW h, NEW c, Selects(sp, h, c)
  PROVE  \A i \in DOMAIN h : h[i].candidate # c
<1>1. Run(sp.policy, PickIndexOf(sp), sp.count, sp.cost)!Picks(h, c) BY DEF Selects
<1>2. c \in Run(sp.policy, PickIndexOf(sp), sp.count, sp.cost)!Available(h) BY <1>1 DEF Run!Picks
<1>3. QED BY <1>2 DEF Run!Available, Run!Completed

(* A history that a run of sp can have, with all its evidence possible.    *)
Honest(sp, records) ==
  /\ records \in Seq(Observation) /\ Len(records) <= sp.count
  /\ \A i \in DOMAIN records :
       /\ Admissible(sp, SubSeq(records, 1, i - 1), records[i])
       /\ HasLineage(sp, SubSeq(records, 1, i - 1), records[i])

LEMMA AdmissibleIs ==
  ASSUME NEW sp, NEW h, NEW rec, Admissible(sp, h, rec)
  PROVE  /\ Selects(sp, h, rec.candidate) /\ Len(h) < sp.count
         /\ ~Exhausted(sp, SpentCost(h)) /\ ~Exceeded(sp, FAdd(SpentCost(h), rec.cost))
<1>1. Run(sp.policy, PickIndexOf(sp), sp.count, sp.cost)!Admissible(h, rec) BY DEF Admissible
<1>2. Selects(sp, h, rec.candidate) BY <1>1 DEF Run!Admissible, Selects
<1>3. PICK spent : spent = SpentCost(h) OBVIOUS
<1>4. Run(sp.policy, PickIndexOf(sp), sp.count, sp.cost)!SpentCost(h) = spent BY <1>3, RunSpends
<1>5. Len(h) < sp.count /\ ~Run(sp.policy, PickIndexOf(sp), sp.count, sp.cost)!CostExhausted(spent)
  BY <1>1, <1>4 DEF Run!Admissible, Run!MayExperiment
<1>6. ~Run(sp.policy, PickIndexOf(sp), sp.count, sp.cost)!CostExceeded(FAdd(spent, rec.cost))
  <2>1. Run(sp.policy, PickIndexOf(sp), sp.count, sp.cost)!FAdd(spent, rec.cost) = FAdd(spent, rec.cost)
    BY RunAdds
  <2>2. QED BY <1>1, <1>4, <2>1 DEF Run!Admissible, Run!Affordable
<1>7. ~Exhausted(sp, spent) BY <1>5 DEF Run!CostExhausted, Exhausted
<1>8. ~Exceeded(sp, FAdd(spent, rec.cost)) BY <1>6 DEF Run!CostExceeded, Exceeded
<1>9. QED BY <1>2, <1>3, <1>5, <1>7, <1>8

----------------------------------------------------------------------------
(* The eligible candidates, in the order of the RunSpec.                   *)

(* f[c] lists those of the first c candidates that are not in done.        *)
ListsTo(done, last, f) ==
  f = [c \in 0 .. last |->
        IF c = 0 THEN <<>> ELSE IF Contains(done, c) THEN f[c - 1] ELSE Append(f[c - 1], c)]

LEMMA ListExists ==
  ASSUME NEW done, NEW last \in Nat
  PROVE  \E f : ListsTo(done, last, f)
<1> DEFINE Without == {n \in Nat : ~ \E f : ListsTo(done, n, f)}
<1>1. SUFFICES ASSUME Without # {} PROVE FALSE OBVIOUS
<1>2. PICK m \in Without : \A k \in Without : m <= k BY <1>1, LeastElement
<1>3. m # 0
  <2>1. [c \in 0 .. 0 |-> <<>>] = [c \in 0 .. 0 |->
          IF c = 0 THEN <<>> ELSE IF Contains(done, c) THEN [k \in 0 .. 0 |-> <<>>][c - 1]
                                  ELSE Append([k \in 0 .. 0 |-> <<>>][c - 1], c)]
    OBVIOUS
  <2>2. ListsTo(done, 0, [c \in 0 .. 0 |-> <<>>]) BY <2>1 DEF ListsTo
  <2>3. QED BY <2>2
<1>4. PICK g : ListsTo(done, m - 1, g)
  <2>1. m - 1 \in Nat /\ ~(m <= m - 1) BY <1>3
  <2>2. QED BY <1>2, <2>1
<1> DEFINE Next1(before, c) == IF Contains(done, c) THEN before ELSE Append(before, c)
<1>5. \A c \in 0 .. m - 1 : g[c] = IF c = 0 THEN <<>> ELSE Next1(g[c - 1], c)
  <2>1. g = [c \in 0 .. m - 1 |-> IF c = 0 THEN <<>> ELSE Next1(g[c - 1], c)]
    BY <1>4 DEF ListsTo
  <2>2. QED BY <2>1
<1> DEFINE f == [c \in 0 .. m |-> IF c = m THEN Next1(g[m - 1], m) ELSE g[c]]
<1> HIDE DEF Next1
<1>6. ASSUME NEW c \in 0 .. m
      PROVE  f[c] = IF c = 0 THEN <<>> ELSE Next1(f[c - 1], c)
  <2>1. CASE c = m
    <3>1. f[m] = Next1(g[m - 1], m) /\ f[m - 1] = g[m - 1] BY <1>3
    <3>2. QED BY <1>3, <2>1, <3>1
  <2>2. CASE c # m
    <3>1. c \in 0 .. m - 1 /\ f[c] = g[c] BY <2>2
    <3>2. c # 0 => f[c - 1] = g[c - 1] BY <3>1
    <3>3. QED BY <1>5, <3>1, <3>2
  <2>3. QED BY <2>1, <2>2
<1>7. f = [c \in 0 .. m |-> f[c]] OBVIOUS
<1> HIDE DEF f
<1>8. f = [c \in 0 .. m |-> IF c = 0 THEN <<>> ELSE Next1(f[c - 1], c)]
  BY <1>6, <1>7
<1>9. QED BY <1>8 DEF ListsTo, Next1

(* Each eligible candidate is listed, once.                                *)
Lists(ids, last, done) ==
  /\ ids \in Seq(1 .. last) /\ IsInjective(ids)
  /\ Range(ids) = {c \in 1 .. last : ~Contains(done, c)}

LEMMA ListsIs ==
  ASSUME NEW done, NEW last \in Nat, NEW f, ListsTo(done, last, f)
  PROVE  Lists(f[last], last, done)
<1> DEFINE Wrong == {n \in 0 .. last : ~Lists(f[n], n, done)}
<1>1. SUFFICES ASSUME Wrong # {} PROVE FALSE OBVIOUS
<1>2. Wrong \in SUBSET Nat OBVIOUS
<1>3. PICK m \in Wrong : \A k \in Wrong : m <= k BY <1>1, <1>2, LeastElement
<1>4. \A c \in 0 .. last : f[c] = IF c = 0 THEN <<>>
                                  ELSE IF Contains(done, c) THEN f[c - 1] ELSE Append(f[c - 1], c)
  <2>1. f = [c \in 0 .. last |->
              IF c = 0 THEN <<>> ELSE IF Contains(done, c) THEN f[c - 1] ELSE Append(f[c - 1], c)]
    BY DEF ListsTo
  <2>2. QED BY <2>1
<1>5. m \in 0 .. last /\ ~Lists(f[m], m, done) OBVIOUS
<1>6. m # 0
  <2>1. f[0] = <<>> BY <1>4
  <2>2. <<>> \in Seq(1 .. 0) /\ Range(<<>>) = {} /\ IsInjective(<<>>) BY DEF Range, IsInjective
  <2>3. Lists(<<>>, 0, done) BY <2>2 DEF Lists
  <2>4. QED BY <1>5, <2>1, <2>3
<1>7. m - 1 \in 0 .. last /\ m - 1 \notin Wrong
  <2>1. m - 1 \in 0 .. last /\ ~(m <= m - 1) BY <1>5, <1>6
  <2>2. QED BY <1>3, <2>1
<1> DEFINE before == f[m - 1]
<1>8. Lists(before, m - 1, done) BY <1>7
<1>9. /\ before \in Seq(1 .. m - 1) /\ IsInjective(before)
      /\ Range(before) = {c \in 1 .. m - 1 : ~Contains(done, c)}
  BY <1>8 DEF Lists
<1>10. before \in Seq(1 .. m)
  <2>1. 1 .. m - 1 \subseteq 1 .. m BY <1>5
  <2>2. QED BY <1>9, <2>1
<1>11. f[m] = IF Contains(done, m) THEN before ELSE Append(before, m) BY <1>4, <1>5, <1>6
<1> HIDE DEF before
<1>12. CASE Contains(done, m)
  <2>1. {c \in 1 .. m - 1 : ~Contains(done, c)} = {c \in 1 .. m : ~Contains(done, c)}
    <3>1. \A c : c \in 1 .. m <=> c \in 1 .. m - 1 \/ c = m BY <1>5, <1>6
    <3>2. QED BY <1>12, <3>1, Zenon
  <2>2. Lists(before, m, done) BY <1>9, <1>10, <2>1 DEF Lists
  <2>3. QED BY <1>5, <1>11, <1>12, <2>2
<1>13. CASE ~Contains(done, m)
  <2> DEFINE after == Append(before, m)
  <2>1. f[m] = after BY <1>11, <1>13
  <2>2. /\ after \in Seq(1 .. m) /\ Len(after) = Len(before) + 1 /\ Len(before) \in Nat
        /\ DOMAIN after = 1 .. Len(before) + 1 /\ DOMAIN before = 1 .. Len(before)
        /\ after[Len(before) + 1] = m /\ \A i \in 1 .. Len(before) : after[i] = before[i]
    <3>1. m \in 1 .. m BY <1>5, <1>6
    <3>2. QED BY <1>10, <3>1
  <2>3. \A i \in 1 .. Len(before) : before[i] \in 1 .. m - 1 BY <1>9, <2>2
  <2>4. m \notin 1 .. m - 1 BY <1>5
  <2> HIDE DEF after
  <2>5. IsInjective(after)
    <3>1. SUFFICES ASSUME NEW i \in DOMAIN after, NEW j \in DOMAIN after, after[i] = after[j]
                   PROVE  i = j
      BY DEF IsInjective
    <3>2. \A k \in DOMAIN after : k \in 1 .. Len(before) \/ k = Len(before) + 1 BY <2>2
    <3>3. CASE i \in 1 .. Len(before) /\ j \in 1 .. Len(before)
      BY <1>9, <2>2, <3>1, <3>3 DEF IsInjective
    <3>4. CASE i = Len(before) + 1 /\ j \in 1 .. Len(before) BY <2>2, <2>3, <2>4, <3>1, <3>4
    <3>5. CASE j = Len(before) + 1 /\ i \in 1 .. Len(before) BY <2>2, <2>3, <2>4, <3>1, <3>5
    <3>6. CASE i = Len(before) + 1 /\ j = Len(before) + 1 BY <3>6
    <3>7. QED BY <3>2, <3>3, <3>4, <3>5, <3>6
  <2>6. Range(after) = Range(before) \cup {m}
    <3>1. \A i : i \in DOMAIN after <=> i \in DOMAIN before \/ i = Len(before) + 1 BY <2>2
    <3>2. \A i \in DOMAIN before : after[i] = before[i] BY <2>2
    <3>3. after[Len(before) + 1] = m BY <2>2
    <3>4. ASSUME NEW y \in Range(after) PROVE y \in Range(before) \cup {m}
      BY <3>1, <3>2, <3>3 DEF Range
    <3>5. ASSUME NEW y \in Range(before) \cup {m} PROVE y \in Range(after)
      BY <3>1, <3>2, <3>3 DEF Range
    <3>6. QED BY <3>4, <3>5
  <2>7. Range(before) \cup {m} = {c \in 1 .. m : ~Contains(done, c)}
    <3>1. \A c : c \in 1 .. m <=> c \in 1 .. m - 1 \/ c = m BY <1>5, <1>6
    <3>2. QED BY <1>9, <1>13, <3>1, Zenon
  <2>8. Lists(after, m, done) BY <2>2, <2>5, <2>6, <2>7 DEF Lists
  <2>9. QED BY <1>5, <2>1, <2>8
<1>14. QED BY <1>12, <1>13

LEMMA EligibleIs ==
  ASSUME NEW h, h \in Seq(Observation), NEW c \in Candidates,
         \A i \in DOMAIN h : h[i].candidate # c,
         \A i, j \in DOMAIN h : h[i].candidate = h[j].candidate => i = j
  PROVE  /\ IdLists(EligibleIds(h), CompletedIds(h), Len(h))
         /\ c \in Range(EligibleIds(h)) /\ Len(EligibleIds(h)) \in Nat \ {0}
         /\ ~Contains(CompletedIds(h), c)
<1> DEFINE done == CompletedIds(h)
<1>1. CandidateCount \in Nat /\ Candidates = 1 .. CandidateCount
  BY ContractAssumption DEF Candidates
<1>2. Len(h) \in Nat /\ DOMAIN h = 1 .. Len(h) /\ \A i \in 1 .. Len(h) : h[i].candidate \in Candidates
  <2>1. Len(h) \in Nat /\ DOMAIN h = 1 .. Len(h) OBVIOUS
  <2>2. \A i \in 1 .. Len(h) : h[i] \in Observation BY <2>1
  <2>3. \A rec \in Observation : rec.candidate \in Candidates BY DEF Observation
  <2>4. QED BY <2>1, <2>2, <2>3
<1>3. done = [i \in 1 .. Len(h) |-> h[i].candidate] BY <1>2 DEF CompletedIds
<1>4. /\ done \in Seq(Candidates) /\ Len(done) = Len(h) /\ DOMAIN done = 1 .. Len(h)
      /\ \A i \in 1 .. Len(h) : done[i] = h[i].candidate
  BY <1>2, <1>3
<1>5. PICK f : f = CHOOSE ids : ListsTo(done, CandidateCount, ids) OBVIOUS
<1>6. ListsTo(done, CandidateCount, f) BY <1>1, <1>5, ListExists
<1>7. EligibleIds(h) = f[CandidateCount] BY <1>5 DEF EligibleIds, ListsTo
<1>8. Lists(EligibleIds(h), CandidateCount, done) BY <1>1, <1>6, <1>7, ListsIs
<1> HIDE DEF done
<1>9. /\ EligibleIds(h) \in Seq(Candidates) /\ IsInjective(EligibleIds(h))
      /\ Range(EligibleIds(h)) = {d \in Candidates : ~Contains(done, d)}
  BY <1>1, <1>8 DEF Lists
<1>10. IsInjective(done) BY <1>2, <1>4 DEF IsInjective
<1>11. \A d : d \in Range(done) <=> Contains(done, d) BY <1>4 DEF Range, Contains
<1>12. Range(EligibleIds(h)) \cap Range(done) = {} BY <1>9, <1>11
<1>13. ~Contains(done, c) BY <1>2, <1>4 DEF Contains
<1>14. c \in Range(EligibleIds(h)) BY <1>9, <1>13
<1>15. Len(EligibleIds(h)) \in Nat \ {0}
  <2>1. Len(EligibleIds(h)) \in Nat /\ DOMAIN EligibleIds(h) = 1 .. Len(EligibleIds(h)) BY <1>9
  <2>2. DOMAIN EligibleIds(h) # {} BY <1>14 DEF Range
  <2>3. QED BY <2>1, <2>2
<1>16. QED BY <1>4, <1>9, <1>10, <1>12, <1>13, <1>14, <1>15 DEF IdLists, done

(* A step of an honest run, with the records before it.                    *)
LEMMA HonestBefore ==
  ASSUME NEW sp \in Specs, NEW records, Honest(sp, records), NEW i \in DOMAIN records
  PROVE  LET earlier == SubSeq(records, 1, i - 1)
         IN  /\ Len(records) \in Nat /\ DOMAIN records = 1 .. Len(records)
             /\ earlier \in Seq(Observation) /\ Len(earlier) = i - 1 /\ DOMAIN earlier = 1 .. i - 1
             /\ \A j \in 1 .. i - 1 : earlier[j] = records[j]
             /\ records[i] \in Observation
             /\ Selects(sp, earlier, records[i].candidate)
             /\ Selected(sp, earlier) = records[i].candidate
             /\ HasLineage(sp, earlier, records[i])
             /\ \A j \in 1 .. i - 1 : records[j].candidate # records[i].candidate
<1> DEFINE earlier == SubSeq(records, 1, i - 1)
<1>1. records \in Seq(Observation) BY DEF Honest
<1>2. Len(records) \in Nat /\ DOMAIN records = 1 .. Len(records) /\ records[i] \in Observation BY <1>1
<1>3. i - 1 \in 0 .. Len(records) BY <1>2
<1>4. /\ earlier \in Seq(Observation) /\ Len(earlier) = i - 1 /\ DOMAIN earlier = 1 .. i - 1
      /\ \A j \in 1 .. i - 1 : earlier[j] = records[j]
  BY <1>1, <1>3, PrefixOf
<1>5. Admissible(sp, earlier, records[i]) /\ HasLineage(sp, earlier, records[i]) BY DEF Honest
<1> HIDE DEF earlier
<1>6. Selects(sp, earlier, records[i].candidate) BY <1>5, AdmissibleIs
<1>7. Selected(sp, earlier) = records[i].candidate BY <1>6, SelectsOne
<1>8. \A j \in DOMAIN earlier : earlier[j].candidate # records[i].candidate BY <1>6, SelectsNew
<1>9. \A j \in 1 .. i - 1 : records[j].candidate # records[i].candidate BY <1>4, <1>8
<1>10. QED BY <1>2, <1>4, <1>5, <1>6, <1>7, <1>9 DEF earlier

LEMMA HonestIds ==
  ASSUME NEW sp \in Specs, NEW records, Honest(sp, records), NEW i \in DOMAIN records
  PROVE  LET earlier == SubSeq(records, 1, i - 1)
             c == records[i].candidate
         IN  /\ IdLists(EligibleIds(earlier), CompletedIds(earlier), i - 1)
             /\ c \in Range(EligibleIds(earlier)) /\ Len(EligibleIds(earlier)) \in Nat \ {0}
             /\ ~Contains(CompletedIds(earlier), c) /\ c \in Candidates
<1> DEFINE earlier == SubSeq(records, 1, i - 1)
           c == records[i].candidate
<1>1. /\ Len(records) \in Nat /\ DOMAIN records = 1 .. Len(records)
      /\ earlier \in Seq(Observation) /\ Len(earlier) = i - 1 /\ DOMAIN earlier = 1 .. i - 1
      /\ \A j \in 1 .. i - 1 : earlier[j] = records[j]
      /\ records[i] \in Observation /\ \A j \in 1 .. i - 1 : records[j].candidate # c
  BY HonestBefore
<1>2. \A k \in DOMAIN records : \A j \in 1 .. k - 1 : records[j].candidate # records[k].candidate
  BY HonestBefore
<1>3. c \in Candidates BY <1>1 DEF Observation
<1> HIDE DEF earlier, c
<1>4. \A j \in DOMAIN earlier : earlier[j].candidate # c BY <1>1
<1>5. ASSUME NEW j \in DOMAIN earlier, NEW k \in DOMAIN earlier,
             earlier[j].candidate = earlier[k].candidate
      PROVE  j = k
  <2>1. j \in 1 .. i - 1 /\ k \in 1 .. i - 1 /\ j \in DOMAIN records /\ k \in DOMAIN records
    BY <1>1
  <2>2. records[j].candidate = records[k].candidate BY <1>1, <1>5, <2>1
  <2>3. ~(j < k)
    <3>1. j < k => j \in 1 .. k - 1 BY <2>1
    <3>2. QED BY <1>2, <2>1, <2>2, <3>1
  <2>4. ~(k < j)
    <3>1. k < j => k \in 1 .. j - 1 BY <2>1
    <3>2. QED BY <1>2, <2>1, <2>2, <3>1
  <2>5. QED BY <2>1, <2>3, <2>4
<1>6. QED BY <1>1, <1>3, <1>4, <1>5, EligibleIs DEF earlier, c

LEMMA PrefixStep ==
  ASSUME NEW S, NEW records \in Seq(S), NEW i \in 1 .. Len(records)
  PROVE  LET earlier == SubSeq(records, 1, i - 1)
             upto == SubSeq(records, 1, i)
         IN  /\ upto \in Seq(S) /\ Len(upto) = i /\ upto = Append(earlier, records[i])
             /\ upto[i] = records[i] /\ AllButLast(upto) = earlier
<1> DEFINE earlier == SubSeq(records, 1, i - 1)
           upto == SubSeq(records, 1, i)
<1>1. i \in 0 .. Len(records) /\ i - 1 \in 0 .. Len(records) /\ i \in 1 .. i OBVIOUS
<1>2. /\ upto \in Seq(S) /\ Len(upto) = i /\ DOMAIN upto = 1 .. i
      /\ \A j \in 1 .. i : upto[j] = records[j]
  BY <1>1, PrefixOf
<1>3. /\ earlier \in Seq(S) /\ Len(earlier) = i - 1 /\ DOMAIN earlier = 1 .. i - 1
      /\ \A j \in 1 .. i - 1 : earlier[j] = records[j]
  BY <1>1, PrefixOf
<1>4. upto = Append(earlier, records[i])
  <2> DEFINE more == Append(earlier, records[i])
  <2> HIDE DEF earlier
  <2>1. records[i] \in S OBVIOUS
  <2>2. /\ more \in Seq(S) /\ Len(more) = i /\ DOMAIN more = 1 .. i
        /\ \A j \in 1 .. i - 1 : more[j] = earlier[j]
        /\ more[i] = records[i]
    BY <1>3, <2>1, AppendProperties
  <2> HIDE DEF upto, more
  <2>3. \A j \in 1 .. i : upto[j] = more[j]
    <3>1. \A j \in 1 .. i : j \in 1 .. i - 1 \/ j = i OBVIOUS
    <3>2. QED BY <1>2, <1>3, <2>2, <3>1
  <2>4. upto = more BY <1>2, <2>2, <2>3, SeqEqual
  <2>5. QED BY <2>4 DEF more
<1>5. AllButLast(upto) = earlier
  <2> HIDE DEF upto, earlier
  <2>1. i # 0 /\ Len(upto) # 0 BY <1>2
  <2>2. /\ AllButLast(upto) \in Seq(S) /\ Len(AllButLast(upto)) = i - 1
        /\ \A j \in 1 .. i - 1 : AllButLast(upto)[j] = upto[j]
    BY <1>2, <2>1, AllButLastIs
  <2>3. \A j \in 1 .. i - 1 : j \in 1 .. i OBVIOUS
  <2>4. \A j \in 1 .. Len(earlier) : AllButLast(upto)[j] = earlier[j] BY <1>2, <1>3, <2>2, <2>3
  <2>5. QED BY <1>3, <2>2, <2>4, SeqEqual
<1>6. upto[i] = records[i] BY <1>1, <1>2
<1>7. QED BY <1>2, <1>4, <1>5, <1>6

(* The budgets of an honest run, counted as its trace counts them.         *)
LEMMA HonestCosts ==
  ASSUME SumsAgree, CostsGrow, NEW sp \in Specs, NEW records, Honest(sp, records),
         NEW i \in DOMAIN records
  PROVE  LET spent == RunningCost(SubSeq(records, 1, i - 1))
             total == FAdd(spent, records[i].cost)
         IN  /\ ~Exhausted(sp, spent) /\ ~Exceeded(sp, total)
             /\ total \in Nat /\ total >= records[i].cost
             /\ total = RunningCost(SubSeq(records, 1, i))
<1> DEFINE earlier == SubSeq(records, 1, i - 1)
           upto == SubSeq(records, 1, i)
<1>1. records \in Seq(Observation) /\ Len(records) <= sp.count BY DEF Honest
<1>2. i \in 1 .. Len(records) /\ Len(records) \in Nat BY <1>1
<1>3. sp.count \in 1 .. CandidateCount /\ CandidateCount \in Nat BY ContractAssumption DEF Candidates
<1>4. /\ upto \in Seq(Observation) /\ Len(upto) = i /\ upto[i] = records[i]
      /\ AllButLast(upto) = earlier
  BY <1>1, <1>2, PrefixStep
<1>5. earlier \in Seq(Observation) /\ Len(earlier) = i - 1 BY <1>1, <1>2, HonestBefore
<1>6. Admissible(sp, earlier, records[i]) BY DEF Honest
<1> HIDE DEF earlier, upto
<1>7. SpentCost(earlier) = RunningCost(earlier)
  <2>1. earlier \in [1 .. i - 1 -> Observation] BY <1>2, <1>5
  <2>2. i - 1 \in 0 .. CandidateCount BY <1>1, <1>2, <1>3
  <2>3. QED BY <2>1, <2>2 DEF SumsAgree
<1>8. RunningCost(upto) = FAdd(RunningCost(earlier), records[i].cost)
  <2>1. Len(upto) # 0 BY <1>2, <1>4
  <2>2. QED BY <1>4, <2>1, RunningCostStep
<1>9. RunningCost(upto) \in Nat /\ RunningCost(upto) >= records[i].cost
  <2>1. upto \in [1 .. i -> Observation] BY <1>2, <1>4
  <2>2. i \in 1 .. CandidateCount BY <1>1, <1>2, <1>3
  <2>3. QED BY <1>4, <2>1, <2>2 DEF CostsGrow
<1>10. ~Exhausted(sp, SpentCost(earlier)) /\ ~Exceeded(sp, FAdd(SpentCost(earlier), records[i].cost))
  BY <1>6, AdmissibleIs
<1>11. QED BY <1>7, <1>8, <1>9, <1>10 DEF earlier, upto

LEMMA BeliefUsed ==
  ASSUME NEW sp, sp.policy = "information_gain_table", NEW h, NEW rec
  PROVE  /\ Selects(sp, h, rec.candidate) => Belief(sp, h) \in Weights
         /\ HasLineage(sp, h, rec) => Belief(sp, Append(h, rec)) \in Weights
<1>1. ASSUME Selects(sp, h, rec.candidate) PROVE Belief(sp, h) \in Weights
  <2>1. Run(sp.policy, PickIndexOf(sp), sp.count, sp.cost)!Picks(h, rec.candidate)
    BY <1>1 DEF Selects
  <2>2. Run(sp.policy, PickIndexOf(sp), sp.count, sp.cost)!PicksInformationGain(h, rec.candidate)
    BY <2>1 DEF Run!Picks
  <2>3. QED
    BY <2>2 DEF Run!PicksInformationGain, Run!Beliefs, Run!Hypotheses, Weights, Belief
<1>2. ASSUME HasLineage(sp, h, rec) PROVE Belief(sp, Append(h, rec)) \in Weights
  BY <1>2 DEF HasLineage, Run!HasLineage, Run!Beliefs, Run!Hypotheses, Weights, Belief
<1>3. QED BY <1>1, <1>2

(* The beliefs of an honest run weigh some hypothesis.                     *)
LEMMA HonestBeliefs ==
  ASSUME NEW sp \in Specs, sp.policy = "information_gain_table",
         NEW records, Honest(sp, records), NEW i \in DOMAIN records
  PROVE  LET earlier == SubSeq(records, 1, i - 1)
         IN  /\ Belief(sp, earlier) \in Weights /\ Evidence(Belief(sp, earlier))
             /\ Evidence(Belief(sp, Append(earlier, records[i])))
<1> DEFINE before(k) == Belief(sp, SubSeq(records, 1, k - 1))
           after(k) == Belief(sp, SubSeq(records, 1, k))
<1>1. records \in Seq(Observation) BY DEF Honest
<1>2. Len(records) \in Nat /\ DOMAIN records = 1 .. Len(records) BY <1>1
<1>3. ASSUME NEW k \in DOMAIN records
      PROVE  before(k) \in Weights /\ Evidence(after(k))
  <2> DEFINE earlier == SubSeq(records, 1, k - 1)
             upto == SubSeq(records, 1, k)
  <2>1. /\ Selects(sp, earlier, records[k].candidate) /\ HasLineage(sp, earlier, records[k])
        /\ records[k] \in Observation
    BY HonestBefore
  <2>2. /\ upto \in Seq(Observation) /\ Len(upto) = k /\ upto = Append(earlier, records[k])
        /\ upto[k] = records[k] /\ AllButLast(upto) = earlier
    BY <1>1, <1>2, PrefixStep
  <2> HIDE DEF earlier, upto
  <2>3. Belief(sp, earlier) \in Weights /\ Belief(sp, upto) \in Weights BY <2>1, <2>2, BeliefUsed
  <2>4. Belief(sp, upto) = Revised(sp, Belief(sp, earlier), records[k])
    <3>1. Len(upto) # 0 BY <1>2, <2>2
    <3>2. QED BY <2>2, <3>1, BeliefStep
  <2>5. Evidence(Belief(sp, upto)) BY <2>1, <2>3, <2>4, RevisedIsEvidence
  <2>6. QED BY <2>3, <2>5 DEF earlier, upto
<1>4. Evidence(before(i))
  <2>1. CASE i = 1
    <3>1. SubSeq(records, 1, i - 1) \in Seq(Observation) /\ Len(SubSeq(records, 1, i - 1)) = 0
      <4>1. i - 1 = 0 BY <2>1
      <4>2. QED BY <4>1, HonestBefore
    <3>2. before(i) = Prior BY <3>1, BeliefStep
    <3>3. QED BY <3>2, WeightsAre
  <2>2. CASE i # 1
    <3>1. i - 1 \in DOMAIN records BY <1>2, <2>2
    <3>2. Evidence(after(i - 1)) BY <1>3, <3>1
    <3>3. QED BY <3>2
  <2>3. QED BY <2>1, <2>2
<1>5. SubSeq(records, 1, i) = Append(SubSeq(records, 1, i - 1), records[i])
  BY <1>1, <1>2, PrefixStep
<1>6. QED BY <1>3, <1>4, <1>5

----------------------------------------------------------------------------
(* What an honest run captures passes the constructors of a step.          *)

(* The rationale e repeats the decision and lists the candidates.          *)
Explains(e, decision, h, rule) ==
  /\ DOMAIN e = (DOMAIN decision \ {"policy_seed"}) \cup {"eligible_ids", "completed_ids", "rule"}
  /\ \A f \in DOMAIN decision \ {"policy_seed"} : e[f] = decision[f]
  /\ e.eligible_ids = EligibleIds(h) /\ e.completed_ids = CompletedIds(h) /\ e.rule = rule

LEMMA ExplainIs ==
  ASSUME NEW decision, NEW h, NEW rule,
         "eligible_ids" \notin DOMAIN decision, "completed_ids" \notin DOMAIN decision,
         "rule" \notin DOMAIN decision
  PROVE  Explains(Explain(decision, h, rule), decision, h, rule)
<1>1. PICK ids : ids = EligibleIds(h) OBVIOUS
<1>2. PICK done : done = CompletedIds(h) OBVIOUS
<1> DEFINE context == [eligible_ids |-> ids, completed_ids |-> done, rule |-> rule]
           e == [f \in (DOMAIN decision \ {"policy_seed"}) \cup DOMAIN context |->
                   IF f \in DOMAIN context THEN context[f] ELSE decision[f]]
<1>3. Explain(decision, h, rule) = e BY <1>1, <1>2 DEF Explain
<1>4. /\ DOMAIN context = {"eligible_ids", "completed_ids", "rule"}
      /\ context.eligible_ids = ids /\ context.completed_ids = done /\ context.rule = rule
  OBVIOUS
<1> HIDE DEF context
<1>5. /\ DOMAIN e = (DOMAIN decision \ {"policy_seed"}) \cup {"eligible_ids", "completed_ids", "rule"}
      /\ \A f \in DOMAIN decision \ {"policy_seed"} : e[f] = decision[f]
      /\ e.eligible_ids = ids /\ e.completed_ids = done /\ e.rule = rule
  BY <1>4
<1> HIDE DEF e
<1>6. QED BY <1>1, <1>2, <1>3, <1>5 DEF Explains

(* The context of a decision, whichever policy made it.                    *)
InContext(step, rule) ==
  /\ Context(step) /\ step.rationale.rule = rule
  /\ DOMAIN step.rationale =
       (DOMAIN step.decision \ {"policy_seed"}) \cup {"eligible_ids", "completed_ids", "rule"}

LEMMA ExplainedContext ==
  ASSUME NEW sp \in Specs, NEW records, Honest(sp, records), NEW i \in DOMAIN records,
         NEW step, NEW rule, NEW earlier, earlier = SubSeq(records, 1, i - 1),
         "eligible_ids" \notin DOMAIN step.decision, "completed_ids" \notin DOMAIN step.decision,
         "rule" \notin DOMAIN step.decision,
         step.index = i - 1, step.selected = records[i].candidate,
         step.decision.selected = records[i].candidate,
         step.decision.eligible = Len(EligibleIds(earlier)),
         step.rationale = Explain(step.decision, earlier, rule)
  PROVE  InContext(step, rule)
<1>1. Explains(step.rationale, step.decision, earlier, rule) BY ExplainIs
<1>2. /\ IdLists(EligibleIds(earlier), CompletedIds(earlier), i - 1)
      /\ records[i].candidate \in Range(EligibleIds(earlier))
      /\ Len(EligibleIds(earlier)) \in Nat \ {0}
  BY HonestIds
<1>3. Context(step) BY <1>1, <1>2 DEF Context, Explains
<1>4. QED BY <1>1, <1>3 DEF InContext, Explains

LEMMA SeedsOf ==
  ASSUME NEW sp \in Specs
  PROVE  sp.policy = "random" => sp.seed \in Seeds
BY ContractAssumption

LEMMA SeedOfOthers ==
  ASSUME NEW sp \in Specs
  PROVE  sp.policy # "random" => sp.seed = None
BY ContractAssumption

(* The fields of a captured step.                                          *)
IsStepOf(step, sp, earlier, rec, previous, decision, rationale) ==
  /\ step.index = Len(earlier) /\ step.selected = rec.candidate
  /\ step.decision = decision /\ step.rationale = rationale
  /\ step.observation = rec /\ step.lineage = LineageFor(sp, earlier, rec)
  /\ step.cumulative = FAdd(previous, rec.cost)

LEMMA StepOfIs ==
  ASSUME NEW sp, NEW earlier, NEW rec, NEW previous, NEW decision, NEW rationale
  PROVE  IsStepOf(StepOf(sp, earlier, rec, previous, decision, rationale),
                  sp, earlier, rec, previous, decision, rationale)
<1>1. PICK lineage : lineage = LineageFor(sp, earlier, rec) OBVIOUS
<1>2. StepOf(sp, earlier, rec, previous, decision, rationale) =
        [index |-> Len(earlier), selected |-> rec.candidate, decision |-> decision,
         rationale |-> rationale, observation |-> rec, lineage |-> lineage,
         cumulative |-> FAdd(previous, rec.cost)]
  BY <1>1 DEF StepOf
<1>3. QED BY <1>1, <1>2 DEF IsStepOf

(* The fields that no policy decides.                                      *)
LEMMA HonestObserved ==
  ASSUME SumsAgree, CostsGrow, NEW sp \in Specs, NEW records, Honest(sp, records),
         NEW i \in DOMAIN records, NEW step,
         step.index = i - 1, step.selected = records[i].candidate, step.observation = records[i],
         step.cumulative = FAdd(RunningCost(SubSeq(records, 1, i - 1)), records[i].cost)
  PROVE  /\ step.index \in Nat /\ step.selected \in Candidates /\ step.cumulative \in Nat
         /\ Observed(step) /\ step.observation \in Observation
         /\ step.observation.candidate = step.selected
<1>1. records[i] \in Observation /\ i \in 1 .. Len(records) BY HonestBefore
<1>2. records[i].candidate \in Candidates BY <1>1 DEF Observation
<1>3. step.cumulative \in Nat /\ step.cumulative >= records[i].cost BY HonestCosts
<1>4. i - 1 \in Nat
  <2>1. Len(records) \in Nat BY HonestBefore
  <2>2. QED BY <1>1, <2>1
<1>5. QED BY <1>1, <1>2, <1>3, <1>4 DEF Observed

LEMMA PolicyClosed ==
  ASSUME NEW sp \in Specs, sp.policy \in {"random", "greedy_prior"},
         NEW records, Honest(sp, records), NEW i \in DOMAIN records, NEW step,
         step.index = i - 1, step.selected = records[i].candidate,
         step.decision = DecisionV2(sp, SubSeq(records, 1, i - 1)),
         step.rationale = RationaleV2(sp, SubSeq(records, 1, i - 1)), step.lineage = <<>>
  PROVE  ClosedPolicy(step) /\ ~IsGainStep(step)
<1> DEFINE earlier == SubSeq(records, 1, i - 1)
           c == records[i].candidate
<1>1. Selected(sp, earlier) = c /\ records[i] \in Observation BY HonestBefore
<1>2. PICK n : n = Len(EligibleIds(earlier)) OBVIOUS
<1>3. PICK u : u = IF sp.policy = "greedy_prior" THEN Utility[c] ELSE None OBVIOUS
<1>4. step.decision = [policy_id |-> sp.policy, policy_seed |-> sp.seed, selected |-> c,
                       utility |-> u, eligible |-> n]
  BY <1>1, <1>2, <1>3 DEF DecisionV2
<1>5. step.rationale = Explain(step.decision, earlier, RuleOf(sp.policy)) BY DEF RationaleV2
<1>6. c \in Candidates BY <1>1 DEF Observation
<1> HIDE DEF c
<1>7. /\ DOMAIN step.decision = PolicyKeys /\ step.decision.policy_id = sp.policy
      /\ step.decision.policy_seed = sp.seed /\ step.decision.selected = c
      /\ step.decision.utility = u /\ step.decision.eligible = n
  BY <1>4 DEF PolicyKeys
<1>8. /\ "eligible_ids" \notin DOMAIN step.decision /\ "completed_ids" \notin DOMAIN step.decision
      /\ "rule" \notin DOMAIN step.decision
  BY <1>7 DEF PolicyKeys
<1>9. PICK rule : rule = RuleOf(sp.policy) OBVIOUS
<1>10. InContext(step, rule)
  <2>1. PICK h : h = earlier OBVIOUS
  <2>2. step.rationale = Explain(step.decision, h, rule) /\ n = Len(EligibleIds(h))
    BY <1>2, <1>5, <1>9, <2>1
  <2>3. h = SubSeq(records, 1, i - 1) BY <2>1
  <2> HIDE DEF earlier
  <2>4. step.decision.selected = records[i].candidate BY <1>7 DEF c
  <2>5. QED BY <1>7, <1>8, <2>2, <2>3, <2>4, ExplainedContext
<1>11. Shaped(step, PolicyKeys) BY <1>7, <1>10 DEF Shaped, InContext
<1>12. \/ /\ step.decision.policy_id = "random"
          /\ step.decision.policy_seed \in Seeds /\ step.decision.utility = None
       \/ /\ step.decision.policy_id = "greedy_prior"
          /\ step.decision.policy_seed = None /\ step.decision.utility \in Int
  <2>1. CASE sp.policy = "random"
    <3>1. u = None BY <1>3, <2>1
    <3>2. QED BY <1>7, <2>1, <3>1, SeedsOf
  <2>2. CASE sp.policy = "greedy_prior"
    <3>1. u = Utility[c] BY <1>3, <2>2
    <3>2. u \in Int BY <1>6, <3>1, ContractAssumption
    <3>3. QED BY <1>7, <2>2, <3>2, SeedOfOthers
  <2>3. QED BY <2>1, <2>2
<1>13. ~IsGainStep(step) BY <1>7 DEF IsGainStep, PolicyKeys
<1>14. QED BY <1>7, <1>9, <1>10, <1>11, <1>12, <1>13 DEF ClosedPolicy, InContext

LEMMA DigestsAre ==
  /\ \A b : Evidence(b) => IsDigest(Digest(b))
  /\ IsDigest(Digest(Likelihood))
<1>1. ASSUME NEW b, Evidence(b) PROVE IsDigest(Digest(b))
  <2>1. <<"sha256", b>> \in {"sha256"} \X Seq(Nat) BY <1>1 DEF Evidence
  <2>2. <<"sha256", b>> # Forged /\ <<"sha256", b>> # None BY <2>1, ContractAssumption
  <2>3. QED BY <2>2 DEF IsDigest, Digest
<1>2. IsDigest(Digest(Likelihood)) BY ContractAssumption DEF IsDigest
<1>3. QED BY <1>1, <1>2

LEMMA GainClosed ==
  ASSUME NEW sp \in Specs, sp.policy = "information_gain_table",
         NEW records, Honest(sp, records), NEW i \in DOMAIN records, NEW step,
         NEW earlier, earlier = SubSeq(records, 1, i - 1),
         step.index = i - 1, step.selected = records[i].candidate,
         step.decision = GainDecision(sp, earlier),
         step.rationale = Explain(step.decision, earlier, "gain/v1"),
         step.lineage = LineageFor(sp, earlier, records[i])
  PROVE  /\ ClosedGain(step) /\ IsGainStep(step)
         /\ step.decision.policy_identity = "information_gain_table"
<1> DEFINE c == records[i].candidate
<1>1. Selected(sp, earlier) = c /\ records[i] \in Observation /\ Len(earlier) = i - 1 BY HonestBefore
<1>2. PICK n : n = Len(EligibleIds(earlier)) OBVIOUS
<1>3. PICK before : before = Belief(sp, earlier) OBVIOUS
<1>4. PICK after : after = Belief(sp, Append(earlier, records[i])) OBVIOUS
<1>5. before \in Weights /\ Evidence(before) /\ Evidence(after) BY <1>3, <1>4, HonestBeliefs
<1>6. PICK g : g = Gain(c, before) OBVIOUS
<1>7. c \in Candidates BY <1>1 DEF Observation
<1>8. g \in Int
  <2>1. \A e \in Candidates : \A b \in [DOMAIN Prior -> 0 .. MaxWeight] : Gain(e, b) \in Int
    BY ContractAssumption
  <2>2. before \in [DOMAIN Prior -> 0 .. MaxWeight] BY <1>5 DEF Weights
  <2> HIDE DEF c
  <2>3. QED BY <1>6, <1>7, <2>1, <2>2
<1>9. PICK d : d = Digest(before) OBVIOUS
<1>10. PICK dAfter : dAfter = Digest(after) OBVIOUS
<1>11. PICK m : m = Digest(Likelihood) OBVIOUS
<1>12. IsDigest(d) /\ IsDigest(dAfter) /\ IsDigest(m)
  BY <1>5, <1>9, <1>10, <1>11, DigestsAre
<1>13. step.decision = [policy_identity |-> "information_gain_table", selected |-> c, gain |-> g,
                        eligible |-> n, belief |-> d, model |-> m]
  BY <1>1, <1>2, <1>3, <1>6, <1>9, <1>11 DEF GainDecision
<1>14. PICK o : o = Run(sp.policy, PickIndexOf(sp), sp.count, sp.cost)!ClassifyObservation(
                       records[i].value)
  OBVIOUS
<1> DEFINE line == [index |-> i - 1, candidate |-> c, outcome |-> o, before |-> before,
                    after |-> after, digest_before |-> d, digest_after |-> dAfter]
<1>15. step.lineage = <<line>>
  BY <1>1, <1>3, <1>4, <1>9, <1>10, <1>14 DEF LineageFor
<1> HIDE DEF c
<1>16. /\ DOMAIN step.decision = GainKeys /\ step.decision.selected = c
       /\ step.decision.policy_identity = "information_gain_table"
       /\ step.decision.gain = g /\ step.decision.eligible = n
       /\ step.decision.belief = d /\ step.decision.model = m
  BY <1>13 DEF GainKeys
<1>17. /\ "eligible_ids" \notin DOMAIN step.decision /\ "completed_ids" \notin DOMAIN step.decision
       /\ "rule" \notin DOMAIN step.decision
  BY <1>16 DEF GainKeys
<1>18. InContext(step, "gain/v1")
  <2>1. step.decision.selected = records[i].candidate BY <1>16 DEF c
  <2>2. step.decision.eligible = Len(EligibleIds(earlier)) BY <1>2, <1>16
  <2>3. QED BY <1>17, <2>1, <2>2, ExplainedContext
<1>19. Shaped(step, GainKeys) BY <1>16, <1>18 DEF Shaped, InContext
<1>21. /\ line.index = i - 1 /\ line.candidate = c /\ line.before = before /\ line.after = after
       /\ line.digest_before = d /\ line.digest_after = dAfter
  OBVIOUS
<1>22. \A f \in {"before", "after"} :
         line[f] \in Seq(Nat) /\ \E k \in DOMAIN line[f] : line[f][k] # 0
  BY <1>5, <1>21 DEF Evidence
<1> HIDE DEF line
<1>20. /\ Len(step.lineage) = 1 /\ step.lineage[1] = line BY <1>15
<1>23. LET l == step.lineage[1]
       IN /\ l.index = step.index /\ l.candidate = step.selected
          /\ \A f \in {"before", "after"} : l[f] \in Seq(Nat) /\ \E k \in DOMAIN l[f] : l[f][k] # 0
          /\ IsDigest(l.digest_before) /\ IsDigest(l.digest_after)
          /\ l.digest_before = step.decision.belief
  BY <1>12, <1>16, <1>20, <1>21, <1>22 DEF c
<1>24. ClosedGain(step)
  BY <1>8, <1>12, <1>16, <1>18, <1>19, <1>20, <1>23 DEF ClosedGain, InContext
<1>25. IsGainStep(step) BY <1>16 DEF IsGainStep, GainKeys
<1>26. QED BY <1>16, <1>24, <1>25

(* An honest step is valid, in each version.                               *)
LEMMA HonestIsValidV1 ==
  ASSUME SumsAgree, CostsGrow, NEW sp \in Specs, sp.version = "v1",
         NEW records, Honest(sp, records), NEW i \in DOMAIN records,
         NEW earlier, earlier = SubSeq(records, 1, i - 1),
         NEW step, step = Capture(sp, earlier, records[i], RunningCost(earlier))
  PROVE  ValidStepV1(sp, earlier, RunningCost(earlier), step, i - 1)
<1> DEFINE c == records[i].candidate
<1>1. PICK spent : spent = RunningCost(earlier) OBVIOUS
<1>2. sp.policy = "random" BY VersionsOf
<1>3. /\ Len(earlier) = i - 1 /\ Selects(sp, earlier, c) /\ records[i] \in Observation
  BY HonestBefore
<1>4. step = StepOf(sp, earlier, records[i], spent, DecisionV1(sp, c), RationaleV1(earlier))
  BY <1>1, CaptureOf DEF CaptureV1
<1>5. /\ step.index = i - 1 /\ step.selected = c /\ step.decision = DecisionV1(sp, c)
      /\ step.rationale = RationaleV1(earlier) /\ step.observation = records[i]
      /\ step.lineage = LineageFor(sp, earlier, records[i])
      /\ step.cumulative = FAdd(spent, records[i].cost)
  <2>1. IsStepOf(step, sp, earlier, records[i], spent, DecisionV1(sp, c), RationaleV1(earlier))
    BY <1>4, StepOfIs
  <2>2. QED BY <1>3, <2>1 DEF IsStepOf
<1>6. step.lineage = <<>> BY <1>2, <1>5, NoLineage
<1>7. /\ step.index \in Nat /\ step.selected \in Candidates /\ step.cumulative \in Nat
      /\ Observed(step) /\ step.observation \in Observation
      /\ step.observation.candidate = step.selected
  BY <1>1, <1>5, HonestObserved
<1>8. ~Exhausted(sp, spent) /\ ~Exceeded(sp, step.cumulative) BY <1>1, <1>5, HonestCosts
<1>9. /\ IdLists(EligibleIds(earlier), CompletedIds(earlier), i - 1)
      /\ c \in Range(EligibleIds(earlier))
  BY HonestIds
<1>10. /\ DOMAIN step.decision = {"policy_id", "policy_seed", "selected"}
       /\ step.decision.selected = c /\ step.decision.policy_id = "random"
       /\ step.decision.policy_seed = sp.seed
  BY <1>2, <1>5 DEF DecisionV1
<1>11. /\ DOMAIN step.rationale = {"available", "completed", "rule"}
       /\ step.rationale.available = EligibleIds(earlier)
       /\ step.rationale.completed = CompletedIds(earlier) /\ step.rationale.rule = "random/v1"
  <2>1. PICK ids : ids = EligibleIds(earlier) OBVIOUS
  <2>2. PICK done : done = CompletedIds(earlier) OBVIOUS
  <2>3. step.rationale = [available |-> ids, completed |-> done, rule |-> "random/v1"]
    BY <1>5, <2>1, <2>2 DEF RationaleV1
  <2>4. QED BY <2>1, <2>2, <2>3
<1>12. sp.seed \in Seeds BY <1>2, SeedsOf
<1> HIDE DEF c
<1>13. ClosedV1(step) BY <1>5, <1>6, <1>7, <1>9, <1>10, <1>11, <1>12 DEF ClosedV1
<1>14. QED BY <1>1, <1>3, <1>5, <1>6, <1>7, <1>8, <1>9, <1>13 DEF ValidStepV1

LEMMA HonestIsValidV2 ==
  ASSUME SumsAgree, CostsGrow, NEW sp \in Specs, sp.version = "v2",
         NEW records, Honest(sp, records), NEW i \in DOMAIN records,
         NEW earlier, earlier = SubSeq(records, 1, i - 1),
         NEW step, step = Capture(sp, earlier, records[i], RunningCost(earlier))
  PROVE  ValidStepV2(sp, earlier, RunningCost(earlier), step, i - 1)
<1> DEFINE c == records[i].candidate
<1>1. PICK spent : spent = RunningCost(earlier) OBVIOUS
<1>2. sp.policy \in {"random", "greedy_prior"} BY VersionsOf
<1>3. /\ Len(earlier) = i - 1 /\ Selects(sp, earlier, c) /\ records[i] \in Observation
  BY HonestBefore
<1>4. step = StepOf(sp, earlier, records[i], spent, DecisionV2(sp, earlier), RationaleV2(sp, earlier))
  BY <1>1, CaptureOf DEF CaptureV2
<1>5. /\ step.index = i - 1 /\ step.selected = c /\ step.decision = DecisionV2(sp, earlier)
      /\ step.rationale = RationaleV2(sp, earlier) /\ step.observation = records[i]
      /\ step.lineage = LineageFor(sp, earlier, records[i])
      /\ step.cumulative = FAdd(spent, records[i].cost)
  <2>1. IsStepOf(step, sp, earlier, records[i], spent, DecisionV2(sp, earlier), RationaleV2(sp, earlier))
    BY <1>4, StepOfIs
  <2>2. QED BY <1>3, <2>1 DEF IsStepOf
<1>6. step.lineage = <<>> BY <1>2, <1>5, NoLineage
<1>7. /\ step.index \in Nat /\ step.selected \in Candidates /\ step.cumulative \in Nat
      /\ Observed(step)
  BY <1>1, <1>5, HonestObserved
<1>8. ~Exhausted(sp, spent) /\ ~Exceeded(sp, step.cumulative) BY <1>1, <1>5, HonestCosts
<1>9. ~Contains(CompletedIds(earlier), c) BY HonestIds
<1>10. ClosedPolicy(step) BY <1>2, <1>5, <1>6, PolicyClosed
<1>11. ClosedV2(step) BY <1>7, <1>10 DEF ClosedV2
<1> HIDE DEF c
<1>12. step.cumulative = FAdd(spent, step.observation.cost) BY <1>5
<1>13. QED BY <1>1, <1>3, <1>5, <1>8, <1>9, <1>11, <1>12 DEF ValidStepV2

LEMMA HonestIsValidV3 ==
  ASSUME SumsAgree, CostsGrow, NEW sp \in Specs, sp.version = "v3",
         NEW records, Honest(sp, records), NEW i \in DOMAIN records,
         NEW earlier, earlier = SubSeq(records, 1, i - 1),
         NEW step, step = Capture(sp, earlier, records[i], RunningCost(earlier))
  PROVE  ValidStepV3(sp, earlier, RunningCost(earlier), step, i - 1)
<1> DEFINE c == records[i].candidate
<1>1. PICK spent : spent = RunningCost(earlier) OBVIOUS
<1>2. sp.policy \in {"random", "greedy_prior", "information_gain_table"} BY VersionsOf
<1>3. /\ Len(earlier) = i - 1 /\ Selects(sp, earlier, c) /\ records[i] \in Observation
      /\ HasLineage(sp, earlier, records[i])
  BY HonestBefore
<1>4. step = StepOf(sp, earlier, records[i], spent, DecisionV3(sp, earlier), RationaleV3(sp, earlier))
  BY <1>1, CaptureOf DEF CaptureV3
<1>5. /\ step.index = i - 1 /\ step.selected = c /\ step.decision = DecisionV3(sp, earlier)
      /\ step.rationale = RationaleV3(sp, earlier) /\ step.observation = records[i]
      /\ step.lineage = LineageFor(sp, earlier, records[i])
      /\ step.cumulative = FAdd(spent, records[i].cost)
  <2>1. IsStepOf(step, sp, earlier, records[i], spent, DecisionV3(sp, earlier), RationaleV3(sp, earlier))
    BY <1>4, StepOfIs
  <2>2. QED BY <1>3, <2>1 DEF IsStepOf
<1>6. /\ step.index \in Nat /\ step.selected \in Candidates /\ step.cumulative \in Nat
      /\ Observed(step)
  BY <1>1, <1>5, HonestObserved
<1>7. ~Exhausted(sp, spent) /\ ~Exceeded(sp, step.cumulative) BY <1>1, <1>5, HonestCosts
<1>8. ~Contains(CompletedIds(earlier), c) BY HonestIds
<1>9. IF IsGainStep(step)
      THEN step.decision.policy_identity = "information_gain_table" /\ ClosedGain(step)
      ELSE ClosedPolicy(step)
  <2>1. CASE sp.policy = "information_gain_table"
    <3>1. step.decision = GainDecision(sp, earlier) BY <1>5, <2>1 DEF DecisionV3
    <3>2. RuleOf(sp.policy) = "gain/v1" BY <2>1, Zenon DEF RuleOf
    <3>3. step.rationale = Explain(step.decision, earlier, "gain/v1")
      BY <1>5, <3>2 DEF RationaleV3
    <3>4. QED BY <1>5, <2>1, <3>1, <3>3, GainClosed
  <2>2. CASE sp.policy # "information_gain_table"
    <3>1. step.decision = DecisionV2(sp, earlier) BY <1>5, <2>2 DEF DecisionV3
    <3>2. step.rationale = RationaleV2(sp, earlier)
      BY <1>5, <2>2 DEF RationaleV3, RationaleV2, DecisionV3
    <3>3. step.lineage = <<>> BY <1>5, <2>2, NoLineage
    <3>4. sp.policy \in {"random", "greedy_prior"} BY <1>2, <2>2
    <3>5. QED BY <1>5, <3>1, <3>2, <3>3, <3>4, PolicyClosed
  <2>3. QED BY <2>1, <2>2
<1>10. ClosedV3(step) BY <1>6, <1>9 DEF ClosedV3
<1>11. SameSelection(sp, earlier, step) BY <1>3, <1>5 DEF SameSelection
<1> HIDE DEF c
<1>12. /\ step.cumulative = FAdd(spent, step.observation.cost)
       /\ step.lineage = LineageFor(sp, earlier, step.observation)
       /\ HasLineage(sp, earlier, step.observation)
  BY <1>3, <1>5
<1>13. QED BY <1>1, <1>5, <1>7, <1>8, <1>10, <1>11, <1>12 DEF ValidStepV3

LEMMA CaptureFields ==
  ASSUME NEW sp \in Specs, NEW earlier, NEW rec, NEW previous
  PROVE  /\ Capture(sp, earlier, rec, previous).observation = rec
         /\ Capture(sp, earlier, rec, previous).cumulative = FAdd(previous, rec.cost)
<1> DEFINE step == Capture(sp, earlier, rec, previous)
<1>1. \E decision, rationale : step = StepOf(sp, earlier, rec, previous, decision, rationale)
  <2>1. sp.version \in {"v1", "v2", "v3"} BY VersionsOf DEF Versions
  <2>2. CASE sp.version = "v1" BY <2>2, CaptureOf DEF CaptureV1
  <2>3. CASE sp.version = "v2" BY <2>3, CaptureOf DEF CaptureV2
  <2>4. CASE sp.version = "v3" BY <2>4, CaptureOf DEF CaptureV3
  <2>5. QED BY <2>1, <2>2, <2>3, <2>4
<1>2. PICK decision, rationale : step = StepOf(sp, earlier, rec, previous, decision, rationale)
  BY <1>1
<1> HIDE DEF step
<1>3. IsStepOf(step, sp, earlier, rec, previous, decision, rationale) BY <1>2, StepOfIs
<1>4. QED BY <1>3 DEF IsStepOf, step

(* What capture makes of honest records, step by step.                     *)
LEMMA CapturedIs ==
  ASSUME NEW sp \in Specs, NEW records, Honest(sp, records), NEW steps, steps = Captured(sp, records)
  PROVE  /\ FormedSteps(steps) /\ DOMAIN steps = DOMAIN records /\ Len(steps) = Len(records)
         /\ Records(steps) = records
         /\ \A i \in DOMAIN records :
              /\ steps[i] = Capture(sp, SubSeq(records, 1, i - 1), records[i],
                                    RunningCost(SubSeq(records, 1, i - 1)))
              /\ Records(Before(steps, i)) = SubSeq(records, 1, i - 1)
              /\ Cumulative(Before(steps, i)) = RunningCost(SubSeq(records, 1, i - 1))
<1>1. /\ records \in Seq(Observation) /\ Len(records) \in Nat /\ DOMAIN records = 1 .. Len(records)
  BY DEF Honest
<1>2. FormedSteps(steps) BY <1>1, CapturedIsFormed
<1>3. DOMAIN steps = 1 .. Len(records) /\ \A i \in DOMAIN records :
        steps[i] = Capture(sp, SubSeq(records, 1, i - 1), records[i],
                           RunningCost(SubSeq(records, 1, i - 1)))
  BY <1>1 DEF Captured
<1>4. Len(steps) = Len(records)
  <2>1. steps \in Seq(Range(steps)) BY <1>2 DEF FormedSteps
  <2>2. Len(steps) \in Nat /\ DOMAIN steps = 1 .. Len(steps) BY <2>1
  <2>3. QED BY <1>1, <1>3, <2>2
<1>5. \A i \in DOMAIN records :
        /\ steps[i].observation = records[i]
        /\ steps[i].cumulative = FAdd(RunningCost(SubSeq(records, 1, i - 1)), records[i].cost)
  BY <1>3, CaptureFields
<1>6. Records(steps) = records
  <2>1. Records(steps) = [i \in 1 .. Len(records) |-> steps[i].observation]
    BY <1>3 DEF Records
  <2>2. \A i \in 1 .. Len(records) : steps[i].observation = records[i] BY <1>1, <1>5
  <2>3. Records(steps) = [i \in 1 .. Len(records) |-> records[i]] BY <2>1, <2>2
  <2>4. QED BY <1>1, <2>3
<1>7. ASSUME NEW i \in DOMAIN records
      PROVE  /\ Records(Before(steps, i)) = SubSeq(records, 1, i - 1)
             /\ Cumulative(Before(steps, i)) = RunningCost(SubSeq(records, 1, i - 1))
  <2> DEFINE earlier == SubSeq(records, 1, i - 1)
  <2>1. i \in 1 .. Len(steps) + 1 /\ i - 1 \in 0 .. Len(steps) BY <1>1, <1>4
  <2>2. Records(Before(steps, i)) = earlier BY <1>2, <1>6, <2>1, RecordsBefore
  <2>3. /\ Before(steps, i) \in Seq(Range(steps)) /\ Len(Before(steps, i)) = i - 1
        /\ \A k \in 1 .. i - 1 : Before(steps, i)[k] = steps[k]
    <3>1. steps \in Seq(Range(steps)) BY <1>2 DEF FormedSteps
    <3>2. QED BY <2>1, <3>1, PrefixOf DEF Before
  <2>4. earlier \in Seq(Observation) /\ Len(earlier) = i - 1 BY HonestBefore
  <2>5. CASE i = 1
    <3>1. Before(steps, i) = <<>> BY <2>3, <2>5
    <3>2. Cumulative(Before(steps, i)) = 0 BY <3>1 DEF Cumulative
    <3>3. RunningCost(earlier) = 0
      <4>1. PICK h : h = earlier OBVIOUS
      <4>2. h \in Seq(Observation) /\ Len(h) = 0 BY <2>4, <2>5, <4>1
      <4>3. RunningCost(h) = 0 BY <4>2, RunningCostStep
      <4>4. QED BY <4>1, <4>3
    <3>4. QED BY <2>2, <3>2, <3>3
  <2>6. CASE i # 1
    <3>1. i - 1 \in 1 .. i - 1 /\ i - 1 \in 1 .. Len(records) /\ i - 1 # 0 BY <1>1, <2>6
    <3>2. Before(steps, i) # <<>> BY <2>3, <3>1
    <3>3. Last(Before(steps, i)) = steps[i - 1] BY <2>3, <3>1 DEF Last
    <3>4. Cumulative(Before(steps, i)) = steps[i - 1].cumulative BY <3>2, <3>3 DEF Cumulative
    <3>5. PICK k : k = i - 1 OBVIOUS
    <3>6. /\ SubSeq(records, 1, k) \in Seq(Observation) /\ Len(SubSeq(records, 1, k)) = k
          /\ SubSeq(records, 1, k)[k] = records[k]
          /\ AllButLast(SubSeq(records, 1, k)) = SubSeq(records, 1, k - 1)
      BY <1>1, <3>1, <3>5, PrefixStep
    <3>7. Len(SubSeq(records, 1, k)) # 0 BY <3>1, <3>5, <3>6
    <3>8. RunningCost(SubSeq(records, 1, k)) = FAdd(RunningCost(SubSeq(records, 1, k - 1)), records[k].cost)
      BY <3>6, <3>7, RunningCostStep
    <3>9. k \in DOMAIN records BY <1>1, <3>1, <3>5
    <3>10. steps[k].cumulative = FAdd(RunningCost(SubSeq(records, 1, k - 1)), records[k].cost)
      BY <1>5, <3>9
    <3>11. Cumulative(Before(steps, i)) = RunningCost(earlier) BY <3>4, <3>5, <3>8, <3>10
    <3>12. QED BY <2>2, <3>11
  <2>7. QED BY <2>5, <2>6
<1>8. QED BY <1>1, <1>2, <1>3, <1>4, <1>6, <1>7

LEMMA DocumentIs ==
  ASSUME NEW sp, NEW steps, NEW stop, NEW doc, doc = Document(sp, steps, stop)
  PROVE  /\ doc.schema = sp.version /\ doc.run_spec = sp /\ doc.run_spec_digest = Digest(sp)
         /\ doc.steps = steps /\ doc.terminal = Terminal(sp, steps, stop)
         /\ doc.sections.run_spec = Digest(sp) /\ doc.sections.steps = Digest(steps)
         /\ doc.sections.terminal = Digest(Terminal(sp, steps, stop))
<1>1. PICK terminal : terminal = Terminal(sp, steps, stop) OBVIOUS
<1>2. PICK d : d = Digest(sp) OBVIOUS
<1>3. PICK e : e = Digest(steps) OBVIOUS
<1>4. PICK f : f = Digest(terminal) OBVIOUS
<1>5. PICK sections : sections = Sections(sp, steps, terminal) OBVIOUS
<1>6. sections = [run_spec |-> d, steps |-> e, terminal |-> f]
  BY <1>2, <1>3, <1>4, <1>5 DEF Sections
<1>7. doc = [schema |-> sp.version, run_spec |-> sp, run_spec_digest |-> d, steps |-> steps,
             terminal |-> terminal, sections |-> sections]
  BY <1>1, <1>2, <1>5 DEF Document
<1>8. /\ doc.schema = sp.version /\ doc.run_spec = sp /\ doc.run_spec_digest = d
      /\ doc.steps = steps /\ doc.terminal = terminal /\ doc.sections = sections
  BY <1>7
<1>9. sections.run_spec = d /\ sections.steps = e /\ sections.terminal = f BY <1>6
<1>10. QED BY <1>1, <1>2, <1>3, <1>4, <1>8, <1>9

LEMMA TerminalIsValid ==
  ASSUME NEW sp, NEW steps, NEW stop \in StopReasons,
         StopAllowed(sp, stop, Len(steps), Cumulative(steps))
  PROVE  ValidTerminal(sp, steps, Terminal(sp, steps, stop))
<1>1. PICK n : n = Len(steps) OBVIOUS
<1>2. PICK selected : selected = [i \in DOMAIN steps |-> steps[i].selected] OBVIOUS
<1>3. PICK total : total = Cumulative(steps) OBVIOUS
<1>4. PICK belief : belief = FinalBelief(sp, steps) OBVIOUS
<1>5. PICK digest : digest = Digest(steps) OBVIOUS
<1>6. PICK terminal : terminal = Terminal(sp, steps, stop) OBVIOUS
<1>7. terminal = [completed |-> n, selected |-> selected, total |-> total, stop |-> stop,
                  belief |-> belief, steps |-> digest]
  BY <1>1, <1>2, <1>3, <1>4, <1>5, <1>6 DEF Terminal
<1>8. /\ terminal.completed = n /\ terminal.selected = selected /\ terminal.total = total
      /\ terminal.stop = stop /\ terminal.belief = belief /\ terminal.steps = digest
  BY <1>7
<1>9. ValidTerminal(sp, steps, terminal)
  BY <1>1, <1>2, <1>3, <1>4, <1>5, <1>8 DEF ValidTerminal
<1>10. QED BY <1>6, <1>9

(* The document of an honest run passes verification.                      *)
LEMMA HonestIsValid ==
  ASSUME SumsAgree, CostsGrow, NEW sp \in Specs, Clean(sp), NEW records, Honest(sp, records),
         NEW steps, steps = Captured(sp, records), NEW stop \in StopReasons,
         StopAllowed(sp, stop, Len(steps), Cumulative(steps)),
         NEW doc, doc = Document(sp, steps, stop)
  PROVE  ValidDocument(sp.version, doc)
<1>1. /\ FormedSteps(steps) /\ DOMAIN steps = DOMAIN records /\ Len(steps) = Len(records)
      /\ \A i \in DOMAIN records :
           /\ steps[i] = Capture(sp, SubSeq(records, 1, i - 1), records[i],
                                 RunningCost(SubSeq(records, 1, i - 1)))
           /\ Records(Before(steps, i)) = SubSeq(records, 1, i - 1)
           /\ Cumulative(Before(steps, i)) = RunningCost(SubSeq(records, 1, i - 1))
  BY CapturedIs
<1>2. /\ doc.schema = sp.version /\ doc.run_spec = sp /\ doc.run_spec_digest = Digest(sp)
      /\ doc.steps = steps /\ doc.terminal = Terminal(sp, steps, stop)
      /\ doc.sections.run_spec = Digest(sp) /\ doc.sections.steps = Digest(steps)
      /\ doc.sections.terminal = Digest(Terminal(sp, steps, stop))
  BY DocumentIs
<1>3. Identified(sp.version, doc) BY <1>2 DEF Identified
<1>4. Concluded(doc)
  <2>1. Len(steps) <= sp.count BY <1>1 DEF Honest
  <2>2. QED BY <1>2, <2>1, TerminalIsValid DEF Concluded
<1>5. sp.version \in {"v1", "v2", "v3"} BY VersionsOf DEF Versions
<1>6. CASE sp.version = "v1"
  <2>1. ASSUME NEW i \in DOMAIN steps
        PROVE  ValidStepV1(sp, Records(Before(steps, i)), Cumulative(Before(steps, i)), steps[i], i - 1)
    BY <1>1, <1>6, HonestIsValidV1
  <2>2. ValidSteps(doc, ValidStepV1) BY <1>2, <2>1 DEF ValidSteps
  <2>3. ValidV1(doc) BY <1>3, <1>4, <1>6, <2>2 DEF ValidV1
  <2>4. QED BY <1>6, <2>3, Zenon DEF ValidDocument
<1>7. CASE sp.version = "v2"
  <2>1. ASSUME NEW i \in DOMAIN steps
        PROVE  ValidStepV2(sp, Records(Before(steps, i)), Cumulative(Before(steps, i)), steps[i], i - 1)
    BY <1>1, <1>7, HonestIsValidV2
  <2>2. ValidSteps(doc, ValidStepV2) BY <1>2, <2>1 DEF ValidSteps
  <2>3. ValidV2(doc) BY <1>3, <1>4, <1>7, <2>2 DEF ValidV2
  <2>4. QED BY <1>7, <2>3, Zenon DEF ValidDocument
<1>8. CASE sp.version = "v3"
  <2>1. ASSUME NEW i \in DOMAIN steps
        PROVE  ValidStepV3(sp, Records(Before(steps, i)), Cumulative(Before(steps, i)), steps[i], i - 1)
    BY <1>1, <1>8, HonestIsValidV3
  <2>2. ValidSteps(doc, ValidStepV3) BY <1>2, <2>1 DEF ValidSteps
  <2>3. ValidV3(doc) BY <1>3, <1>4, <1>8, <2>2 DEF ValidV3
  <2>4. QED BY <1>8, <2>3, Zenon DEF ValidDocument
<1>9. QED BY <1>5, <1>6, <1>7, <1>8

----------------------------------------------------------------------------
(* Every honest trace is exported.                                         *)

(* What an exception leaves is no document.                                *)
RefusalIsNoDocument == \A sp, steps, stop : Document(sp, steps, stop) # Refused

(* The history is honest, a trace that nobody edited is what capture made  *)
(* of it, and a refusal is that of the trace as it is.                     *)
HonestInv ==
  /\ edits \in Nat
  /\ Honest(spec, history)
  /\ trace # None =>
       /\ trace.spec = spec /\ trace.stop \in StopReasons
       /\ edits = 0 => trace.steps = Captured(spec, history)
  /\ document = Refused => trace # None /\ (edits > 0 \/ Exported(trace) = Refused)

LEMMA HonestGrows ==
  ASSUME NEW sp, NEW records, Honest(sp, records), NEW rec \in Observation,
         Admissible(sp, records, rec), HasLineage(sp, records, rec), sp.count \in Nat
  PROVE  Honest(sp, Append(records, rec))
<1> DEFINE more == Append(records, rec)
<1>1. /\ records \in Seq(Observation) /\ Len(records) \in Nat /\ DOMAIN records = 1 .. Len(records)
  BY DEF Honest
<1>2. /\ more \in Seq(Observation) /\ Len(more) = Len(records) + 1
      /\ DOMAIN more = 1 .. Len(records) + 1 /\ more[Len(records) + 1] = rec
      /\ \A j \in 1 .. Len(records) : more[j] = records[j]
  BY <1>1, AppendProperties
<1> HIDE DEF more
<1>3. Len(more) <= sp.count
  <2>1. Len(records) < sp.count BY AdmissibleIs
  <2>2. QED BY <1>1, <1>2, <2>1
<1>4. ASSUME NEW k \in 0 .. Len(records) PROVE SubSeq(more, 1, k) = SubSeq(records, 1, k)
  <2>1. k \in 0 .. Len(more) BY <1>1, <1>2
  <2>2. /\ SubSeq(more, 1, k) \in Seq(Observation) /\ Len(SubSeq(more, 1, k)) = k
        /\ \A j \in 1 .. k : SubSeq(more, 1, k)[j] = more[j]
    BY <1>2, <2>1, PrefixOf
  <2>3. /\ SubSeq(records, 1, k) \in Seq(Observation) /\ Len(SubSeq(records, 1, k)) = k
        /\ \A j \in 1 .. k : SubSeq(records, 1, k)[j] = records[j]
    BY <1>1, PrefixOf
  <2>4. \A j \in 1 .. k : SubSeq(more, 1, k)[j] = SubSeq(records, 1, k)[j]
    <3>1. \A j \in 1 .. k : j \in 1 .. Len(records) BY <1>1
    <3>2. QED BY <1>2, <2>2, <2>3, <3>1
  <2>5. QED BY <2>2, <2>3, <2>4, SeqEqual
<1>5. SubSeq(records, 1, Len(records)) = records
  <2>1. Len(records) \in 0 .. Len(records) BY <1>1
  <2>2. /\ SubSeq(records, 1, Len(records)) \in Seq(Observation)
        /\ Len(SubSeq(records, 1, Len(records))) = Len(records)
        /\ \A j \in 1 .. Len(records) : SubSeq(records, 1, Len(records))[j] = records[j]
    BY <1>1, <2>1, PrefixOf
  <2>3. QED BY <1>1, <2>2, SeqEqual
<1>6. ASSUME NEW i \in DOMAIN more
      PROVE  /\ Admissible(sp, SubSeq(more, 1, i - 1), more[i])
             /\ HasLineage(sp, SubSeq(more, 1, i - 1), more[i])
  <2>1. i - 1 \in 0 .. Len(records) BY <1>1, <1>2
  <2>2. SubSeq(more, 1, i - 1) = SubSeq(records, 1, i - 1) BY <1>4, <2>1
  <2>3. CASE i = Len(records) + 1
    <3>1. i - 1 = Len(records) /\ more[i] = rec BY <1>1, <1>2, <2>3
    <3>2. SubSeq(more, 1, i - 1) = records BY <1>5, <2>2, <3>1
    <3>3. QED BY <3>1, <3>2
  <2>4. CASE i # Len(records) + 1
    <3>1. i \in DOMAIN records /\ more[i] = records[i] BY <1>1, <1>2, <2>4
    <3>2. QED BY <2>2, <3>1 DEF Honest
  <2>5. QED BY <2>3, <2>4
<1>7. QED BY <1>2, <1>3, <1>6 DEF Honest, more

LEMMA HonestInit == ASSUME Init PROVE HonestInv
<1>1. history = <<>> /\ trace = None /\ document = None /\ edits = 0 /\ spec \in Specs BY DEF Init
<1>2. Honest(spec, history)
  <2>1. spec.count \in Nat BY <1>1, ContractAssumption DEF Candidates
  <2>2. <<>> \in Seq(Observation) /\ Len(<<>>) = 0 /\ DOMAIN <<>> = {} OBVIOUS
  <2>3. QED BY <1>1, <2>1, <2>2 DEF Honest
<1>3. document # Refused BY <1>1, ContractAssumption
<1>4. QED BY <1>1, <1>2, <1>3 DEF HonestInv

LEMMA HonestStep ==
  ASSUME ContractInv, HonestInv, [Next]_vars PROVE HonestInv'
<1>0. /\ spec \in Specs /\ (trace # None => FormedTrace(trace)) /\ (Exists => trace # None)
      /\ spec.count \in Nat
  <2>1. spec \in Specs BY DEF ContractInv, WellFormed
  <2>2. spec.count \in Nat BY <2>1, ContractAssumption DEF Candidates
  <2>3. QED BY <2>1, <2>2 DEF ContractInv, WellFormed
<1>1. ASSUME NEW rec \in Observation, Complete(rec) PROVE HonestInv'
  <2>1. /\ trace = None /\ Admissible(spec, history, rec) /\ HasLineage(spec, history, rec)
        /\ history' = Append(history, rec)
        /\ UNCHANGED <<spec, trace, document, edits>>
    BY <1>1 DEF Complete
  <2>2. Honest(spec', history') BY <1>0, <2>1, HonestGrows DEF HonestInv
  <2>3. document # Refused BY <2>1 DEF HonestInv
  <2>4. QED BY <2>1, <2>2, <2>3 DEF HonestInv
<1>2. ASSUME NEW stop \in StopReasons, MakeTrace(stop) PROVE HonestInv'
  <2>1. /\ trace = None
        /\ trace' = [spec |-> spec, steps |-> Captured(spec, history), stop |-> stop]
        /\ UNCHANGED <<spec, history, document, edits>>
    BY <1>2 DEF MakeTrace
  <2>2. PICK steps : steps = Captured(spec, history) OBVIOUS
  <2>3. trace' = [spec |-> spec, steps |-> steps, stop |-> stop] BY <2>1, <2>2
  <2>4. trace'.spec = spec /\ trace'.steps = steps /\ trace'.stop = stop BY <2>3
  <2>5. document # Refused BY <2>1 DEF HonestInv
  <2>6. trace'.steps = Captured(spec', history') BY <2>1, <2>2, <2>4
  <2>7. QED BY <2>1, <2>4, <2>5, <2>6 DEF HonestInv, Honest
<1>3. CASE Export
  <2>1. /\ trace # None /\ document' = Exported(trace)
        /\ UNCHANGED <<spec, history, trace, edits>>
    BY <1>3 DEF Export
  <2>2. Exported(trace)' = Exported(trace) /\ Captured(spec, history)' = Captured(spec, history)
    BY <2>1
  <2>3. QED BY <2>1, <2>2 DEF HonestInv
<1>4. CASE UNCHANGED <<spec, history, trace, document, edits>>
  <2>1. Exported(trace)' = Exported(trace) /\ Captured(spec, history)' = Captured(spec, history)
    BY <1>4
  <2>2. QED BY <1>4, <2>1 DEF HonestInv
<1>5. CASE EditTrace
  <2>1. /\ trace # None /\ document = None /\ edits' = edits + 1
        /\ UNCHANGED <<spec, history, document>>
        /\ \E i \in DOMAIN trace.steps : \E step \in StepEdits(trace.steps[i]) :
             trace' = [trace EXCEPT !.steps[i] = step]
    BY <1>5 DEF EditTrace, MayEdit
  <2>2. PICK i, step : trace' = [trace EXCEPT !.steps[i] = step] BY <2>1
  <2>3. HasFields(trace, {"spec", "steps", "stop"}) BY <1>0, <2>1 DEF FormedTrace
  <2>4. PICK steps : trace' = [trace EXCEPT !.steps = steps] BY <2>2
  <2>5. trace'.spec = trace.spec /\ trace'.stop = trace.stop
    BY <2>3, <2>4, FieldEdited
  <2>6. edits' \in Nat /\ edits' # 0 BY <2>1 DEF HonestInv
  <2>7. document' # Refused BY <2>1, ContractAssumption
  <2>8. trace'.spec = spec' /\ trace'.stop \in StopReasons BY <2>1, <2>5 DEF HonestInv
  <2>9. Honest(spec', history') BY <2>1 DEF HonestInv
  <2>10. QED BY <2>6, <2>7, <2>8, <2>9 DEF HonestInv
<1>6. CASE EditDocument
  <2>1. Exists /\ edits' = edits + 1 /\ UNCHANGED <<spec, history, trace>>
    BY <1>6 DEF EditDocument, MayEdit
  <2>2. edits' \in Nat /\ edits' > 0 BY <2>1 DEF HonestInv
  <2>3. Honest(spec', history') /\ trace' # None BY <1>0, <2>1 DEF HonestInv
  <2>4. trace'.spec = spec' /\ trace'.stop \in StopReasons BY <1>0, <2>1 DEF HonestInv
  <2>5. edits' # 0 BY <2>2
  <2>6. QED BY <2>2, <2>3, <2>4, <2>5 DEF HonestInv
<1>7. CASE Reseal
  <2>1. Exists /\ edits > 0 /\ UNCHANGED <<spec, history, trace, edits>> BY <1>7 DEF Reseal
  <2>2. Honest(spec', history') /\ trace' # None /\ edits' \in Nat /\ edits' > 0
    BY <1>0, <2>1 DEF HonestInv
  <2>3. trace'.spec = spec' /\ trace'.stop \in StopReasons BY <1>0, <2>1 DEF HonestInv
  <2>4. edits' # 0 BY <2>2
  <2>5. QED BY <2>2, <2>3, <2>4 DEF HonestInv
<1>8. ASSUME NEW version \in Versions, Verify(version) PROVE HonestInv'
  BY <1>4, <1>8 DEF Verify
<1>9. CASE Replay BY <1>4, <1>9 DEF Replay
<1>10. CASE UNCHANGED vars BY <1>4, <1>10 DEF vars
<1>11. QED
  BY <1>1, <1>2, <1>3, <1>5, <1>6, <1>7, <1>8, <1>9, <1>10 DEF Next

LEMMA HonestIsExported ==
  ASSUME SumsAgree, CostsGrow, RefusalIsNoDocument, ContractInv, HonestInv
  PROVE  EveryTraceExports
<1>1. SUFFICES ASSUME document = Refused, ~(edits > 0), Clean(trace.spec),
                      StopAllowed(spec, trace.stop, Len(history), Cumulative(trace.steps))
               PROVE  FALSE
  BY DEF EveryTraceExports
<1>2. /\ Exported(trace) = Refused /\ trace # None /\ trace.spec = spec
      /\ trace.stop \in StopReasons /\ Honest(spec, history)
  BY <1>1 DEF HonestInv
<1>3. trace.steps = Captured(spec, history)
  <2>1. edits = 0 BY <1>1 DEF HonestInv
  <2>2. QED BY <1>2, <2>1 DEF HonestInv
<1>4. spec \in Specs BY DEF ContractInv, WellFormed
<1>5. Len(trace.steps) = Len(history) BY <1>2, <1>3, <1>4, CapturedIs
<1>6. PICK doc : doc = Document(spec, trace.steps, trace.stop) OBVIOUS
<1>7. ValidDocument(spec.version, doc)
  BY <1>1, <1>2, <1>3, <1>4, <1>5, <1>6, HonestIsValid
<1>8. doc # Refused BY <1>6 DEF RefusalIsNoDocument
<1>9. StopAllowed(trace.spec, trace.stop, Len(trace.steps), Cumulative(trace.steps))
  BY <1>1, <1>2, <1>5
<1>10. spec.version \in {"v1", "v2", "v3"} BY <1>4, VersionsOf DEF Versions
<1>11. CASE spec.version = "v1"
  <2>1. Exported(trace) = BuiltV1(trace) BY <1>2, <1>11, Zenon DEF Exported
  <2>2. ValidV1(doc) BY <1>7, <1>11 DEF ValidDocument
  <2>3. BuiltV1(trace) = doc BY <1>2, <1>6, <1>9, <2>2 DEF BuiltV1, Built
  <2>4. QED BY <1>2, <1>8, <2>1, <2>3
<1>12. CASE spec.version = "v2"
  <2>1. Exported(trace) = BuiltV2(trace) BY <1>2, <1>12, Zenon DEF Exported
  <2>2. ValidV2(doc) BY <1>7, <1>12 DEF ValidDocument
  <2>3. BuiltV2(trace) = doc BY <1>2, <1>6, <1>9, <2>2 DEF BuiltV2, Built
  <2>4. QED BY <1>2, <1>8, <2>1, <2>3
<1>13. CASE spec.version = "v3"
  <2>1. Exported(trace) = BuiltV3(trace) BY <1>2, <1>13, Zenon DEF Exported
  <2>2. ValidV3(doc) BY <1>7, <1>13 DEF ValidDocument
  <2>3. BuiltV3(trace) = doc BY <1>2, <1>6, <1>9, <2>2 DEF BuiltV3, Built
  <2>4. QED BY <1>2, <1>8, <2>1, <2>3
<1>14. QED BY <1>10, <1>11, <1>12, <1>13

(* An untouched trace of a run, of any policy and version, with a stop     *)
(* reason that is true of it and a permitted wording, is never refused:    *)
(* capture writes nothing that the constructors or verification reject.    *)
THEOREM HonestTracesAreExported ==
  ASSUME SumsAgree, CostsGrow, RefusalIsNoDocument
  PROVE  Spec => []EveryTraceExports
<1>1. Init => HonestInv BY HonestInit
<1>2. ContractInv /\ HonestInv /\ [Next]_vars => HonestInv' BY HonestStep
<1>3. ContractInv /\ HonestInv => EveryTraceExports BY HonestIsExported
<1>4. QED BY <1>1, <1>2, <1>3, ContractKeeps, PTL DEF Spec
=============================================================================
