----------------------- MODULE WorkloadRunner_proofs -----------------------
(***************************************************************************)
(* Proofs about WorkloadRunner, for any number of runners, any candidates, *)
(* budgets and costs, with crashes and retries.                            *)
(***************************************************************************)
EXTENDS WorkloadRunner, SequenceTheorems, FiniteSetTheorems, TLAPS

-----------------------------------------------------------------------------
(* The selection policies and the histories that follow them.              *)

(* The available candidates are finitely many integers.                    *)
LEMMA AvailableFinite ==
  ASSUME NEW h
  PROVE  /\ Available(h) \subseteq Candidates
         /\ Available(h) \subseteq Int
         /\ IsFiniteSet(Available(h))
<1>1. Available(h) \subseteq Candidates
  BY DEF Available
<1>2. IsFiniteSet(Candidates)
  BY PolicyAssumption, FS_Interval DEF Candidates
<1>3. IsFiniteSet(Available(h))
  BY <1>1, <1>2, FS_Subset
<1>4. QED
  BY <1>1, <1>3, PolicyAssumption DEF Candidates

(* Two candidates with as many available candidates at or below them are   *)
(* one.                                                                    *)
LEMMA RankInjective ==
  ASSUME NEW h, NEW c \in Available(h), NEW d \in Available(h),
         Cardinality({x \in Available(h) : x <= c}) = Cardinality({x \in Available(h) : x <= d})
  PROVE  ~(c < d)
<1> DEFINE Below(e) == {x \in Available(h) : x <= e}
<1> SUFFICES ASSUME c < d PROVE FALSE
  OBVIOUS
<1>1. Below(c) \subseteq Below(d) /\ d \in Below(d) /\ d \notin Below(c)
  BY AvailableFinite
<1>2. IsFiniteSet(Below(d))
  BY AvailableFinite, FS_Subset
<1>3. QED
  BY <1>1, <1>2, FS_Subset

(* The first of the best is one candidate.                                 *)
LEMMA FirstBestUnique ==
  ASSUME NEW score, NEW available, NEW c \in available, NEW d \in available,
         c \in Int, d \in Int, score[c] \in Int, score[d] \in Int,
         FirstBest(score, available, c), FirstBest(score, available, d)
  PROVE  c = d
BY DEF FirstBest

(* After any history, a policy selects at most one candidate.              *)
LEMMA PicksDeterministic ==
  ASSUME NEW h, NEW c, NEW d, Picks(h, c), Picks(h, d)
  PROVE  c = d
<1>1. c \in Available(h) /\ d \in Available(h) /\ c \in Int /\ d \in Int
  BY AvailableFinite DEF Picks
<1>2. CASE PolicyId = "random"
  <2>1. PicksRandom(h, c) /\ PicksRandom(h, d)
    BY <1>2 DEF Picks
  <2>2. ~(c < d) /\ ~(d < c)
    BY <1>1, <2>1, RankInjective DEF PicksRandom
  <2>3. QED
    BY <1>1, <2>2
<1>3. CASE PolicyId = "greedy_prior"
  <2>1. PicksGreedyPrior(h, c) /\ PicksGreedyPrior(h, d)
    BY <1>3 DEF Picks
  <2>2. Utility[c] \in Int /\ Utility[d] \in Int
    BY <1>1, AvailableFinite, PolicyAssumption
  <2>3. QED
    BY <1>1, <2>1, <2>2, FirstBestUnique DEF PicksGreedyPrior
<1>4. CASE PolicyId = "information_gain_table"
  <2>1. PicksInformationGain(h, c) /\ PicksInformationGain(h, d)
    BY <1>4 DEF Picks
  <2> DEFINE gain == [e \in Candidates |-> Gain(e, BeliefAfter(h))]
  <2>2. FirstBest(gain, Available(h), c) /\ FirstBest(gain, Available(h), d)
    BY <2>1 DEF PicksInformationGain
  <2>3. c \in Candidates /\ d \in Candidates
    BY <1>1 DEF Available
  <2>4. gain[c] \in Int /\ gain[d] \in Int
    BY <2>1, <2>3, GainAssumption DEF PicksInformationGain
  <2>5. QED
    BY <1>1, <2>2, <2>4, FirstBestUnique
<1>5. QED
  BY <1>2, <1>3, <1>4, PolicyAssumption

-----------------------------------------------------------------------------

(* A prefix of a history is a history.                                     *)
LEMMA PrefixProperties ==
  ASSUME NEW h \in Seq(Record), NEW n \in 0 .. Len(h)
  PROVE  /\ Prefix(h, n) \in Seq(Record)
         /\ Len(Prefix(h, n)) = n
         /\ \A i \in 1 .. n : Prefix(h, n)[i] = h[i]
  BY SubSeqProperties DEF Prefix

(* Appending a record leaves the earlier prefixes as they were.            *)
LEMMA PrefixOfAppend ==
  ASSUME NEW h \in Seq(Record), NEW rec \in Record, NEW n \in 0 .. Len(h)
  PROVE  Prefix(Append(h, rec), n) = Prefix(h, n)
<1> DEFINE longer == Append(h, rec)
<1>1. longer \in Seq(Record) /\ n \in 0 .. Len(longer)
      /\ \A i \in 1 .. n : longer[i] = h[i]
  OBVIOUS
<1> HIDE DEF longer
<1>2. /\ Prefix(longer, n) \in Seq(Record) /\ Prefix(h, n) \in Seq(Record)
      /\ Len(Prefix(longer, n)) = n /\ Len(Prefix(h, n)) = n
      /\ \A i \in 1 .. n : Prefix(longer, n)[i] = longer[i] /\ Prefix(h, n)[i] = h[i]
  BY <1>1, PrefixProperties
<1>3. Prefix(longer, n) = Prefix(h, n)
  BY <1>1, <1>2, SeqEqual
<1>4. QED
  BY <1>3 DEF longer

(* An admissible record extends a history that follows the policy to one   *)
(* that follows it.                                                        *)
LEMMA FollowsAppend ==
  ASSUME NEW h \in Seq(Record), NEW rec \in Record, Follows(h), Admissible(h, rec)
  PROVE  Follows(Append(h, rec))
<1> DEFINE longer == Append(h, rec)
<1> SUFFICES ASSUME NEW i \in 1 .. Len(h) + 1
             PROVE  Admissible(Prefix(longer, i - 1), longer[i])
  BY DEF Follows
<1>1. Prefix(longer, i - 1) = Prefix(h, i - 1)
  BY PrefixOfAppend
<1>2. CASE i = Len(h) + 1
  <2>1. Prefix(h, i - 1) = h
    BY <1>2, SubSeqFull DEF Prefix
  <2>2. QED
    BY <1>1, <1>2, <2>1
<1>3. CASE i # Len(h) + 1
  <2>1. i \in DOMAIN h /\ longer[i] = h[i]
    BY <1>3
  <2>2. QED
    BY <1>1, <2>1 DEF Follows
<1>4. QED
  BY <1>2, <1>3

(* The optimistic concurrency control: a pick made from a prefix of a      *)
(* history that follows the policy, and still absent from that history,    *)
(* was made from the whole of it.  A runner that others overtook picked    *)
(* what they persisted, and its insert is a duplicate.                     *)
LEMMA AbsentPickIsCurrent ==
  ASSUME NEW h \in Seq(Record), Follows(h),
         NEW n \in 0 .. Len(h),
         NEW c, Picks(Prefix(h, n), c), c \notin Completed(h)
  PROVE  Prefix(h, n) = h
<1>1. CASE n = Len(h)
  BY <1>1, SubSeqFull DEF Prefix
<1>2. CASE n # Len(h)
  <2>1. n + 1 \in DOMAIN h
    BY <1>2
  <2>2. Picks(Prefix(h, n), h[n + 1].candidate)
    BY <2>1 DEF Follows, Admissible
  <2>3. h[n + 1].candidate = c
    BY <2>2, PicksDeterministic
  <2>4. QED
    BY <2>1, <2>3 DEF Completed
<1>3. QED
  BY <1>1, <1>2

-----------------------------------------------------------------------------
(* The runner.                                                             *)

(* A connection sees completed records.                                    *)
LEMMA ViewType ==
  ASSUME TypeOK, NEW p \in Runners
  PROVE  View(p) \in Seq(Record)
  BY ConcatProperties DEF TypeOK, View

(* Each loop that stops gives one of the three reasons.                    *)
LEMMA StopReasonType ==
  ASSUME NEW trace, StopReason(trace) # Running
  PROVE  StopReason(trace) \in StopReasons
  BY DEF StopReason, StopReasons

-----------------------------------------------------------------------------

(* Every step keeps the types.                                             *)
LEMMA TypeStep ==
  ASSUME TypeOK, [Next]_vars
  PROVE  TypeOK'
<1> USE RunnerAssumption DEF PCs, Locks, Goto, Forget, store, local
<1>1. CASE UNCHANGED vars
  BY <1>1 DEF TypeOK, vars
<1>2. ASSUME NEW p \in Runners, Open(p) PROVE TypeOK'
  BY <1>2 DEF Open, TypeOK
<1>3. ASSUME NEW p \in Runners, BeginTrace(p) PROVE TypeOK'
  BY <1>3 DEF BeginTrace, Read, TypeOK
<1>4. ASSUME NEW p \in Runners, BeginResume(p) PROVE TypeOK'
  <2>1. View(p) \in Seq(Record)
    BY ViewType
  <2>2. QED
    BY <1>4, <2>1 DEF BeginResume, Read, TypeOK
<1>5. ASSUME NEW p \in Runners, BeginExperiment(p) PROVE TypeOK'
  BY <1>5 DEF BeginExperiment, TypeOK
<1>6. ASSUME NEW p \in Runners, Continue(p) PROVE TypeOK'
  BY <1>6 DEF Continue, TypeOK
<1>7. ASSUME NEW p \in Runners, ReturnTrace(p) PROVE TypeOK'
  <2>1. [steps |-> steps[p], reason |-> StopReason(steps[p])] \in Trace
    BY <1>7, StopReasonType DEF ReturnTrace, TypeOK, Trace
  <2>2. QED
    BY <1>7, <2>1 DEF ReturnTrace, TypeOK
<1>8. ASSUME NEW p \in Runners, Select(p) PROVE TypeOK'
  <2>1. View(p) \in Seq(Record)
    BY ViewType
  <2>2. row' \in [Runners -> {None} \cup [candidate : Candidates] \cup Record]
    BY <1>8 DEF Select, TypeOK
  <2>3. QED
    BY <1>8, <2>1, <2>2 DEF Select, Read, TypeOK
<1>9. ASSUME NEW p \in Runners, SelectFails(p) PROVE TypeOK'
  BY <1>9 DEF SelectFails, Read, TypeOK
<1>10. ASSUME NEW p \in Runners, ReadBusy(p) PROVE TypeOK'
  BY <1>10 DEF ReadBusy, TypeOK
<1>11. ASSUME NEW p \in Runners, Evaluate(p) PROVE TypeOK'
  <2>1. PICK value \in Values, cost \in Costs :
          row' = [row EXCEPT ![p] = [candidate |-> row[p].candidate,
                                     value |-> value, cost |-> cost]]
    BY <1>11 DEF Evaluate
  <2>2. row[p].candidate \in Candidates
    BY <1>11 DEF Evaluate, TypeOK
  <2>3. [candidate |-> row[p].candidate, value |-> value, cost |-> cost] \in Record
    BY <2>2 DEF Record
  <2>4. QED
    BY <1>11, <2>1, <2>3 DEF Evaluate, TypeOK
<1>12. ASSUME NEW p \in Runners, EvaluateFails(p) PROVE TypeOK'
  BY <1>12 DEF EvaluateFails, TypeOK
<1>13. ASSUME NEW p \in Runners, Insert(p) PROVE TypeOK'
  BY <1>13 DEF Insert, TypeOK
<1>14. ASSUME NEW p \in Runners, InsertDuplicate(p) PROVE TypeOK'
  BY <1>14 DEF InsertDuplicate, TypeOK
<1>15. ASSUME NEW p \in Runners, InsertBusy(p) PROVE TypeOK'
  BY <1>15 DEF InsertBusy, TypeOK
<1>16. ASSUME NEW p \in Runners, Commit(p) PROVE TypeOK'
  <2>1. View(p) \in Seq(Record)
    BY ViewType
  <2>2. QED
    BY <1>16, <2>1 DEF Commit, TypeOK
<1>17. ASSUME NEW p \in Runners, CommitBusy(p) PROVE TypeOK'
  BY <1>17 DEF CommitBusy, TypeOK
<1>18. ASSUME NEW p \in Runners, Capture(p) PROVE TypeOK'
  BY <1>18 DEF Capture, TypeOK
<1>19. ASSUME NEW p \in Runners, Close(p) PROVE TypeOK'
  BY <1>19 DEF Close, Rollback, TypeOK
<1>20. ASSUME NEW p \in Runners, CallAgain(p) PROVE TypeOK'
  BY <1>20 DEF CallAgain, TypeOK
<1>21. ASSUME NEW p \in Runners, Crash(p) PROVE TypeOK'
  BY <1>21 DEF Crash, Rollback, TypeOK
<1>22. ASSUME NEW p \in Runners, BeginRejected(p) PROVE TypeOK'
  BY <1>22 DEF BeginRejected, Read, TypeOK
<1>23. ASSUME NEW p \in Runners, CaptureRejected(p) PROVE TypeOK'
  BY <1>23 DEF CaptureRejected, TypeOK
<1>24. QED
  BY <1>1, <1>2, <1>3, <1>4, <1>5, <1>6, <1>7, <1>8, <1>9, <1>10, <1>11, <1>12, <1>13, <1>14,
     <1>15, <1>16, <1>17, <1>18, <1>19, <1>20, <1>21, <1>22, <1>23 DEF Next, Advance

(* Rows, traces and locks always have their types.                         *)
THEOREM TypeCorrect == Spec => []TypeOK
<1>1. Init => TypeOK
  BY RunnerAssumption DEF Init, TypeOK, PCs, Locks
<1>2. TypeOK /\ [Next]_vars => TypeOK'
  BY TypeStep
<1>3. QED
  BY <1>1, <1>2, PTL DEF Spec

-----------------------------------------------------------------------------

(* A step that leaves the rows and the write lock alone and takes its      *)
(* runner nowhere near an insert keeps the invariant.                      *)
LEMMA LocalStep ==
  ASSUME RunnerInv, TypeOK', NEW p \in Runners,
         UNCHANGED <<committed, pending>>,
         \A q \in Runners : Writing(q)' = Writing(q),
         \A q \in Runners \ {p} : pc'[q] = pc[q] /\ seen'[q] = seen[q] /\ row'[q] = row[q],
         pc'[p] \notin {"evaluate", "insert", "commit"}
  PROVE  RunnerInv'
<1>1. \A q \in Runners : View(q)' = View(q)
  BY DEF View
<1>2. PolicyOrder' /\ \A q \in Runners : Follows(View(q)')
  BY <1>1 DEF RunnerInv, PolicyOrder
<1>3. SingleWriter'
  BY DEF RunnerInv, SingleWriter
<1>4. SelectedFromPrefix'
  BY <1>1 DEF RunnerInv, SelectedFromPrefix
<1>5. InsertedFromCurrentHistory' /\ \A q \in Runners : pc'[q] = "commit" => Writing(q)'
  BY <1>1 DEF RunnerInv, InsertedFromCurrentHistory
<1>6. QED
  BY <1>1, <1>2, <1>3, <1>4, <1>5 DEF RunnerInv

(* A SELECT changes no row and no write lock.                              *)
LEMMA ReadStep ==
  ASSUME TypeOK, NEW p \in Runners, Read(p)
  PROVE  /\ UNCHANGED <<committed, pending>>
         /\ \A q \in Runners : Writing(q)' = Writing(q)
  BY DEF Read, Writing, TypeOK, Locks

(* A selection is made from the whole of what the connection sees.         *)
LEMMA SelectStep ==
  ASSUME RunnerInv, TypeOK', NEW p \in Runners, Select(p)
  PROVE  RunnerInv'
<1> USE DEF RunnerInv
<1>1. /\ UNCHANGED <<committed, pending>>
      /\ \A q \in Runners : Writing(q)' = Writing(q) /\ View(q)' = View(q)
  BY ReadStep DEF Select, View
<1>2. /\ \A q \in Runners \ {p} : pc'[q] = pc[q] /\ seen'[q] = seen[q] /\ row'[q] = row[q]
      /\ pc'[p] = "evaluate" /\ seen'[p] = View(p)
  BY DEF Select, Goto, TypeOK
<1>3. MayExperiment(View(p)) /\ Picks(View(p), row'[p].candidate)
  <2>1. PICK c \in Candidates : Picks(View(p), c) /\ row' = [row EXCEPT ![p] = [candidate |-> c]]
    BY DEF Select
  <2>2. row'[p].candidate = c
    BY <2>1 DEF TypeOK
  <2>3. QED
    BY <2>1, <2>2 DEF Select
<1>4. View(p) \in Seq(Record)
  BY ViewType
<1>5. Prefix(View(p), Len(View(p))) = View(p)
  BY <1>4, SubSeqFull DEF Prefix
<1>6. SelectedFromPrefix'
  <2> SUFFICES ASSUME NEW q \in Runners, pc'[q] \in {"evaluate", "insert"}
               PROVE  /\ Len(seen'[q]) <= Len(View(q)')
                      /\ seen'[q] = Prefix(View(q)', Len(seen'[q]))
                      /\ MayExperiment(seen'[q])
                      /\ Picks(seen'[q], row'[q].candidate)
                      /\ pc'[q] = "insert" => Affordable(seen'[q], row'[q].cost)
    BY DEF SelectedFromPrefix
  <2>1. CASE q = p
    BY <1>1, <1>2, <1>3, <1>4, <1>5, <2>1
  <2>2. CASE q # p
    BY <1>1, <1>2, <2>2 DEF SelectedFromPrefix
  <2>3. QED
    BY <2>1, <2>2
<1>7. PolicyOrder' /\ SingleWriter' /\ \A q \in Runners : Follows(View(q)')
  BY <1>1 DEF PolicyOrder, SingleWriter
<1>8. InsertedFromCurrentHistory' /\ \A q \in Runners : pc'[q] = "commit" => Writing(q)'
  BY <1>1, <1>2 DEF InsertedFromCurrentHistory
<1>9. QED
  BY <1>6, <1>7, <1>8

(* An evaluation that goes on is affordable after the history it was       *)
(* selected from.                                                          *)
LEMMA EvaluateStep ==
  ASSUME RunnerInv, TypeOK', NEW p \in Runners, Evaluate(p)
  PROVE  RunnerInv'
<1> USE DEF RunnerInv
<1>1. /\ UNCHANGED <<committed, pending, lock, seen>>
      /\ \A q \in Runners : Writing(q)' = Writing(q) /\ View(q)' = View(q)
  BY DEF Evaluate, View, Writing, store
<1>2. /\ \A q \in Runners \ {p} : pc'[q] = pc[q] /\ row'[q] = row[q]
      /\ pc[p] = "evaluate" /\ pc'[p] = "insert"
  BY DEF Evaluate, Goto, TypeOK
<1>3. Affordable(seen[p], row'[p].cost) /\ row'[p].candidate = row[p].candidate
  <2>1. PICK value \in Values, cost \in Costs :
          /\ Affordable(seen[p], cost)
          /\ row' = [row EXCEPT ![p] = [candidate |-> row[p].candidate,
                                        value |-> value, cost |-> cost]]
    BY DEF Evaluate
  <2>2. row'[p].cost = cost /\ row'[p].candidate = row[p].candidate
    BY <2>1 DEF TypeOK
  <2>3. QED
    BY <2>1, <2>2
<1>4. SelectedFromPrefix'
  BY <1>1, <1>2, <1>3 DEF SelectedFromPrefix
<1>5. PolicyOrder' /\ SingleWriter' /\ \A q \in Runners : Follows(View(q)')
  BY <1>1 DEF PolicyOrder, SingleWriter
<1>6. InsertedFromCurrentHistory' /\ \A q \in Runners : pc'[q] = "commit" => Writing(q)'
  BY <1>1, <1>2 DEF InsertedFromCurrentHistory
<1>7. QED
  BY <1>4, <1>5, <1>6

(* A successful INSERT extends exactly the history it was selected from.   *)
LEMMA InsertStep ==
  ASSUME RunnerInv, TypeOK', NEW p \in Runners, Insert(p)
  PROVE  RunnerInv'
<1> USE DEF RunnerInv
<1>1. /\ UNCHANGED <<committed, seen, row>>
      /\ pc[p] = "insert" /\ pc'[p] = "commit"
      /\ \A q \in Runners \ {p} : pc'[q] = pc[q] /\ pending'[q] = pending[q] /\ lock'[q] = lock[q]
      /\ pending'[p] = Append(pending[p], row[p])
      /\ Writing(p)' /\ ~WriteLocked(p)
      /\ row[p].candidate \notin Completed(View(p))
  BY DEF Insert, Goto, TypeOK, Writing, Locks, local
<1>2. /\ View(p) \in Seq(Record) /\ row[p] \in Record /\ seen[p] \in Seq(Record)
      /\ committed \in Seq(Record) /\ pending[p] \in Seq(Record)
  BY <1>1, ViewType DEF TypeOK
<1>3. View(p)' = Append(View(p), row[p])
  BY <1>1, <1>2 DEF View
<1>4. \A q \in Runners \ {p} : View(q)' = View(q) /\ Writing(q)' = Writing(q)
  BY <1>1 DEF View, Writing
<1>5. seen[p] = View(p)
  <2>1. /\ Len(seen[p]) \in 0 .. Len(View(p))
        /\ seen[p] = Prefix(View(p), Len(seen[p]))
        /\ Picks(seen[p], row[p].candidate)
    BY <1>1, <1>2 DEF SelectedFromPrefix
  <2>2. Prefix(View(p), Len(seen[p])) = View(p)
    BY <1>1, <1>2, <2>1, AbsentPickIsCurrent
  <2>3. QED
    BY <2>1, <2>2
<1>6. Admissible(View(p), row[p])
  BY <1>1, <1>5 DEF SelectedFromPrefix, Admissible
<1>7. Follows(View(p)')
  BY <1>2, <1>3, <1>6, FollowsAppend
<1>8. PolicyOrder' /\ \A q \in Runners : Follows(View(q)')
  BY <1>1, <1>4, <1>7 DEF PolicyOrder
<1>9. \A q \in Runners \ {p} : ~Writing(q)
  BY <1>1 DEF WriteLocked, Others, Writing
<1>10. SingleWriter'
  BY <1>1, <1>4, <1>9 DEF SingleWriter
<1>11. SelectedFromPrefix'
  BY <1>1, <1>4 DEF SelectedFromPrefix
<1>12. InsertedFromCurrentHistory' /\ \A q \in Runners : pc'[q] = "commit" => Writing(q)'
  BY <1>1, <1>3, <1>4, <1>5 DEF InsertedFromCurrentHistory
<1>13. QED
  BY <1>8, <1>10, <1>11, <1>12

(* A refused INSERT takes the write lock, which no other connection holds. *)
LEMMA InsertDuplicateStep ==
  ASSUME RunnerInv, TypeOK', NEW p \in Runners, InsertDuplicate(p)
  PROVE  RunnerInv'
<1> USE DEF RunnerInv
<1>1. /\ UNCHANGED <<committed, pending, seen, row>>
      /\ pc'[p] = "failed"
      /\ \A q \in Runners \ {p} : pc'[q] = pc[q] /\ lock'[q] = lock[q]
      /\ \A q \in Runners : View(q)' = View(q)
      /\ Writing(p)' /\ ~WriteLocked(p)
  BY DEF InsertDuplicate, Goto, TypeOK, Writing, Locks, local, View
<1>2. \A q \in Runners \ {p} : Writing(q)' = Writing(q) /\ ~Writing(q)
  BY <1>1 DEF WriteLocked, Others, Writing
<1>3. SingleWriter'
  BY <1>1, <1>2 DEF SingleWriter
<1>4. PolicyOrder' /\ \A q \in Runners : Follows(View(q)')
  BY <1>1 DEF PolicyOrder
<1>5. SelectedFromPrefix' /\ InsertedFromCurrentHistory'
  BY <1>1 DEF SelectedFromPrefix, InsertedFromCurrentHistory
<1>6. \A q \in Runners : pc'[q] = "commit" => Writing(q)'
  BY <1>1, <1>2
<1>7. QED
  BY <1>3, <1>4, <1>5, <1>6

(* A commit publishes what its connection saw; the others, which have no   *)
(* rows of their own, see their history extended.                          *)
LEMMA CommitStep ==
  ASSUME RunnerInv, TypeOK', NEW p \in Runners, Commit(p)
  PROVE  RunnerInv'
<1> USE DEF RunnerInv
<1>1. /\ committed' = View(p) /\ UNCHANGED row
      /\ pending'[p] = << >> /\ lock'[p] = "none"
      /\ pc[p] = "commit" /\ pc'[p] \in {"done", "capture"}
      /\ \A q \in Runners \ {p} :
            /\ pc'[q] = pc[q] /\ pending'[q] = pending[q]
            /\ lock'[q] = lock[q] /\ seen'[q] = seen[q]
  BY DEF Commit, Goto, TypeOK
<1>2. /\ View(p) \in Seq(Record) /\ committed \in Seq(Record) /\ pending[p] \in Seq(Record)
      /\ \A q \in Runners : seen[q] \in Seq(Record)
  BY ViewType DEF TypeOK
<1>3. \A q \in Runners \ {p} : ~Writing(q) /\ pending[q] = << >>
  BY <1>1 DEF SingleWriter
<1>4. \A q \in Runners : View(q)' = View(p)
  BY <1>1, <1>2, <1>3, ConcatEmptySeq DEF View
<1>5. \A q \in Runners \ {p} : View(q) = committed
  BY <1>2, <1>3, ConcatEmptySeq DEF View
<1>6. PolicyOrder' /\ \A q \in Runners : Follows(View(q)')
  BY <1>1, <1>4 DEF PolicyOrder
<1>7. SingleWriter'
  BY <1>1, <1>3 DEF SingleWriter, Writing
<1>8. SelectedFromPrefix'
  <2> SUFFICES ASSUME NEW q \in Runners \ {p}, pc[q] \in {"evaluate", "insert"}
               PROVE  /\ Len(seen[q]) <= Len(View(p))
                      /\ seen[q] = Prefix(View(p), Len(seen[q]))
    BY <1>1, <1>4 DEF SelectedFromPrefix
  <2>1. Len(seen[q]) \in 0 .. Len(committed) /\ seen[q] = Prefix(committed, Len(seen[q]))
    BY <1>2, <1>5 DEF SelectedFromPrefix
  <2>2. Len(View(p)) = Len(committed) + Len(pending[p])
    BY <1>2, ConcatProperties DEF View
  <2>3. \A i \in 1 .. Len(seen[q]) : View(p)[i] = committed[i]
    BY <1>2, <2>1, ConcatProperties DEF View
  <2>4. Len(seen[q]) \in 0 .. Len(View(p))
    BY <1>2, <2>1, <2>2
  <2>5. /\ Prefix(View(p), Len(seen[q])) \in Seq(Record)
        /\ Len(Prefix(View(p), Len(seen[q]))) = Len(seen[q])
        /\ \A i \in 1 .. Len(seen[q]) : Prefix(View(p), Len(seen[q]))[i] = View(p)[i]
    BY <1>2, <2>4, PrefixProperties
  <2>6. \A i \in 1 .. Len(seen[q]) : seen[q][i] = committed[i]
    BY <1>2, <2>1, PrefixProperties
  <2>7. seen[q] = Prefix(View(p), Len(seen[q]))
    <3> DEFINE prefix == Prefix(View(p), Len(seen[q]))
    <3>1. /\ prefix \in Seq(Record) /\ Len(prefix) = Len(seen[q])
          /\ \A i \in 1 .. Len(seen[q]) : seen[q][i] = prefix[i]
      BY <2>3, <2>5, <2>6
    <3>2. seen[q] \in Seq(Record)
      BY <1>2
    <3> HIDE DEF prefix
    <3>3. seen[q] = prefix
      BY <3>1, <3>2, SeqEqual
    <3>4. QED
      BY <3>3 DEF prefix
  <2>8. QED
    BY <2>4, <2>7
<1>9. InsertedFromCurrentHistory' /\ \A q \in Runners : pc'[q] = "commit" => Writing(q)'
  BY <1>1, <1>3 DEF InsertedFromCurrentHistory, Writing
<1>10. QED
  BY <1>6, <1>7, <1>8, <1>9

(* A connection that closes or dies takes its own rows with it.            *)
LEMMA RollbackStep ==
  ASSUME RunnerInv, TypeOK', NEW p \in Runners, Rollback(p), Forget(p), Goto(p, "closed")
  PROVE  RunnerInv'
<1> USE DEF RunnerInv
<1>1. /\ committed' = committed /\ pc'[p] = "closed"
      /\ pending'[p] = << >> /\ lock'[p] = "none"
      /\ \A q \in Runners \ {p} :
            /\ pc'[q] = pc[q] /\ pending'[q] = pending[q] /\ lock'[q] = lock[q]
            /\ seen'[q] = seen[q] /\ row'[q] = row[q]
  BY DEF Rollback, Forget, Goto, TypeOK
<1>2. View(p)' = committed
  BY <1>1, ConcatEmptySeq DEF View, TypeOK
<1>3. \A q \in Runners \ {p} : View(q)' = View(q) /\ Writing(q)' = Writing(q)
  BY <1>1 DEF View, Writing
<1>4. PolicyOrder' /\ \A q \in Runners : Follows(View(q)')
  BY <1>1, <1>2, <1>3 DEF PolicyOrder
<1>5. SingleWriter'
  BY <1>1, <1>3 DEF SingleWriter, Writing
<1>6. SelectedFromPrefix' /\ InsertedFromCurrentHistory'
  BY <1>1, <1>3 DEF SelectedFromPrefix, InsertedFromCurrentHistory
<1>7. \A q \in Runners : pc'[q] = "commit" => Writing(q)'
  BY <1>1, <1>3
<1>8. QED
  BY <1>4, <1>5, <1>6, <1>7

(* A COMMIT that gives up keeps the write lock and its rows.               *)
LEMMA CommitBusyStep ==
  ASSUME RunnerInv, TypeOK', NEW p \in Runners, CommitBusy(p)
  PROVE  RunnerInv'
<1>1. /\ UNCHANGED <<committed, pending, seen, row>> /\ pc'[p] = "failed"
      /\ \A q \in Runners \ {p} : pc'[q] = pc[q]
      /\ \A q \in Runners : Writing(q)' = Writing(q)
  BY DEF CommitBusy, Goto, TypeOK, Writing, Locks, local, RunnerInv
<1>2. QED
  BY <1>1, LocalStep

-----------------------------------------------------------------------------

(* The invariant is inductive.                                             *)
LEMMA RunnerInvStep ==
  ASSUME RunnerInv, [Next]_vars
  PROVE  RunnerInv'
<1>1. TypeOK'
  BY TypeStep DEF RunnerInv
<1>2. CASE UNCHANGED vars
  <2>1. UNCHANGED <<committed, pc, seen, row, lock, pending>>
    BY <1>2 DEF vars
  <2>2. \A q \in Runners : View(q)' = View(q) /\ Writing(q)' = Writing(q)
    BY <2>1 DEF View, Writing
  <2>3. QED
    BY <1>1, <2>1, <2>2 DEF RunnerInv, PolicyOrder, SingleWriter, SelectedFromPrefix,
                            InsertedFromCurrentHistory
<1>3. ASSUME NEW p \in Runners,
             \/ Open(p) \/ BeginExperiment(p) \/ Continue(p) \/ ReturnTrace(p) \/ ReadBusy(p)
             \/ EvaluateFails(p) \/ InsertBusy(p) \/ Capture(p) \/ CaptureRejected(p)
             \/ CallAgain(p)
      PROVE  RunnerInv'
  <2>1. UNCHANGED <<committed, pending, lock>>
    BY <1>3 DEF Open, BeginExperiment, Continue, ReturnTrace, ReadBusy, EvaluateFails, InsertBusy,
                Capture, CaptureRejected, CallAgain, store
  <2>2. /\ \A q \in Runners \ {p} : pc'[q] = pc[q]
        /\ pc'[p] \notin {"evaluate", "insert", "commit"}
    BY <1>3 DEF Open, BeginExperiment, Continue, ReturnTrace, ReadBusy, EvaluateFails, InsertBusy,
                Capture, CaptureRejected, CallAgain, Goto, RunnerInv, TypeOK
  <2>3. \A q \in Runners \ {p} : seen'[q] = seen[q] /\ row'[q] = row[q]
    BY <1>3 DEF Open, BeginExperiment, Continue, ReturnTrace, ReadBusy, EvaluateFails, InsertBusy,
                Capture, CaptureRejected, CallAgain, Forget, local, RunnerInv, TypeOK
  <2>4. QED
    BY <1>1, <2>1, <2>2, <2>3, LocalStep DEF Writing
<1>4. ASSUME NEW p \in Runners,
             BeginTrace(p) \/ BeginResume(p) \/ BeginRejected(p) \/ SelectFails(p)
      PROVE  RunnerInv'
  <2>1. Read(p)
    BY <1>4 DEF BeginTrace, BeginResume, BeginRejected, SelectFails
  <2>2. /\ \A q \in Runners \ {p} : pc'[q] = pc[q] /\ seen'[q] = seen[q] /\ row'[q] = row[q]
        /\ pc'[p] \notin {"evaluate", "insert", "commit"}
    BY <1>4 DEF BeginTrace, BeginResume, BeginRejected, SelectFails, Goto, local, RunnerInv, TypeOK
  <2>3. QED
    BY <1>1, <2>1, <2>2, LocalStep, ReadStep DEF RunnerInv
<1>5. ASSUME NEW p \in Runners, Close(p) \/ Crash(p) PROVE RunnerInv'
  BY <1>1, <1>5, RollbackStep DEF Close, Crash
<1>6. QED
  BY <1>1, <1>2, <1>3, <1>4, <1>5, SelectStep, EvaluateStep, InsertStep, InsertDuplicateStep,
     CommitStep, CommitBusyStep DEF Next, Advance

(* For any runners, crashes and retries, what every connection sees        *)
(* follows the policy, one connection writes at a time, and a runner on    *)
(* its way to an insert holds a pick and a cost that were right for a      *)
(* prefix of what it sees.                                                 *)
THEOREM RunnerInvariant == Spec => []RunnerInv
<1>1. Init => RunnerInv
  <2> SUFFICES ASSUME Init PROVE RunnerInv
    OBVIOUS
  <2>1. TypeOK
    BY RunnerAssumption DEF Init, TypeOK, PCs, Locks
  <2>2. committed = << >> /\ \A p \in Runners : View(p) = << >>
    BY ConcatEmptySeq DEF Init, View
  <2>3. Follows(<< >>)
    BY DEF Follows
  <2>4. QED
    BY <2>1, <2>2, <2>3 DEF Init, RunnerInv, PolicyOrder, SingleWriter, SelectedFromPrefix,
                            InsertedFromCurrentHistory, Writing
<1>2. RunnerInv /\ [Next]_vars => RunnerInv'
  BY RunnerInvStep
<1>3. QED
  BY <1>1, <1>2, PTL DEF Spec

(* Whatever the runners, crashes and retries, the persisted history is the *)
(* one the policy alone produces, within both budgets, and every row is    *)
(* committed onto the history it was selected from.                        *)
THEOREM HistoryFollowsPolicy == Spec => [](PolicyOrder /\ InsertedFromCurrentHistory)
<1>1. RunnerInv => PolicyOrder /\ InsertedFromCurrentHistory
  BY DEF RunnerInv
<1>2. QED
  BY <1>1, RunnerInvariant, PTL

-----------------------------------------------------------------------------
(* What callers get back, where no call is made on a store that a call has *)
(* failed on.                                                              *)

(* Followed histories name each candidate once.                            *)
LEMMA FollowedAreDistinct ==
  ASSUME NEW h \in Seq(Record), Follows(h), NEW i \in DOMAIN h, NEW j \in DOMAIN h,
         h[i].candidate = h[j].candidate
  PROVE  i = j
<1>1. \A k, m \in DOMAIN h : k < m => h[k].candidate # h[m].candidate
  <2> SUFFICES ASSUME NEW k \in DOMAIN h, NEW m \in DOMAIN h, k < m
               PROVE  h[k].candidate # h[m].candidate
    OBVIOUS
  <2>1. m - 1 \in 0 .. Len(h) /\ k \in 1 .. m - 1
    OBVIOUS
  <2>2. Prefix(h, m - 1) \in Seq(Record) /\ Len(Prefix(h, m - 1)) = m - 1 /\ Prefix(h, m - 1)[k] = h[k]
    BY <2>1, PrefixProperties
  <2>3. k \in DOMAIN Prefix(h, m - 1)
    BY <2>1, <2>2
  <2>4. h[k].candidate \in Completed(Prefix(h, m - 1))
    BY <2>2, <2>3 DEF Completed
  <2>5. h[m].candidate \in Available(Prefix(h, m - 1))
    BY DEF Follows, Admissible, Picks
  <2>6. QED
    BY <2>4, <2>5 DEF Available
<1>2. QED
  BY <1>1

(* How a followed history begins is a followed history.                    *)
LEMMA PrefixFollows ==
  ASSUME NEW h \in Seq(Record), Follows(h), NEW n \in 0 .. Len(h)
  PROVE  Follows(Prefix(h, n)) /\ Prefix(h, n) \in Seq(Record)
<1> DEFINE shorter == Prefix(h, n)
<1>1. shorter \in Seq(Record) /\ Len(shorter) = n /\ DOMAIN shorter = 1 .. n
      /\ \A i \in 1 .. n : shorter[i] = h[i]
  BY PrefixProperties
<1>2. ASSUME NEW i \in 1 .. n PROVE Prefix(shorter, i - 1) = Prefix(h, i - 1)
  <2>1. i - 1 \in 0 .. Len(shorter) /\ i - 1 \in 0 .. Len(h) /\ \A j \in 1 .. i - 1 : j \in 1 .. n
    BY <1>1
  <2> HIDE DEF shorter
  <2>2. /\ Prefix(shorter, i - 1) \in Seq(Record) /\ Prefix(h, i - 1) \in Seq(Record)
        /\ Len(Prefix(shorter, i - 1)) = i - 1 /\ Len(Prefix(h, i - 1)) = i - 1
        /\ \A j \in 1 .. i - 1 : Prefix(shorter, i - 1)[j] = shorter[j] /\ Prefix(h, i - 1)[j] = h[j]
    BY <1>1, <2>1, PrefixProperties
  <2>3. \A j \in 1 .. i - 1 : Prefix(shorter, i - 1)[j] = Prefix(h, i - 1)[j]
    BY <1>1, <2>1, <2>2
  <2>4. QED
    BY <2>2, <2>3, SeqEqual
<1>3. \A i \in 1 .. n : Admissible(Prefix(h, i - 1), h[i])
  BY DEF Follows
<1>4. Follows(shorter)
  BY <1>1, <1>2, <1>3 DEF Follows
<1>5. QED
  BY <1>1, <1>4

(* As long as a candidate is left, fewer are completed than there are.     *)
LEMMA SomeLeft ==
  ASSUME NEW h \in Seq(Record), Follows(h), NEW c \in Available(h)
  PROVE  Len(h) < CandidateCount
<1> DEFINE f == [i \in 1 .. Len(h) |-> h[i].candidate]
<1>1. Completed(h) \subseteq Candidates /\ DOMAIN h = 1 .. Len(h) /\ Len(h) \in Nat
  <2>1. DOMAIN h = 1 .. Len(h) /\ Len(h) \in Nat /\ \A i \in DOMAIN h : h[i] \in Record
    OBVIOUS
  <2>2. \A i \in DOMAIN h : h[i].candidate \in Candidates
    BY <2>1 DEF Record
  <2>3. QED
    BY <2>1, <2>2 DEF Completed
<1>2. f \in Bijection(1 .. Len(h), Completed(h))
  <2>1. f \in [1 .. Len(h) -> Completed(h)]
    BY <1>1 DEF Completed
  <2>2. \A i, j \in 1 .. Len(h) : f[i] = f[j] => i = j
    BY <1>1, FollowedAreDistinct
  <2>3. \A d \in Completed(h) : \E i \in 1 .. Len(h) : f[i] = d
    BY <1>1 DEF Completed
  <2>4. f \in Injection(1 .. Len(h), Completed(h))
    BY <2>1, <2>2 DEF Injection, IsInjective
  <2>5. f \in Surjection(1 .. Len(h), Completed(h))
    BY <2>1, <2>3 DEF Surjection
  <2>6. QED
    BY <2>4, <2>5 DEF Bijection
<1>3. IsFiniteSet(1 .. Len(h)) /\ Cardinality(1 .. Len(h)) = Len(h)
  BY <1>1, FS_Interval
<1>4. ExistsBijection(1 .. Len(h), Completed(h))
  BY <1>2 DEF ExistsBijection
<1>5. Cardinality(Completed(h)) = Len(h)
  BY <1>3, <1>4, FS_Bijection
<1>6. IsFiniteSet(Candidates) /\ Cardinality(Candidates) = CandidateCount
  BY PolicyAssumption, FS_Interval DEF Candidates
<1>7. c \in Candidates /\ c \notin Completed(h)
  BY DEF Available
<1>8. Cardinality(Completed(h)) < Cardinality(Candidates)
  <2>1. Completed(h) # Candidates
    BY <1>7
  <2>2. /\ Cardinality(Completed(h)) \in Nat /\ Cardinality(Candidates) \in Nat
        /\ Cardinality(Completed(h)) <= Cardinality(Candidates)
        /\ Cardinality(Completed(h)) = Cardinality(Candidates) => Completed(h) = Candidates
    BY <1>1, <1>6, FS_Subset, FS_CardinalityType
  <2>3. QED
    BY <2>1, <2>2
<1>9. QED
  BY <1>5, <1>6, <1>8

(* There is no cost budget, or the two ways in which the code adds up the  *)
(* costs of a history have the same result.                                *)
CostsAgree ==
  CostBudget = NoBudget
  \/ \A h \in Seq(Record) : Len(h) < CountBudget => RunningCost(h) = SpentCost(h)

(* A history that may still be extended has not stopped.                   *)
LEMMA ExtensibleIsRunning ==
  ASSUME CostsAgree, NEW h \in Seq(Record), NEW rec, Follows(h), Admissible(h, rec)
  PROVE  StopReason(h) = Running
<1>1. rec.candidate \in Available(h)
  BY DEF Admissible, Picks
<1>2. Len(h) < CandidateCount /\ Len(h) \in Nat /\ CandidateCount \in Nat
  BY <1>1, SomeLeft, PolicyAssumption
<1>3. Len(h) < CountBudget /\ CountBudget \in Nat /\ ~CostExhausted(SpentCost(h))
  BY BudgetAssumption DEF Admissible, MayExperiment, Candidates
<1>4. ~CostExhausted(RunningCost(h))
  BY <1>3 DEF CostsAgree, CostExhausted
<1>5. QED
  BY <1>2, <1>3, <1>4 DEF StopReason

(* What a runner has captured is how the persisted history begins, what it *)
(* is about to capture is part of the rest, and its connection has no rows *)
(* of its own except the one it is about to commit or has failed to.       *)
Caught(p) ==
  /\ Len(steps[p]) <= Len(committed) /\ steps[p] = Prefix(committed, Len(steps[p]))
  /\ pc[p] = "capture" => \E n \in DOMAIN committed : Len(steps[p]) < n /\ committed[n] = row[p]
  /\ pending[p] = << >> \/ pc[p] \in {"commit", "failed"}
  /\ pc[p] = "commit" => Len(pending[p]) = 1

Caughts == \A p \in Runners : Caught(p)

(* What the steps of a runner do to the others.                            *)
LEMMA OthersCaught ==
  ASSUME Caughts, NEW q \in Runners, UNCHANGED committed,
         pc'[q] = pc[q], steps'[q] = steps[q], row'[q] = row[q], pending'[q] = pending[q]
  PROVE  Caught(q)'
  BY DEF Caughts, Caught

(* The history of a prefix of it is a prefix of it.                        *)
LEMMA EmptyIsPrefix ==
  ASSUME NEW h \in Seq(Record)
  PROVE  << >> = Prefix(h, 0) /\ Len(<< >>) <= Len(h) /\ Prefix(h, Len(h)) = h
<1>1. Prefix(h, 0) \in Seq(Record) /\ Len(Prefix(h, 0)) = 0
  BY PrefixProperties
<1>2. Prefix(h, 0) = << >>
  BY <1>1, EmptySeq
<1>3. QED
  BY <1>2, SubSeqFull DEF Prefix

(* The steps that capture and persist nothing.                             *)
QuietStep(p) ==
  \/ Open(p) \/ BeginTrace(p) \/ BeginExperiment(p) \/ BeginRejected(p) \/ Continue(p)
  \/ Select(p) \/ SelectFails(p) \/ ReadBusy(p) \/ Evaluate(p) \/ EvaluateFails(p)
  \/ InsertDuplicate(p) \/ InsertBusy(p) \/ CommitBusy(p) \/ CaptureRejected(p)

LEMMA QuietlyCaught ==
  ASSUME RunnerInv, Caughts, ~RetryInPlace, NEW p \in Runners, QuietStep(p) \/ ReturnTrace(p)
  PROVE  UNCHANGED committed /\ Caughts'
<1> USE DEF RunnerInv
<1>1. UNCHANGED <<committed, pending, steps>>
  BY DEF QuietStep, Open, BeginTrace, BeginExperiment, BeginRejected, Continue, ReturnTrace, Select, SelectFails,
         ReadBusy, Evaluate, EvaluateFails, InsertDuplicate, InsertBusy, CommitBusy, CaptureRejected,
         Read, store, local
<1>2. \A q \in Runners \ {p} : pc'[q] = pc[q] /\ row'[q] = row[q]
  BY DEF QuietStep, Open, BeginTrace, BeginExperiment, BeginRejected, Continue, ReturnTrace, Select, SelectFails,
         ReadBusy, Evaluate, EvaluateFails, InsertDuplicate, InsertBusy, CommitBusy, CaptureRejected,
         Goto, local, TypeOK
<1>3. pc'[p] \notin {"capture", "commit"}
      /\ (pc[p] \notin {"failed", "commit"} \/ pc'[p] = "failed")
  BY DEF QuietStep, Open, BeginTrace, BeginExperiment, BeginRejected, Continue, ReturnTrace, Select, SelectFails,
         ReadBusy, Evaluate, EvaluateFails, InsertDuplicate, InsertBusy, CommitBusy, CaptureRejected,
         Goto, AtRead, TypeOK
<1>4. Caught(p)'
  BY <1>1, <1>3 DEF Caughts, Caught
<1>5. \A q \in Runners \ {p} : Caught(q)'
  BY <1>1, <1>2, OthersCaught
<1>6. QED
  BY <1>1, <1>4, <1>5 DEF Caughts

(* A call ends, or the next one begins, with nothing captured.             *)
LEMMA ForgottenIsCaught ==
  ASSUME RunnerInv, Caughts, ~RetryInPlace, NEW p \in Runners, Close(p) \/ Crash(p) \/ CallAgain(p)
  PROVE  UNCHANGED committed /\ Caughts'
<1> USE DEF RunnerInv
<1>1. UNCHANGED committed /\ committed \in Seq(Record)
  BY DEF Close, Crash, CallAgain, Rollback, store, TypeOK
<1>2. \A q \in Runners \ {p} :
        pc'[q] = pc[q] /\ row'[q] = row[q] /\ steps'[q] = steps[q] /\ pending'[q] = pending[q]
  BY DEF Close, Crash, CallAgain, Rollback, store, Goto, Forget, TypeOK
<1>3. pc'[p] \notin {"capture", "commit"} /\ steps'[p] = << >> /\ pending'[p] = << >>
  <2>1. CASE Close(p) \/ Crash(p)
    BY <2>1 DEF Close, Crash, Rollback, Goto, Forget, TypeOK
  <2>2. CASE CallAgain(p)
    <3>1. pc[p] = "done"
      BY <2>2 DEF CallAgain
    <3>2. pending[p] = << >>
      BY <3>1 DEF Caughts, Caught
    <3>3. QED
      BY <2>2, <3>2 DEF CallAgain, store, Goto, Forget, TypeOK
  <2>3. QED
    BY <2>1, <2>2
<1>4. Caught(p)'
  BY <1>1, <1>3, EmptyIsPrefix DEF Caught
<1>5. \A q \in Runners \ {p} : Caught(q)'
  BY <1>1, <1>2, OthersCaught
<1>6. QED
  BY <1>1, <1>4, <1>5 DEF Caughts

LEMMA ResumedIsCaught ==
  ASSUME RunnerInv, Caughts, NEW p \in Runners, BeginResume(p)
  PROVE  UNCHANGED committed /\ Caughts'
<1> USE DEF RunnerInv
<1>1. UNCHANGED <<committed, pending, row>> /\ committed \in Seq(Record)
  BY DEF BeginResume, Read, TypeOK
<1>2. \A q \in Runners \ {p} : pc'[q] = pc[q] /\ steps'[q] = steps[q]
  BY DEF BeginResume, Goto, TypeOK
<1>3. pending[p] = << >>
  BY DEF BeginResume, Caughts, Caught
<1>4. pc'[p] = "loop" /\ steps'[p] = committed
  BY <1>1, <1>3, ConcatEmptySeq DEF BeginResume, Goto, TypeOK, View
<1>5. Caught(p)'
  BY <1>1, <1>3, <1>4, EmptyIsPrefix DEF Caught
<1>6. \A q \in Runners \ {p} : Caught(q)'
  BY <1>1, <1>2, OthersCaught
<1>7. QED
  BY <1>1, <1>5, <1>6 DEF Caughts

LEMMA InsertedIsCaught ==
  ASSUME RunnerInv, Caughts, NEW p \in Runners, Insert(p)
  PROVE  UNCHANGED committed /\ Caughts'
<1> USE DEF RunnerInv
<1>1. UNCHANGED <<committed, steps, row>>
  BY DEF Insert, local
<1>2. \A q \in Runners \ {p} : pc'[q] = pc[q] /\ pending'[q] = pending[q]
  BY DEF Insert, Goto, TypeOK
<1>3. pending[p] = << >> /\ row[p] \in Record
  BY DEF Insert, Caughts, Caught, TypeOK
<1>4. pc'[p] = "commit" /\ Len(pending'[p]) = 1
  BY <1>3 DEF Insert, Goto, TypeOK
<1>5. Caught(p)'
  BY <1>1, <1>4 DEF Caughts, Caught
<1>6. \A q \in Runners \ {p} : Caught(q)'
  BY <1>1, <1>2, OthersCaught
<1>7. QED
  BY <1>1, <1>5, <1>6 DEF Caughts

(* A captured record is the next one of the persisted history: whoever     *)
(* was overtaken would have picked what the others persisted.              *)
LEMMA CapturedIsCaught ==
  ASSUME RunnerInv, Caughts, NEW p \in Runners, Capture(p)
  PROVE  UNCHANGED committed /\ Caughts'
<1> USE DEF RunnerInv
<1>1. UNCHANGED <<committed, pending>> /\ committed \in Seq(Record) /\ row[p] \in Record
      /\ steps[p] \in Seq(Record) /\ Len(committed) \in Nat /\ DOMAIN committed = 1 .. Len(committed)
  BY DEF Capture, store, TypeOK
<1>2. \A q \in Runners \ {p} : pc'[q] = pc[q] /\ row'[q] = row[q] /\ steps'[q] = steps[q]
  BY DEF Capture, Goto, TypeOK
<1>3. pc'[p] = "loop" /\ steps'[p] = Append(steps[p], row[p]) /\ pending[p] = << >>
  BY DEF Capture, Goto, TypeOK, Caughts, Caught
<1>4. PICK k \in 0 .. Len(committed) : k = Len(steps[p])
  BY <1>1 DEF Caughts, Caught
<1>5. PICK n \in DOMAIN committed : k < n /\ committed[n] = row[p]
  BY <1>4 DEF Capture, Caughts, Caught
<1>6. steps[p] = Prefix(committed, k)
  BY <1>4 DEF Caughts, Caught
<1>7. k + 1 \in DOMAIN committed
  BY <1>1, <1>5
<1>8. Picks(Prefix(committed, k), committed[k + 1].candidate)
  <2>1. Admissible(Prefix(committed, k + 1 - 1), committed[k + 1])
    BY <1>7 DEF PolicyOrder, Follows
  <2>2. k + 1 - 1 = k
    BY <1>4
  <2>3. QED
    BY <2>1, <2>2 DEF Admissible
<1>9. Picks(Prefix(committed, k), row[p].candidate)
  BY <1>6 DEF Capture, Capturable
<1>10. committed[k + 1].candidate = committed[n].candidate
  BY <1>5, <1>8, <1>9, PicksDeterministic
<1>11. committed[k + 1] = row[p]
  BY <1>1, <1>5, <1>7, <1>10, FollowedAreDistinct DEF PolicyOrder
<1>12. Append(Prefix(committed, k), committed[k + 1]) = Prefix(committed, k + 1)
  <2>1. Prefix(committed, k + 1) \in Seq(Record) /\ Len(Prefix(committed, k + 1)) = k + 1
        /\ \A i \in 1 .. k + 1 : Prefix(committed, k + 1)[i] = committed[i]
    BY <1>1, <1>7, PrefixProperties
  <2>2. Prefix(committed, k) \in Seq(Record) /\ Len(Prefix(committed, k)) = k
        /\ \A i \in 1 .. k : Prefix(committed, k)[i] = committed[i]
    BY <1>1, PrefixProperties
  <2>3. committed[k + 1] \in Record
    BY <1>1, <1>7
  <2> DEFINE longer == Append(Prefix(committed, k), committed[k + 1])
  <2>4. longer \in Seq(Record) /\ Len(longer) = k + 1 /\ \A i \in 1 .. k + 1 : longer[i] = committed[i]
    BY <2>2, <2>3
  <2> HIDE DEF longer
  <2>5. longer = Prefix(committed, k + 1)
    BY <2>1, <2>4, SeqEqual
  <2>6. QED
    BY <2>5 DEF longer
<1>13. steps'[p] = Prefix(committed, k + 1) /\ Len(steps'[p]) = k + 1
  <2>1. steps'[p] = Prefix(committed, k + 1)
    BY <1>3, <1>6, <1>11, <1>12
  <2>2. k + 1 \in 0 .. Len(committed)
    BY <1>1, <1>7
  <2>3. Len(Prefix(committed, k + 1)) = k + 1
    BY <1>1, <2>2, PrefixProperties
  <2>4. QED
    BY <2>1, <2>3
<1>14. Caught(p)'
  BY <1>1, <1>3, <1>7, <1>13 DEF Caught
<1>15. \A q \in Runners \ {p} : Caught(q)'
  BY <1>1, <1>2, OthersCaught
<1>16. QED
  BY <1>1, <1>14, <1>15 DEF Caughts

(* A commit extends the history by the one row that was selected for it.   *)
LEMMA CommittedIsCaught ==
  ASSUME RunnerInv, Caughts, NEW p \in Runners, Commit(p)
  PROVE  /\ row[p] \in Record /\ committed' = Append(committed, row[p]) /\ Admissible(committed, row[p])
         /\ Caughts'
<1> USE DEF RunnerInv
<1>1. /\ committed' = View(p) /\ UNCHANGED <<row, steps>> /\ row[p] \in Record
      /\ pending'[p] = << >> /\ pc[p] = "commit"
      /\ \A q \in Runners \ {p} : pc'[q] = pc[q] /\ pending'[q] = pending[q]
  BY DEF Commit, Goto, TypeOK
<1>2. /\ committed \in Seq(Record) /\ pending[p] \in Seq(Record) /\ seen[p] \in Seq(Record)
      /\ \A q \in Runners : steps[q] \in Seq(Record)
  BY DEF TypeOK
<1>3. View(p) = Append(seen[p], row[p])
  BY <1>1 DEF InsertedFromCurrentHistory
<1>4. PICK last \in Record : pending[p] = <<last>>
  <2>1. Len(pending[p]) = 1
    BY <1>1 DEF Caughts, Caught
  <2>2. pending[p] = <<pending[p][1]>> /\ pending[p][1] \in Record
    BY <1>2, <2>1
  <2>3. QED
    BY <2>2
<1>5. View(p) = Append(committed, last)
  BY <1>2, <1>4 DEF View
<1>6. seen[p] = committed /\ last = row[p]
  <2>1. Append(committed, last) = Append(seen[p], row[p])
    BY <1>3, <1>5
  <2>2. QED
    BY <1>1, <1>2, <2>1, AppendInjective
<1>7. committed' = Append(committed, row[p])
  BY <1>1, <1>5, <1>6
<1>8. Admissible(committed, row[p])
  <2> DEFINE n == Len(committed) + 1
  <2>1. Follows(Append(committed, row[p]))
    BY <1>1, <1>7
  <2>2. n \in DOMAIN Append(committed, row[p]) /\ Append(committed, row[p])[n] = row[p] /\ n - 1 = Len(committed)
    BY <1>1, <1>2
  <2>3. Prefix(Append(committed, row[p]), Len(committed)) = committed
    <3>1. Len(committed) \in 0 .. Len(committed)
      BY <1>2
    <3>2. QED
      BY <1>1, <1>2, <3>1, PrefixOfAppend, SubSeqFull DEF Prefix
  <2>4. Admissible(Prefix(Append(committed, row[p]), n - 1), Append(committed, row[p])[n])
    BY <2>1, <2>2 DEF Follows
  <2>5. QED
    BY <2>2, <2>3, <2>4
<1>9. /\ Len(committed') = Len(committed) + 1 /\ Len(committed) \in Nat
      /\ DOMAIN committed' = 1 .. Len(committed) + 1 /\ DOMAIN committed = 1 .. Len(committed)
      /\ \A n \in 1 .. Len(committed) : committed'[n] = committed[n]
      /\ committed'[Len(committed) + 1] = row[p]
  BY <1>1, <1>2, <1>7
<1>10. ASSUME NEW q \in Runners PROVE Caught(q)'
  <2>1. PICK k \in 0 .. Len(committed) : k = Len(steps[q])
    BY <1>2 DEF Caughts, Caught
  <2>2. Prefix(committed', k) = Prefix(committed, k)
    BY <1>1, <1>2, <1>7, PrefixOfAppend
  <2>3. Len(steps'[q]) <= Len(committed') /\ steps'[q] = Prefix(committed', Len(steps'[q]))
    BY <1>1, <1>9, <2>1, <2>2 DEF Caughts, Caught
  <2>4. CASE q = p
    <3>1. Len(steps'[p]) < Len(committed) + 1 /\ Len(committed) + 1 \in DOMAIN committed'
      BY <1>1, <1>9, <2>1, <2>4
    <3>2. \E n \in DOMAIN committed' : Len(steps'[p]) < n /\ committed'[n] = row'[p]
      BY <1>1, <1>9, <3>1
    <3>3. pc'[p] # "commit"
      BY DEF Commit, Goto, TypeOK
    <3>4. QED
      BY <1>1, <2>3, <2>4, <3>2, <3>3 DEF Caught
  <2>5. CASE q # p
    <3>1. pc'[q] = "capture" => \E n \in DOMAIN committed' : Len(steps'[q]) < n /\ committed'[n] = row'[q]
      <4>1. SUFFICES ASSUME pc'[q] = "capture"
                     PROVE  \E n \in DOMAIN committed' : Len(steps'[q]) < n /\ committed'[n] = row'[q]
        OBVIOUS
      <4>2. PICK n \in DOMAIN committed : Len(steps[q]) < n /\ committed[n] = row[q]
        BY <1>1, <2>5, <4>1 DEF Caughts, Caught
      <4>3. n \in DOMAIN committed' /\ committed'[n] = row[q]
        BY <1>9, <4>2
      <4>4. QED
        BY <1>1, <4>2, <4>3
    <3>2. QED
      BY <1>1, <2>3, <2>5, <3>1 DEF Caughts, Caught
  <2>6. QED
    BY <2>4, <2>5
<1>11. QED
  BY <1>1, <1>7, <1>8, <1>10 DEF Caughts

LEMMA CaughtStep ==
  ASSUME ~RetryInPlace, RunnerInv, Caughts, [Next]_vars
  PROVE  Caughts'
<1>1. CASE UNCHANGED vars
  BY <1>1 DEF vars, Caughts, Caught
<1>2. CASE Next
  <2>1. PICK p \in Runners : Advance(p) \/ CallAgain(p) \/ Crash(p)
    BY <1>2 DEF Next
  <2>2. QED
    BY <2>1, QuietlyCaught, ForgottenIsCaught, ResumedIsCaught, InsertedIsCaught, CapturedIsCaught,
       CommittedIsCaught DEF Advance, QuietStep
<1>3. QED
  BY <1>1, <1>2

LEMMA CaughtThroughout ==
  ASSUME ~RetryInPlace
  PROVE  Spec => []Caughts
<1>1. Init => Caughts
  <2> SUFFICES ASSUME Init, NEW p \in Runners PROVE Caught(p)
    BY DEF Caughts
  <2>1. << >> \in Seq(Record)
    OBVIOUS
  <2>2. committed = << >> /\ pc[p] = "closed" /\ steps[p] = << >> /\ pending[p] = << >>
    BY DEF Init
  <2>3. Len(<< >>) = 0 /\ << >> = Prefix(<< >>, 0)
    BY <2>1, EmptyIsPrefix
  <2>4. QED
    BY <2>2, <2>3 DEF Caught
<1>2. RunnerInv /\ Caughts /\ [Next]_vars => Caughts'
  BY CaughtStep
<1>3. QED
  BY <1>1, <1>2, RunnerInvariant, PTL DEF Spec

(* A trace that has stopped is the persisted history: nobody could have    *)
(* extended it.                                                            *)
LEMMA StoppedIsWhole ==
  ASSUME CostsAgree, RunnerInv, Caughts, NEW p \in Runners, StopReason(steps[p]) # Running
  PROVE  steps[p] = committed
<1> USE DEF RunnerInv
<1>1. committed \in Seq(Record) /\ Len(committed) \in Nat /\ DOMAIN committed = 1 .. Len(committed)
  BY DEF TypeOK
<1>2. PICK k \in 0 .. Len(committed) : k = Len(steps[p]) /\ steps[p] = Prefix(committed, k)
  <2>1. steps[p] \in Seq(Record)
    BY DEF TypeOK
  <2>2. Len(steps[p]) \in 0 .. Len(committed)
    BY <1>1, <2>1 DEF Caughts, Caught
  <2>3. QED
    BY <2>2 DEF Caughts, Caught
<1>3. CASE k = Len(committed)
  BY <1>1, <1>2, <1>3, EmptyIsPrefix
<1>4. CASE k # Len(committed)
  <2>1. k + 1 \in DOMAIN committed /\ k + 1 - 1 = k
    <3>1. k \in Nat /\ k < Len(committed)
      BY <1>1, <1>2, <1>4
    <3>2. QED
      BY <1>1, <3>1
  <2>2. Admissible(Prefix(committed, k), committed[k + 1])
    <3>1. Admissible(Prefix(committed, k + 1 - 1), committed[k + 1])
      BY <2>1 DEF PolicyOrder, Follows
    <3>2. QED
      BY <2>1, <3>1
  <2>3. Follows(Prefix(committed, k)) /\ Prefix(committed, k) \in Seq(Record)
    BY <1>1, PrefixFollows DEF PolicyOrder
  <2>4. QED
    BY <1>2, <2>2, <2>3, ExtensibleIsRunning
<1>5. QED
  BY <1>3, <1>4

(* Where nobody calls on a store that a call has failed on, and costs add  *)
(* up, the runners together do what one runner would do: the history grows *)
(* by one admissible record at a time, and a returned trace is the whole   *)
(* persisted history, stopped by its budget (runner.py,                    *)
(* _continue_workload_trace).                                              *)
THEOREM PromiseIsKept ==
  ASSUME CostsAgree, ~RetryInPlace
  PROVE  Spec => ImplementsPromise
<1>1. Init => Promise!Init
  BY DEF Init, Promise!Init
<1>2. ASSUME RunnerInv, Caughts, [Next]_vars
      PROVE  Promise!Next \/ UNCHANGED <<committed, returned>>
  <2>1. CASE UNCHANGED vars
    BY <2>1 DEF vars
  <2>2. ASSUME NEW p \in Runners, ReturnTrace(p) PROVE Promise!Next
    <3>1. steps[p] = committed /\ UNCHANGED committed /\ StopReason(steps[p]) # Running
      BY <1>2, <2>2, StoppedIsWhole DEF ReturnTrace, store
    <3>2. Promise!Answer(p)
      BY <2>2, <3>1 DEF ReturnTrace, Promise!Answer
    <3>3. QED
      BY <3>2 DEF Promise!Next
  <2>3. ASSUME NEW p \in Runners, Commit(p) PROVE Promise!Next
    <3>1. row[p] \in Record /\ committed' = Append(committed, row[p]) /\ Admissible(committed, row[p])
      BY <1>2, <2>3, CommittedIsCaught
    <3>2. StopReason(committed) = Running
      BY <1>2, <3>1, ExtensibleIsRunning DEF RunnerInv, PolicyOrder, TypeOK
    <3>3. UNCHANGED returned
      BY <2>3 DEF Commit
    <3>4. Promise!Extend
      BY <3>1, <3>2, <3>3 DEF Promise!Extend
    <3>5. QED
      BY <3>4 DEF Promise!Next
  <2>4. ASSUME NEW p \in Runners,
               \/ QuietStep(p) \/ Close(p) \/ Crash(p) \/ CallAgain(p) \/ BeginResume(p) \/ Insert(p)
               \/ Capture(p)
        PROVE  UNCHANGED <<committed, returned>>
    BY <2>4 DEF QuietStep, Close, Crash, CallAgain, BeginResume, Insert, Capture, Open, BeginTrace,
         BeginExperiment, BeginRejected, Continue, Select, SelectFails, ReadBusy, Evaluate,
         EvaluateFails, InsertDuplicate, InsertBusy, CommitBusy, CaptureRejected, Read, Rollback, store
  <2>5. QED
    BY <1>2, <2>1, <2>2, <2>3, <2>4 DEF Next, Advance, QuietStep
<1>3. QED
  BY <1>1, <1>2, RunnerInvariant, CaughtThroughout, PTL DEF Spec, ImplementsPromise, Promise!Spec

-----------------------------------------------------------------------------
(* Resuming.                                                               *)

(* No record that a runner may add is impossible under the belief before.  *)
OutcomesAreForeseen ==
  \A h \in Seq(Record), rec \in Record : Admissible(h, rec) => HasLineage(h, rec)

(* Rounding of costs and impossible outcomes are the only things that make *)
(* a persisted history unfit for resume_workload_trace: without them every *)
(* history that any runners, crashes and retries leave behind can be       *)
(* reconstructed, and resumed unless it is empty.                          *)
THEOREM PersistedCanBeResumed ==
  ASSUME CostsAgree, OutcomesAreForeseen
  PROVE  Spec => [](PersistedIsReconstructible /\ (committed # << >> => MayResume(committed)))
<1>1. ASSUME RunnerInv PROVE PersistedIsReconstructible
  <2>1. SUFFICES ASSUME NEW i \in DOMAIN committed
                 PROVE  Capturable(Prefix(committed, i - 1), committed[i])
    BY DEF PersistedIsReconstructible, Reconstructible
  <2>2. committed \in Seq(Record) /\ i - 1 \in 0 .. Len(committed) /\ committed[i] \in Record
    BY <1>1 DEF RunnerInv, TypeOK
  <2>3. PICK h \in Seq(Record) : h = Prefix(committed, i - 1)
    BY <2>2, PrefixProperties
  <2>4. Admissible(h, committed[i])
    BY <1>1, <2>3 DEF RunnerInv, PolicyOrder, Follows
  <2>5. Len(h) < CountBudget /\ ~CostExhausted(SpentCost(h)) /\ Affordable(h, committed[i].cost)
        /\ Picks(h, committed[i].candidate)
    BY <2>4 DEF Admissible, MayExperiment
  <2>6. ~CostExhausted(RunningCost(h)) /\ ~CostExceeded(FAdd(RunningCost(h), committed[i].cost))
    BY <2>5 DEF CostsAgree, CostExhausted, CostExceeded, Affordable
  <2>7. HasLineage(h, committed[i])
    BY <2>2, <2>4 DEF OutcomesAreForeseen
  <2>8. QED
    BY <2>3, <2>5, <2>6, <2>7 DEF Capturable
<1>2. ASSUME RunnerInv, committed # << >> PROVE Len(committed) <= CountBudget
  <2>1. committed \in Seq(Record) /\ Len(committed) \in DOMAIN committed /\ Len(committed) - 1 \in 0 .. Len(committed)
    BY <1>2, EmptySeq DEF RunnerInv, TypeOK
  <2>2. Admissible(Prefix(committed, Len(committed) - 1), committed[Len(committed)])
    BY <1>2, <2>1 DEF RunnerInv, PolicyOrder, Follows
  <2>3. Len(Prefix(committed, Len(committed) - 1)) = Len(committed) - 1
    BY <2>1, PrefixProperties
  <2>4. Len(committed) - 1 < CountBudget /\ CountBudget \in Nat /\ Len(committed) \in Nat
    BY <2>1, <2>2, <2>3, BudgetAssumption DEF Admissible, MayExperiment, Candidates
  <2>5. QED
    BY <2>4
<1>3. RunnerInv => PersistedIsReconstructible /\ (committed # << >> => MayResume(committed))
  BY <1>1, <1>2 DEF MayResume, PersistedIsReconstructible
<1>4. QED
  BY <1>3, RunnerInvariant, PTL

=============================================================================
