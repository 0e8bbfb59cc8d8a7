---------------------- MODULE OptimizerReasoning_proofs ----------------------
(***************************************************************************)
(* However many processes synchronize, there is one chain of beliefs, and  *)
(* no suggestion spends an experiment on evidence it already has.          *)
(***************************************************************************)
EXTENDS OptimizerReasoning, SequenceTheorems, TLAPS

LEMMA WholeSequence ==
  ASSUME NEW S, NEW b \in Seq(S)
  PROVE  SubSeq(b, 1, Len(b)) = b
BY SubSeqFull

LEMMA PrefixOfAppend ==
  ASSUME NEW S, NEW b \in Seq(S), NEW g \in S, NEW n \in 0 .. Len(b)
  PROVE  SubSeq(Append(b, g), 1, n) = SubSeq(b, 1, n)
<1>1. Append(b, g) \in Seq(S) /\ Len(Append(b, g)) = Len(b) + 1
  OBVIOUS
<1>2. \A i \in 1 .. n : Append(b, g)[i] = b[i]
  OBVIOUS
<1>3. /\ SubSeq(Append(b, g), 1, n) \in Seq(S) /\ Len(SubSeq(Append(b, g), 1, n)) = n
      /\ \A i \in 1 .. n : SubSeq(Append(b, g), 1, n)[i] = Append(b, g)[i]
  BY <1>1
<1>4. /\ SubSeq(b, 1, n) \in Seq(S) /\ Len(SubSeq(b, 1, n)) = n
      /\ \A i \in 1 .. n : SubSeq(b, 1, n)[i] = b[i]
  OBVIOUS
<1> QED  BY <1>2, <1>3, <1>4, SeqEqual

LEMMA MembersOfAppend ==
  ASSUME NEW S, NEW b \in Seq(S), NEW g \in S
  PROVE  Ledger!Members(Append(b, g)) = Ledger!Members(b) \cup {g}
<1>1. DOMAIN b = 1 .. Len(b) /\ DOMAIN Append(b, g) = 1 .. Len(b) + 1
  OBVIOUS
<1>2. \A i \in 1 .. Len(b) : Append(b, g)[i] = b[i]
  OBVIOUS
<1>3. Append(b, g)[Len(b) + 1] = g /\ Len(b) \in Nat
  OBVIOUS
<1>4. 1 .. Len(b) + 1 = (1 .. Len(b)) \cup {Len(b) + 1}
  BY <1>3
<1> QED  BY <1>1, <1>2, <1>3, <1>4 DEF Ledger!Members

LEMMA MembersOfPrefix ==
  ASSUME NEW S, NEW b \in Seq(S), NEW n \in 0 .. Len(b)
  PROVE  Ledger!Members(SubSeq(b, 1, n)) \subseteq Ledger!Members(b)
<1>1. DOMAIN b = 1 .. Len(b) /\ DOMAIN SubSeq(b, 1, n) = 1 .. n /\ n <= Len(b)
  OBVIOUS
<1>2. \A i \in 1 .. n : SubSeq(b, 1, n)[i] = b[i]
  OBVIOUS
<1> QED  BY <1>1, <1>2 DEF Ledger!Members

LEMMA MembersTyped ==
  ASSUME NEW S, NEW b \in Seq(S)
  PROVE  Ledger!Members(b) \subseteq S
BY DEF Ledger!Members

-----------------------------------------------------------------------------
(* The inductive invariant.                                                *)

OneChain ==
  /\ TypeOK
  /\ HeldBeliefsAreAncestors
  /\ EvidenceIsConsumed
  /\ CallsKnow
  /\ SuggestionIsUnspent

LEMMA InitEstablishes == Init => OneChain
<1> SUFFICES ASSUME Init PROVE OneChain
  OBVIOUS
<1> USE ReasoningAssumption DEF Init
<1>1. TypeOK
  <2>0. completed \in Seq(Candidates)
    <3>1. <<>> \in Seq(Candidates)
      BY EmptySeq
    <3> QED  BY <3>1
  <2>1. /\ registered \in BOOLEAN /\ belief = None
        /\ evidence \subseteq Groups /\ traces \subseteq Suggestions
    OBVIOUS
  <2>2. /\ pc \in [Processes -> Starting] /\ todo \in [Processes -> Rests]
        /\ \A p \in Processes : pc[p] \in Starting
    BY DEF Starting, Rests
  <2>3. "completed" \notin Starting
    BY DEF Starting
  <2>4. before \in [Processes -> {None}] /\ trace \in [Processes -> {None}]
    OBVIOUS
  <2>5. seen \in [Processes -> SUBSET Candidates] /\ pending \in [Processes -> SUBSET Groups]
    OBVIOUS
  <2>6. calls \in 0 .. MaxCalls /\ failures \in 0 .. MaxFailures
    OBVIOUS
  <2>7. \A p \in Processes : pc[p] \notin Synchronizing
    BY DEF Synchronizing
  <2> QED  BY <2>0, <2>1, <2>2, <2>4, <2>5, <2>6, <2>7 DEF TypeOK
<1>2. HeldBeliefsAreAncestors /\ SuggestionIsUnspent
  BY DEF HeldBeliefsAreAncestors, SuggestionIsUnspent
<1>3. EvidenceIsConsumed
  BY DEF EvidenceIsConsumed, Lineage, Ledger!Members
<1>4. CallsKnow
  BY DEF CallsKnow, CallKnows, Done, Ledger!Members
<1> QED  BY <1>1, <1>2, <1>3, <1>4 DEF OneChain

-----------------------------------------------------------------------------
(* How a step moves its own process, and no other.                         *)

LEMMA StagesOfRests ==
  ASSUME NEW r \in Rests, r # <<>>
  PROVE  /\ Head(r) \in {"sync", "suggest", "record", "choose"} /\ Tail(r) \in Rests
         /\ Head(r) = "record" => r = <<"record", "sync">> /\ Tail(r) # <<"record", "sync">>
         /\ Head(r) = "choose" => Tail(r) = <<"record", "sync">>
         /\ Tail(r) = <<"record", "sync">> => Head(r) \in {"suggest", "choose"}
<1>1. CASE r = <<"sync">>
  BY <1>1 DEF Rests
<1>2. CASE r = <<"suggest">>
  BY <1>2 DEF Rests
<1>3. CASE r = <<"sync", "suggest">>
  BY <1>3 DEF Rests
<1>4. CASE r = <<"record", "sync">>
  BY <1>4 DEF Rests
<1>5. CASE r = <<"suggest", "record", "sync">>
  BY <1>5 DEF Rests
<1>6. CASE r = <<"sync", "suggest", "record", "sync">>
  BY <1>6 DEF Rests
<1>7. CASE r = <<"choose", "record", "sync">>
  BY <1>7 DEF Rests
<1> QED  BY <1>1, <1>2, <1>3, <1>4, <1>5, <1>6, <1>7 DEF Rests

(* What a process knows when a call of its own or a stage of it ends.      *)
LEMMA LeaveStep ==
  ASSUME TypeOK, NEW p \in Processes, Leave(p)
  PROVE  /\ pc' \in [Processes -> Starting \cup Synchronizing \cup Commanding]
         /\ pc'[p] = "idle" /\ todo'[p] = <<>> /\ before'[p] = None /\ seen'[p] = {}
         /\ pending'[p] = {} /\ trace'[p] = None
         /\ todo' \in [Processes -> Rests]
         /\ before' \in [Processes -> Seq(Groups) \cup {None}]
         /\ seen' \in [Processes -> SUBSET Candidates]
         /\ pending' \in [Processes -> SUBSET Groups]
         /\ trace' \in [Processes -> Suggestions \cup Choices \cup {None}]
<1>1. "idle" \in Starting /\ <<>> \in Rests
  BY DEF Starting, Rests
<1> QED  BY <1>1 DEF Leave, Forget, TypeOK

LEMMA NextStageStep ==
  ASSUME TypeOK, NEW p \in Processes, todo[p] # <<>>, NextStage(p)
  PROVE  /\ pc' \in [Processes -> Starting \cup Synchronizing \cup Commanding]
         /\ todo' \in [Processes -> Rests]
         /\ pc'[p] = Head(todo[p]) /\ todo'[p] = Tail(todo[p])
         /\ pc'[p] \in {"sync", "suggest", "record", "choose"}
<1>1. Head(todo[p]) \in {"sync", "suggest", "record", "choose"} /\ Tail(todo[p]) \in Rests
  BY StagesOfRests DEF TypeOK
<1>2. {"sync", "suggest", "record", "choose"} \subseteq Starting \cup Synchronizing \cup Commanding
  BY DEF Starting, Commanding
<1> QED  BY <1>1, <1>2 DEF NextStage, TypeOK

Stands(q) ==
  /\ pc'[q] = pc[q] /\ todo'[q] = todo[q] /\ before'[q] = before[q]
  /\ seen'[q] = seen[q] /\ pending'[q] = pending[q] /\ trace'[q] = trace[q]

LEMMA OthersStand ==
  ASSUME TypeOK, NEW p \in Processes, Step(p) \/ Fails(p), NEW q \in Processes, q # p
  PROVE  Stands(q)
<1> USE DEF TypeOK, local, store, bounds, Goto, Stands
<1>1. ASSUME Leave(p) PROVE Stands(q)
  BY <1>1 DEF Leave, Forget
<1>2. ASSUME StageDone(p) PROVE Stands(q)
  BY <1>1, <1>2 DEF StageDone, NextStage, Forget
<1>3. CASE Call(p) \/ FindHypotheses(p) \/ RegisterHypotheses(p) \/ ReadCurrent(p)
  BY <1>3 DEF Call, FindHypotheses, RegisterHypotheses, ReadCurrent
<1>4. CASE CheckInitial(p) \/ AddInitialBeliefState(p) \/ ListCompleted(p) \/ ListEvidence(p)
  BY <1>4 DEF CheckInitial, AddInitialBeliefState, ListCompleted, ListEvidence
<1>5. CASE SkipApplied(p) \/ Update(p) \/ CheckStep(p) \/ AddReasoningStep(p)
  BY <1>5 DEF SkipApplied, Update, CheckStep, AddReasoningStep
<1>6. CASE ReadBelief(p) \/ ListForDecision(p) \/ Decide(p) \/ TraceMissing(p)
  BY <1>6 DEF ReadBelief, ListForDecision, Decide, TraceMissing
<1>7. CASE Choose(p)
  BY <1>7 DEF Choose, NextStage
<1>8. CASE Synchronized(p) \/ TraceStored(p) \/ AddTrace(p) \/ AddRecord(p)
  BY <1>2, <1>8 DEF Synchronized, TraceStored, AddTrace, AddRecord
<1>9. CASE RegisterDuplicate(p) \/ CheckInitialDiffers(p) \/ AddInitialDuplicate(p)
           \/ CheckStepRaises(p) \/ AddReasoningDuplicate(p) \/ NothingFeasible(p)
           \/ AddTraceDuplicate(p) \/ NothingLeft(p) \/ AddRecordDuplicate(p) \/ Fails(p)
  BY <1>1, <1>9 DEF RegisterDuplicate, CheckInitialDiffers, AddInitialDuplicate, CheckStepRaises,
     AddReasoningDuplicate, NothingFeasible, AddTraceDuplicate, NothingLeft, AddRecordDuplicate,
     Fails, Raise
<1> QED  BY <1>3, <1>4, <1>5, <1>6, <1>7, <1>8, <1>9 DEF Step

LEMMA PlansBegin ==
  ASSUME NEW command \in {"init", "suggest", "gain", "random"}
  PROVE  /\ Head(Plan[command]) = "sync" /\ Tail(Plan[command]) \in Rests
         /\ Tail(Plan[command]) # <<"record", "sync">>
<1>1. CASE command = "init"
  BY <1>1 DEF Plan, Rests
<1>2. CASE command = "suggest"
  BY <1>2 DEF Plan, Rests
<1>3. CASE command = "gain"
  BY <1>3 DEF Plan, Rests
<1>4. CASE command = "random"
  BY <1>4 DEF Plan, Rests
<1> QED  BY <1>1, <1>2, <1>3, <1>4

-----------------------------------------------------------------------------
(* Type correctness.                                                       *)

LEMMA SuggestedTyped ==
  ASSUME NEW state, NEW done, NEW limit \in SUBSET Candidates, NEW c \in Suggested(state, done, limit)
  PROVE  c \in limit /\ c \notin done
BY DEF Suggested, Cheapest, Completing

LEMMA TypeStep ==
  ASSUME OneChain, NEW p \in Processes, Step(p) \/ Fails(p)
  PROVE  TypeOK'
<1> USE DEF OneChain, local, store, bounds
<1> DEFINE Stages == Starting \cup Synchronizing \cup Commanding
<1>0. TypeOK /\ CallKnows(p) /\ \A q \in Processes \ {p} : Stands(q)
  BY OthersStand DEF CallsKnow
<1>a. /\ {"idle", "sync", "register", "current", "initial", "create"} \subseteq Starting
      /\ {"completed", "applied", "pairs", "check", "extend"} \subseteq Synchronizing
      /\ {"suggest", "list", "decide", "trace", "persist", "choose", "record"} \subseteq Commanding
      /\ {"idle", "sync", "register"} \subseteq Starting
      /\ \A s \in Starting : s \notin Synchronizing
      /\ \A s \in Commanding : s \notin Synchronizing
      /\ \A s \in Commanding \cup Synchronizing : s \notin Starting
  BY DEF Starting, Synchronizing, Commanding
(* What remains to show of a step, its bounds and other processes aside.   *)
<1>b. ASSUME completed' \in Seq(Candidates), registered' \in BOOLEAN, registered => registered',
             belief' \in Seq(Groups) \cup {None}, belief # None => belief' # None,
             evidence' \subseteq Groups, traces' \subseteq Suggestions,
             pc' \in [Processes -> Stages], todo' \in [Processes -> Rests],
             before' \in [Processes -> Seq(Groups) \cup {None}],
             seen' \in [Processes -> SUBSET Candidates],
             pending' \in [Processes -> SUBSET Groups],
             trace' \in [Processes -> Suggestions \cup Choices \cup {None}],
             calls' \in 0 .. MaxCalls, failures' \in 0 .. MaxFailures,
             pc'[p] \notin {"idle", "sync", "register"} => registered',
             pc'[p] \notin Starting => belief' # None,
             pc'[p] \in Synchronizing => before'[p] # None
      PROVE  TypeOK'
  BY <1>0, <1>b DEF TypeOK, Stands
<1>c. ASSUME Leave(p), UNCHANGED <<registered, belief, evidence>>,
             completed' \in Seq(Candidates), traces' \subseteq Suggestions, calls' = calls, failures' \in 0 .. MaxFailures
      PROVE  TypeOK'
  <2>1. "idle" \in Starting /\ "idle" \notin Synchronizing
    BY <1>a
  <2> QED  BY <1>0, <1>b, <1>c, <2>1, LeaveStep DEF TypeOK
<1>d. ASSUME Raise(p) PROVE TypeOK'
  BY <1>0, <1>c, <1>d DEF Raise, TypeOK
<1>e. ASSUME StageDone(p), UNCHANGED <<registered, belief, evidence, bounds>>,
             completed' \in Seq(Candidates), traces' \subseteq Suggestions, pc[p] \notin Starting
      PROVE  TypeOK'
  <2>1. CASE todo[p] = <<>>
    BY <1>0, <1>c, <1>e, <2>1 DEF StageDone, TypeOK
  <2>2. CASE todo[p] # <<>>
    <3>1. NextStage(p) /\ Forget(p) /\ UNCHANGED trace
      BY <1>e, <2>2 DEF StageDone
    <3>2. /\ before' \in [Processes -> Seq(Groups) \cup {None}]
          /\ seen' \in [Processes -> SUBSET Candidates]
          /\ pending' \in [Processes -> SUBSET Groups]
      BY <1>0, <3>1 DEF Forget, TypeOK
    <3>3. pc'[p] \notin Synchronizing
      BY <1>0, <1>a, <2>2, <3>1, NextStageStep
    <3>4. registered /\ belief # None
      BY <1>0, <1>e, <1>a DEF TypeOK
    <3> QED  BY <1>0, <1>b, <1>e, <2>2, <3>1, <3>2, <3>3, <3>4, NextStageStep DEF TypeOK
  <2> QED  BY <2>1, <2>2
<1>1. CASE Call(p)
  <2>1. PICK command \in Commands :
          /\ pc' = [pc EXCEPT ![p] = Head(Plan[command])]
          /\ todo' = [todo EXCEPT ![p] = Tail(Plan[command])]
    BY <1>1 DEF Call
  <2>2. Head(Plan[command]) = "sync" /\ Tail(Plan[command]) \in Rests
    BY ReasoningAssumption, PlansBegin
  <2>3. pc' \in [Processes -> Stages] /\ todo' \in [Processes -> Rests] /\ pc'[p] = "sync"
    BY <1>0, <1>a, <2>1, <2>2 DEF TypeOK
  <2>4. UNCHANGED <<completed, registered, belief, evidence, traces, before, seen, pending, trace,
                    failures>> /\ calls' \in 0 .. MaxCalls
    BY <1>0, <1>1, ReasoningAssumption DEF Call, TypeOK
  <2> QED  BY <1>0, <1>a, <1>b, <2>3, <2>4 DEF TypeOK
<1>2. CASE FindHypotheses(p) \/ RegisterHypotheses(p)
  <2>1. UNCHANGED <<completed, belief, evidence, traces, todo, before, seen, pending, trace,
                    calls, failures>>
    BY <1>2 DEF FindHypotheses, RegisterHypotheses, Goto
  <2>2. pc' \in [Processes -> Stages] /\ pc'[p] \in {"current", "register"}
    BY <1>0, <1>2, <1>a DEF FindHypotheses, RegisterHypotheses, Goto, TypeOK
  <2>3. registered' \in BOOLEAN /\ (registered => registered')
    BY <1>0, <1>2 DEF FindHypotheses, RegisterHypotheses, TypeOK
  <2>4. pc'[p] \in Starting /\ pc'[p] \notin Synchronizing
    BY <1>a, <2>2
  <2>5. pc'[p] = "current" => registered'
    BY <1>0, <1>2 DEF FindHypotheses, RegisterHypotheses, Goto, TypeOK
  <2> QED BY <1>0, <1>b, <2>1, <2>2, <2>3, <2>4, <2>5 DEF TypeOK
<1>3. CASE ReadCurrent(p) \/ CheckInitial(p)
  <2>1. UNCHANGED <<completed, registered, belief, evidence, traces, todo, seen, pending, trace,
                    calls, failures>>
    BY <1>3 DEF ReadCurrent, CheckInitial, Goto
  <2>2. before' \in [Processes -> Seq(Groups) \cup {None}]
    BY <1>0, <1>3 DEF ReadCurrent, CheckInitial, TypeOK
  <2>6. pc' \in [Processes -> Stages]
    <3>1. {"initial", "completed", "create"} \subseteq Stages
      BY <1>a
    <3> QED  BY <1>0, <1>3, <3>1 DEF ReadCurrent, CheckInitial, Goto, TypeOK
  <2>3. \/ pc'[p] \in {"initial", "create"}
        \/ pc'[p] = "completed" /\ belief # None /\ before'[p] = belief
    BY <1>0, <1>3 DEF ReadCurrent, CheckInitial, Goto, TypeOK
  <2>4. pc'[p] = "completed" => registered
    BY <1>0, <1>3, <2>3 DEF ReadCurrent, CheckInitial, Goto, TypeOK
  <2>5. registered
    BY <1>0, <1>3 DEF ReadCurrent, CheckInitial, TypeOK
  <2> QED  BY <1>0, <1>a, <1>b, <2>1, <2>2, <2>3, <2>4, <2>5, <2>6 DEF TypeOK
<1>4. CASE AddInitialBeliefState(p)
  <2>0. <<>> \in Seq(Groups) /\ <<>> # None
    BY EmptySeq, ReasoningAssumption
  <2>1. UNCHANGED <<completed, registered, evidence, traces, todo, seen, pending, trace,
                    calls, failures>>
    BY <1>4 DEF AddInitialBeliefState, Goto
  <2>2. /\ pc' \in [Processes -> Stages] /\ pc'[p] = "completed" /\ registered
        /\ belief' = <<>> /\ before'[p] = <<>>
        /\ before' \in [Processes -> Seq(Groups) \cup {None}]
    BY <1>0, <1>4, <1>a, <2>0 DEF AddInitialBeliefState, Goto, TypeOK
  <2> QED  BY <1>0, <1>a, <1>b, <2>0, <2>1, <2>2 DEF TypeOK
<1>5. CASE ListCompleted(p)
  <2>1. UNCHANGED <<completed, registered, belief, evidence, traces, todo, before, pending,
                    trace, calls, failures>>
    BY <1>5 DEF ListCompleted, Goto
  <2>2. pc' \in [Processes -> Stages] /\ seen' \in [Processes -> SUBSET Candidates]
    BY <1>0, <1>5, <1>a, MembersTyped DEF ListCompleted, Goto, TypeOK, Done
  <2>3. pc[p] = "completed" /\ pc'[p] = "applied"
    BY <1>0, <1>5, MembersTyped DEF ListCompleted, Goto, TypeOK, Done
  <2> QED  BY <1>0, <1>a, <1>b, <2>1, <2>2, <2>3 DEF TypeOK
<1>6. CASE ListEvidence(p)
  <2>1. UNCHANGED <<completed, registered, belief, evidence, traces, todo, before, seen,
                    trace, calls, failures>>
    BY <1>6 DEF ListEvidence, Goto
  <2>2. pc' \in [Processes -> Stages] /\ pending' \in [Processes -> SUBSET Groups]
    BY <1>0, <1>6, <1>a DEF ListEvidence, Goto, TypeOK, Unapplied
  <2>3. pc[p] = "applied" /\ pc'[p] = "pairs"
    BY <1>0, <1>6 DEF ListEvidence, Goto, TypeOK, Unapplied
  <2> QED  BY <1>0, <1>a, <1>b, <2>1, <2>2, <2>3 DEF TypeOK
<1>7. CASE SkipApplied(p) \/ Update(p) \/ CheckStep(p)
  <2>1. UNCHANGED <<completed, registered, belief, evidence, traces, todo, before, seen,
                    trace, calls, failures>>
    BY <1>7 DEF SkipApplied, Update, CheckStep, Goto
  <2>2. pc' \in [Processes -> Stages] /\ pending' \in [Processes -> SUBSET Groups]
    <3>1. CASE SkipApplied(p)
      BY <1>0, <3>1 DEF SkipApplied, TypeOK
    <3>2. CASE Update(p) \/ CheckStep(p)
      BY <1>0, <3>2, <1>a DEF Update, CheckStep, Goto, TypeOK
    <3> QED  BY <1>7, <3>1, <3>2
  <2>3. pc[p] \in {"pairs", "check"} /\ pc'[p] \in {"pairs", "check", "extend"}
    BY <1>0, <1>7 DEF SkipApplied, Update, CheckStep, Goto, TypeOK
  <2> QED  BY <1>0, <1>a, <1>b, <2>1, <2>2, <2>3 DEF TypeOK
<1>8. CASE AddReasoningStep(p)
  <2>0. PICK g \in Groups :
          /\ evidence' = evidence \cup {g}
          /\ belief' = Append(before[p], g)
          /\ before' = [before EXCEPT ![p] = Append(@, g)]
          /\ pending' = [pending EXCEPT ![p] = @ \ {g}]
    BY <1>8 DEF AddReasoningStep
  <2>1. UNCHANGED <<completed, registered, traces, todo, seen, trace, calls, failures>>
    BY <1>8 DEF AddReasoningStep, Goto
  <2>2. before[p] \in Seq(Groups) /\ registered
    BY <1>0, <1>8, <1>a DEF AddReasoningStep, TypeOK
  <2>3. Append(before[p], g) \in Seq(Groups) /\ Append(before[p], g) # None
    BY <2>2, ReasoningAssumption
  <2>4. /\ pc' \in [Processes -> Stages] /\ pc'[p] = "pairs" /\ evidence' \subseteq Groups
        /\ before' \in [Processes -> Seq(Groups) \cup {None}] /\ before'[p] = Append(before[p], g)
        /\ pending' \in [Processes -> SUBSET Groups]
    BY <1>0, <1>8, <1>a, <2>0, <2>3 DEF AddReasoningStep, Goto, TypeOK
  <2> QED  BY <1>0, <1>a, <1>b, <2>0, <2>1, <2>2, <2>3, <2>4 DEF TypeOK
<1>9. CASE ReadBelief(p) \/ ListForDecision(p) \/ TraceMissing(p)
  <2>1. UNCHANGED <<completed, registered, belief, evidence, traces, todo, pending, trace,
                    calls, failures>>
    BY <1>9 DEF ReadBelief, ListForDecision, TraceMissing, Goto
  <2>2. pc' \in [Processes -> Stages] /\ before' \in [Processes -> Seq(Groups) \cup {None}]
    BY <1>0, <1>9, <1>a DEF ReadBelief, ListForDecision, TraceMissing, Goto, TypeOK
  <2>3. seen' \in [Processes -> SUBSET Candidates]
    <3>1. Done \subseteq Candidates
      BY <1>0, MembersTyped DEF Done, TypeOK
    <3> QED  BY <1>0, <1>9, <3>1 DEF ReadBelief, ListForDecision, TraceMissing, TypeOK
  <2>4. pc[p] \in {"suggest", "list", "trace"} /\ pc'[p] \in {"list", "decide", "persist"}
    BY <1>0, <1>9 DEF ReadBelief, ListForDecision, TraceMissing, Goto, TypeOK
  <2>5. registered /\ belief # None
    BY <1>0, <1>a, <2>4 DEF TypeOK
  <2> QED  BY <1>0, <1>a, <1>b, <2>1, <2>2, <2>3, <2>4, <2>5 DEF TypeOK
<1>10. CASE Decide(p)
  <2>1. UNCHANGED <<completed, registered, belief, evidence, traces, todo, before, seen, pending,
                    calls, failures>>
    BY <1>10 DEF Decide, Goto
  <2>a. PICK limit \in Limits : \E c \in Suggested(before[p], seen[p], limit) :
          trace' = [trace EXCEPT ![p] = Trace(before[p], seen[p], limit, c)]
    BY <1>10 DEF Decide
  <2>2. PICK c \in Suggested(before[p], seen[p], limit) :
          trace' = [trace EXCEPT ![p] = Trace(before[p], seen[p], limit, c)]
    BY <2>a
  <2>3. Trace(before[p], seen[p], limit, c) \in Suggestions
    <3>1. limit \in SUBSET Candidates
      BY ReasoningAssumption
    <3>2. c \in Candidates
      BY <3>1, SuggestedTyped
    <3>3. before[p] \in Seq(Groups)
      BY <1>0, <1>10 DEF CallKnows, Decide, TypeOK
    <3> QED  BY <3>1, <3>2, <3>3 DEF Trace, Suggestions, Completing
  <2>4. pc' \in [Processes -> Stages] /\ pc'[p] = "trace" /\ pc[p] = "decide"
    BY <1>0, <1>10, <1>a DEF Decide, Goto, TypeOK
  <2>5. trace' \in [Processes -> Suggestions \cup Choices \cup {None}]
    BY <1>0, <2>2, <2>3 DEF TypeOK
  <2> QED  BY <1>0, <1>a, <1>b, <2>1, <2>4, <2>5 DEF TypeOK
<1>11. CASE Choose(p)
  <2>1. UNCHANGED <<completed, registered, belief, evidence, traces, before, seen, pending,
                    calls, failures>>
    BY <1>11 DEF Choose
  <2>2. pc[p] = "choose" /\ todo[p] # <<>> /\ NextStage(p)
    BY <1>0, <1>11 DEF Choose, CallKnows
  <2>3. PICK c \in Candidates : trace' = [trace EXCEPT ![p] = [selected |-> c]]
    BY <1>11 DEF Choose
  <2>4. trace' \in [Processes -> Suggestions \cup Choices \cup {None}]
    BY <1>0, <2>3 DEF TypeOK, Choices
  <2>5. registered /\ belief # None
    BY <1>0, <1>a, <2>2 DEF TypeOK
  <2>6. pc'[p] \notin Synchronizing
    BY <1>0, <1>a, <2>2, NextStageStep
  <2> QED  BY <1>0, <1>b, <2>1, <2>2, <2>4, <2>5, <2>6, NextStageStep DEF TypeOK
<1>12. CASE Synchronized(p) \/ TraceStored(p)
  <2>1. pc[p] \notin Starting
    BY <1>12, <1>a DEF Synchronized, TraceStored
  <2> QED  BY <1>0, <1>12, <1>e, <2>1 DEF Synchronized, TraceStored, TypeOK
<1>13. CASE AddTrace(p)
  <2>1. pc[p] \notin Starting /\ trace[p] \in Suggestions
    BY <1>0, <1>13, <1>a DEF AddTrace, CallKnows
  <2> QED  BY <1>0, <1>13, <1>e, <2>1 DEF AddTrace, TypeOK
<1>16. CASE AddRecord(p)
  <2>1. pc[p] \notin Starting /\ trace[p] \in Suggestions \cup Choices
    BY <1>0, <1>16, <1>a DEF AddRecord, CallKnows, TypeOK
  <2>2. trace[p].selected \in Candidates
    BY <2>1 DEF Suggestions, Choices
  <2> QED  BY <1>0, <1>16, <1>e, <2>1, <2>2 DEF AddRecord, TypeOK
<1>14. CASE RegisterDuplicate(p) \/ CheckInitialDiffers(p) \/ AddInitialDuplicate(p)
           \/ CheckStepRaises(p) \/ AddReasoningDuplicate(p) \/ NothingFeasible(p)
           \/ AddTraceDuplicate(p) \/ NothingLeft(p) \/ AddRecordDuplicate(p)
  BY <1>14, <1>d DEF RegisterDuplicate, CheckInitialDiffers, AddInitialDuplicate, CheckStepRaises,
     AddReasoningDuplicate, NothingFeasible, AddTraceDuplicate, NothingLeft, AddRecordDuplicate
<1>15. CASE Fails(p)
  BY <1>0, <1>15, <1>c, ReasoningAssumption DEF Fails, TypeOK
<1> QED
  BY <1>1, <1>2, <1>3, <1>4, <1>5, <1>6, <1>7, <1>8, <1>9, <1>10, <1>11, <1>12, <1>13, <1>14, <1>15,
     <1>16 DEF Step

-----------------------------------------------------------------------------
(* The invariant.                                                          *)

(* What the others know stays true while the history only grows.           *)
LEMMA OthersKnow ==
  ASSUME OneChain, NEW p \in Processes, Step(p) \/ Fails(p), Done \subseteq Done',
         NEW q \in Processes, q # p
  PROVE  CallKnows(q)'
<1>1. Stands(q) /\ CallKnows(q)
  BY OthersStand DEF OneChain, CallsKnow
<1>2. \A g : Ledger!PairCompleted(g, Done) => Ledger!PairCompleted(g, Done')
  BY DEF Ledger!PairCompleted
<1>3. Unspent(trace[q]) => Unspent(trace[q])'
  BY <1>1 DEF Stands, Unspent
<1> QED  BY <1>1, <1>2, <1>3 DEF CallKnows, Stands

(* A step that leaves the store alone, up to its traces.                   *)
LEMMA LocalStep ==
  ASSUME OneChain, TypeOK', NEW p \in Processes, Step(p) \/ Fails(p),
         UNCHANGED <<completed, belief, evidence>>, SuggestionIsUnspent',
         before'[p] = None \/ before'[p] = before[p] \/ before'[p] = belief,
         CallKnows(p)'
  PROVE  OneChain'
<1>1. Done' = Done /\ Lineage' = Lineage
  BY DEF Done, Lineage
<1>2. CallsKnow'
  BY <1>1, OthersKnow DEF CallsKnow
<1>3. EvidenceIsConsumed'
  BY <1>1 DEF OneChain, EvidenceIsConsumed
<1>4. HeldBeliefsAreAncestors'
  <2> SUFFICES ASSUME NEW q \in Processes, before'[q] # None
               PROVE  /\ belief # None /\ Len(before'[q]) <= Len(belief)
                      /\ before'[q] = SubSeq(belief, 1, Len(before'[q]))
    BY DEF HeldBeliefsAreAncestors
  <2>1. before'[q] = before[q] \/ before'[q] = belief
    BY OthersStand DEF Stands, OneChain
  <2>2. CASE before'[q] = before[q]
    BY <2>2 DEF OneChain, HeldBeliefsAreAncestors
  <2>3. CASE before'[q] = belief
    <3>1. belief \in Seq(Groups)
      BY <2>3 DEF OneChain, TypeOK
    <3> QED  BY <2>3, <3>1, WholeSequence
  <2> QED  BY <2>1, <2>2, <2>3
<1> QED  BY <1>2, <1>3, <1>4 DEF OneChain

LEMMA LeaveKnows ==
  ASSUME TypeOK, NEW p \in Processes, Leave(p)
  PROVE  CallKnows(p)' /\ before'[p] = None
<1>1. /\ pc'[p] = "idle" /\ todo'[p] = <<>> /\ before'[p] = None /\ seen'[p] = {}
      /\ pending'[p] = {}
  BY LeaveStep
<1>2. <<>> # <<"record", "sync">>
  OBVIOUS
<1> QED  BY <1>1, <1>2 DEF CallKnows

LEMMA StageDoneKnows ==
  ASSUME TypeOK, NEW p \in Processes, CallKnows(p), StageDone(p),
         pc[p] \in {"pairs", "trace", "persist", "record"}
  PROVE  CallKnows(p)' /\ before'[p] = None
<1>1. CASE todo[p] = <<>>
  BY <1>1, LeaveKnows DEF StageDone
<1>2. CASE todo[p] # <<>>
  <2>1. NextStage(p) /\ Forget(p) /\ UNCHANGED trace
    BY <1>2 DEF StageDone
  <2>2. before'[p] = None /\ seen'[p] = {} /\ pending'[p] = {} /\ trace'[p] = trace[p]
    BY <2>1 DEF Forget, TypeOK
  <2>3. todo[p] \in Rests
    BY DEF TypeOK
  <2>4. /\ pc'[p] = Head(todo[p]) /\ todo'[p] = Tail(todo[p])
        /\ pc'[p] \in {"sync", "suggest", "record", "choose"}
    BY <1>2, <2>1, NextStageStep
  <2>5. pc'[p] = "record" => trace[p] # None /\ todo'[p] # <<"record", "sync">>
    BY <1>2, <2>3, <2>4, StagesOfRests DEF CallKnows
  <2>6. pc'[p] = "choose" => todo'[p] = <<"record", "sync">>
    BY <1>2, <2>3, <2>4, StagesOfRests
  <2>7. todo'[p] = <<"record", "sync">> => pc'[p] \in {"suggest", "choose"}
    BY <1>2, <2>3, <2>4, StagesOfRests
  <2> QED  BY <2>2, <2>4, <2>5, <2>6, <2>7 DEF CallKnows
<1> QED  BY <1>1, <1>2

(* Only four steps write what the ledger and the suggestions are made of.  *)
LEMMA QuietShape ==
  ASSUME NEW p \in Processes, Step(p) \/ Fails(p)
  PROVE  \/ AddInitialBeliefState(p) \/ AddReasoningStep(p) \/ AddRecord(p) \/ AddTrace(p)
         \/ UNCHANGED <<completed, belief, evidence, traces>>
BY DEF Step, store, Call, FindHypotheses, RegisterHypotheses, RegisterDuplicate, ReadCurrent,
   CheckInitial, CheckInitialDiffers, AddInitialDuplicate, ListCompleted, ListEvidence, SkipApplied,
   Update, Synchronized, CheckStep, CheckStepRaises, AddReasoningDuplicate, ReadBelief,
   ListForDecision, Decide, NothingFeasible, TraceStored, TraceMissing, AddTraceDuplicate, Choose,
   NothingLeft, AddRecordDuplicate, Fails, Raise

(* The steps that read, decide and fail.                                   *)
LEMMA QuietStep ==
  ASSUME OneChain, TypeOK', NEW p \in Processes, Step(p) \/ Fails(p),
         UNCHANGED <<completed, belief, evidence, traces>>
  PROVE  OneChain'
<1> USE DEF local, store, bounds
<1>0. TypeOK /\ CallKnows(p) /\ Done' = Done
  BY DEF OneChain, CallsKnow, Done
<1>a. SuggestionIsUnspent'
  BY DEF OneChain, SuggestionIsUnspent, Unspent
<1>b. SUFFICES /\ before'[p] = None \/ before'[p] = before[p] \/ before'[p] = belief
               /\ CallKnows(p)'
  BY <1>a, LocalStep
<1>1. CASE Call(p)
  <2>1. PICK command \in Commands :
          /\ pc' = [pc EXCEPT ![p] = Head(Plan[command])]
          /\ todo' = [todo EXCEPT ![p] = Tail(Plan[command])]
    BY <1>1 DEF Call
  <2>2. pc'[p] = "sync" /\ todo'[p] \in Rests /\ todo'[p] # <<"record", "sync">>
    BY <1>0, <2>1, ReasoningAssumption, PlansBegin DEF TypeOK
  <2> QED  BY <1>0, <1>1, <2>2 DEF Call, CallKnows
<1>2. CASE FindHypotheses(p) \/ RegisterHypotheses(p)
  BY <1>0, <1>2 DEF FindHypotheses, RegisterHypotheses, Goto, CallKnows, TypeOK
<1>3. CASE ReadCurrent(p) \/ CheckInitial(p)
  BY <1>0, <1>3 DEF ReadCurrent, CheckInitial, Goto, CallKnows, TypeOK
<1>4. CASE ListCompleted(p)
  BY <1>0, <1>4 DEF ListCompleted, Goto, CallKnows, TypeOK
<1>5. CASE ListEvidence(p)
  <2>1. \A g \in Unapplied(seen[p], evidence) : Ledger!PairCompleted(g, Done)
    BY <1>0 DEF Unapplied, CallKnows, Ledger!PairCompleted
  <2> QED  BY <1>0, <1>5, <2>1 DEF ListEvidence, Goto, CallKnows, TypeOK
<1>6. CASE SkipApplied(p)
  <2>1. /\ pc[p] = "pairs" /\ pc' = pc /\ todo' = todo /\ before' = before /\ seen' = seen
        /\ pending'[p] \subseteq pending[p]
    BY <1>0, <1>6 DEF SkipApplied, TypeOK
  <2> QED  BY <1>0, <2>1 DEF CallKnows
<1>7. CASE Update(p) \/ CheckStep(p)
  <2>1. /\ pc'[p] \in {"check", "extend"} /\ pc[p] \in {"pairs", "check"}
        /\ todo' = todo /\ before' = before /\ seen' = seen /\ pending' = pending
    BY <1>0, <1>7 DEF Update, CheckStep, Goto, TypeOK
  <2>2. \E g \in pending[p] : TRUE
    BY <1>7 DEF Update, CheckStep, IsFirst
  <2> QED  BY <1>0, <2>1, <2>2 DEF CallKnows
<1>8. CASE Synchronized(p) \/ TraceStored(p) \/ AddTrace(p) \/ AddRecord(p)
  BY <1>0, <1>8, StageDoneKnows DEF Synchronized, TraceStored, AddTrace, AddRecord
<1>9. CASE ReadBelief(p)
  <2>1. belief # None
    BY <1>0, <1>9 DEF ReadBelief, TypeOK, Starting
  <2> QED  BY <1>0, <1>9, <2>1 DEF ReadBelief, Goto, CallKnows, TypeOK
<1>10. CASE ListForDecision(p)
  <2>1. before[p] # None /\ before[p] \in Seq(Groups) /\ belief \in Seq(Groups)
        /\ belief # None
        /\ Len(before[p]) \in 0 .. Len(belief)
        /\ before[p] = SubSeq(belief, 1, Len(before[p]))
    BY <1>0, <1>10 DEF ListForDecision, CallKnows, OneChain, HeldBeliefsAreAncestors, TypeOK
  <2>2. \A g \in Ledger!Members(before[p]) : Ledger!PairCompleted(g, Done)
    BY <2>1, MembersOfPrefix DEF OneChain, EvidenceIsConsumed, Lineage
  <2>3. /\ pc'[p] = "decide" /\ seen'[p] = Done /\ before'[p] = before[p]
        /\ todo'[p] = todo[p] /\ pending'[p] = pending[p] /\ pc[p] = "list"
    BY <1>0, <1>10 DEF ListForDecision, Goto, TypeOK
  <2> QED  BY <1>0, <2>1, <2>2, <2>3 DEF CallKnows
<1>11. CASE Decide(p)
  <2>a. PICK limit \in Limits : \E c \in Suggested(before[p], seen[p], limit) :
          trace' = [trace EXCEPT ![p] = Trace(before[p], seen[p], limit, c)]
    BY <1>11 DEF Decide
  <2>1. PICK c \in Suggested(before[p], seen[p], limit) :
          trace' = [trace EXCEPT ![p] = Trace(before[p], seen[p], limit, c)]
    BY <2>a
  <2>2. c \in Candidates /\ c \notin seen[p]
    BY ReasoningAssumption, SuggestedTyped
  <2>3. /\ pc[p] = "decide" /\ pc'[p] = "trace" /\ todo'[p] = todo[p] /\ before'[p] = before[p]
        /\ seen'[p] = seen[p] /\ pending'[p] = pending[p]
        /\ trace'[p] = Trace(before[p], seen[p], limit, c)
    BY <1>0, <1>11, <2>1 DEF Decide, Goto, TypeOK
  <2>4. Trace(before[p], seen[p], limit, c) \in Suggestions
    <3>1. limit \in SUBSET Candidates
      BY ReasoningAssumption
    <3>2. before[p] \in Seq(Groups)
      BY <1>0, <2>3 DEF CallKnows, TypeOK
    <3> QED  BY <2>2, <3>1, <3>2 DEF Trace, Suggestions, Completing
  <2>5. c.group \notin Ledger!Members(before[p])
    <3>1. c.arm \in {"sgd", "adam"} /\ c = [group |-> c.group, arm |-> c.arm]
      BY <2>2 DEF Candidates, Ledger!Candidates
    <3> QED  BY <1>0, <2>2, <2>3, <3>1 DEF CallKnows, Ledger!PairCompleted
  <2>6. Unspent(trace'[p])
    BY <2>3, <2>5 DEF Unspent, Trace
  <2>7. Trace(before[p], seen[p], limit, c) # None
    BY <2>4, ReasoningAssumption
  <2> QED  BY <1>0, <2>3, <2>4, <2>6, <2>7 DEF CallKnows, Unspent
<1>12. CASE TraceMissing(p)
  <2>1. Unspent(trace[p]) => Unspent(trace[p])'
    BY <1>12 DEF TraceMissing, Unspent
  <2> QED  BY <1>0, <1>12, <2>1 DEF TraceMissing, Goto, CallKnows, TypeOK
<1>13. CASE Choose(p)
  <2>1. PICK c \in Candidates : trace' = [trace EXCEPT ![p] = [selected |-> c]]
    BY <1>13 DEF Choose
  <2>2. [selected |-> c] # None /\ todo[p] = <<"record", "sync">>
    BY <1>0, <1>13, ReasoningAssumption DEF Choose, CallKnows, Choices
  <2>3. pc'[p] = "record" /\ todo'[p] = <<"sync">>
    BY <1>0, <1>13, <2>2 DEF Choose, NextStage, TypeOK
  <2> QED  BY <1>0, <1>13, <2>1, <2>2, <2>3 DEF Choose, CallKnows, TypeOK
<1>14. CASE RegisterDuplicate(p) \/ CheckInitialDiffers(p) \/ AddInitialDuplicate(p)
           \/ CheckStepRaises(p) \/ AddReasoningDuplicate(p) \/ NothingFeasible(p)
           \/ AddTraceDuplicate(p) \/ NothingLeft(p) \/ AddRecordDuplicate(p) \/ Fails(p)
  BY <1>0, <1>14, LeaveKnows DEF RegisterDuplicate, CheckInitialDiffers, AddInitialDuplicate,
     CheckStepRaises, AddReasoningDuplicate, NothingFeasible, AddTraceDuplicate, NothingLeft,
     AddRecordDuplicate, Fails, Raise
<1>15. CASE AddInitialBeliefState(p)
  <2>1. belief # None
    BY <1>15, EmptySeq, ReasoningAssumption DEF AddInitialBeliefState
  <2> QED  BY <1>15, <2>1 DEF AddInitialBeliefState
<1>16. CASE AddReasoningStep(p)
  <2>1. PICK g \in Groups : g \notin evidence /\ evidence' = evidence \cup {g}
    BY <1>16 DEF AddReasoningStep, Unique
  <2> QED  BY <2>1
<1> QED
  BY <1>1, <1>2, <1>3, <1>4, <1>5, <1>6, <1>7, <1>8, <1>9, <1>10, <1>11, <1>12, <1>13, <1>14,
     <1>15, <1>16 DEF Step

LEMMA AddInitialStep ==
  ASSUME OneChain, TypeOK', NEW p \in Processes, AddInitialBeliefState(p)
  PROVE  OneChain'
<1> USE DEF local, store, bounds
<1>0. TypeOK /\ CallKnows(p) /\ Done' = Done /\ Step(p)
  BY DEF OneChain, CallsKnow, Done, AddInitialBeliefState, Step
<1>1. belief = None /\ belief' = <<>> /\ Lineage' = Lineage /\ UNCHANGED <<evidence, traces>>
  BY DEF AddInitialBeliefState, Lineage
<1>2. CallKnows(p)'
  BY <1>0 DEF AddInitialBeliefState, Goto, CallKnows, TypeOK
<1>3. CallsKnow'
  BY <1>0, <1>2, OthersKnow DEF CallsKnow
<1>4. EvidenceIsConsumed' /\ SuggestionIsUnspent'
  BY <1>0, <1>1 DEF OneChain, EvidenceIsConsumed, SuggestionIsUnspent, Unspent
<1>5. HeldBeliefsAreAncestors'
  <2>1. \A q \in Processes : before'[q] \in {None, <<>>}
    BY <1>0, <1>1 DEF OneChain, HeldBeliefsAreAncestors, AddInitialBeliefState, TypeOK
  <2>2. <<>> \in Seq(Groups) /\ <<>> # None
    BY EmptySeq, ReasoningAssumption
  <2>3. SubSeq(<<>>, 1, Len(<<>>)) = <<>>
    BY <2>2, WholeSequence
  <2>4. Len(<<>>) <= Len(<<>>)
    BY EmptySeq
  <2> SUFFICES ASSUME NEW q \in Processes, before'[q] # None
               PROVE  /\ belief' # None /\ Len(before'[q]) <= Len(belief')
                      /\ before'[q] = SubSeq(belief', 1, Len(before'[q]))
    BY DEF HeldBeliefsAreAncestors
  <2>5. before'[q] = <<>>
    BY <2>1
  <2> QED  BY <1>1, <2>2, <2>3, <2>4, <2>5
<1> QED  BY <1>3, <1>4, <1>5 DEF OneChain

(* The belief that a transaction extends is the current one.               *)
LEMMA ExtendsCurrent ==
  ASSUME OneChain, NEW p \in Processes, NEW g \in Groups, before[p] # None, Unique(p, g)
  PROVE  before[p] = belief /\ belief # None /\ belief \in Seq(Groups)
<1>1. /\ belief # None /\ belief \in Seq(Groups) /\ before[p] \in Seq(Groups)
      /\ Len(before[p]) <= Len(belief) /\ before[p] = SubSeq(belief, 1, Len(before[p]))
  BY DEF OneChain, HeldBeliefsAreAncestors, TypeOK
<1>2. Len(belief) <= Len(before[p])
  BY DEF Unique
<1>3. Len(before[p]) = Len(belief)
  BY <1>1, <1>2
<1> QED  BY <1>1, <1>3, WholeSequence

LEMMA AddReasoningStepKeeps ==
  ASSUME OneChain, TypeOK', NEW p \in Processes, AddReasoningStep(p)
  PROVE  OneChain'
<1> USE DEF local, store, bounds
<1>0. TypeOK /\ CallKnows(p) /\ Done' = Done /\ Step(p)
  BY DEF OneChain, CallsKnow, Done, AddReasoningStep, Step
<1>1. PICK g \in Groups :
        /\ g \in pending[p] /\ Unique(p, g)
        /\ evidence' = evidence \cup {g}
        /\ belief' = Append(before[p], g)
        /\ before' = [before EXCEPT ![p] = Append(@, g)]
        /\ pending' = [pending EXCEPT ![p] = @ \ {g}]
  BY DEF AddReasoningStep, IsFirst
<1>2. before[p] # None
  <2>1. pc[p] = "extend" /\ "extend" \in Synchronizing
    BY DEF AddReasoningStep, Synchronizing
  <2> QED  BY <1>0, <2>1 DEF TypeOK
<1>3. before[p] = belief /\ belief # None /\ belief \in Seq(Groups)
  BY <1>1, <1>2, ExtendsCurrent
<1>4. /\ belief' = Append(belief, g) /\ belief' \in Seq(Groups) /\ belief' # None
      /\ Len(belief') = Len(belief) + 1 /\ Len(belief) \in Nat
  <2>1. belief' = Append(belief, g)
    BY <1>1, <1>3
  <2>2. Append(belief, g) \in Seq(Groups)
    BY <1>3
  <2>3. Len(Append(belief, g)) = Len(belief) + 1 /\ Len(belief) \in Nat
    BY <1>3
  <2> QED  BY <2>1, <2>2, <2>3, ReasoningAssumption
<1>5. CallsKnow'
  <2>1. CallKnows(p)'
    BY <1>0, <1>1 DEF AddReasoningStep, Goto, CallKnows, TypeOK
  <2> QED  BY <1>0, <2>1, OthersKnow DEF CallsKnow
<1>6. EvidenceIsConsumed'
  <2>1. Lineage' = Append(belief, g) /\ Lineage = belief
    BY <1>3, <1>4 DEF Lineage
  <2>2. Ledger!PairCompleted(g, Done)
    BY <1>0, <1>1 DEF CallKnows
  <2>3. Ledger!Members(Lineage') = Ledger!Members(Lineage) \cup {g}
    BY <1>3, <2>1, MembersOfAppend
  <2> QED  BY <1>0, <1>1, <2>2, <2>3 DEF OneChain, EvidenceIsConsumed
<1>7. HeldBeliefsAreAncestors'
  <2> SUFFICES ASSUME NEW q \in Processes, before'[q] # None
               PROVE  /\ Len(before'[q]) <= Len(belief')
                      /\ before'[q] = SubSeq(belief', 1, Len(before'[q]))
    BY <1>4 DEF HeldBeliefsAreAncestors
  <2>1. CASE q = p
    <3>1. before'[q] = belief'
      BY <1>0, <1>1, <1>4, <2>1 DEF TypeOK
    <3> QED  BY <1>4, <3>1, WholeSequence
  <2>2. CASE q # p
    <3>1. /\ before'[q] = before[q] /\ before[q] \in Seq(Groups)
          /\ Len(before[q]) <= Len(belief) /\ before[q] = SubSeq(belief, 1, Len(before[q]))
      BY <1>0, <1>1, <2>2 DEF OneChain, HeldBeliefsAreAncestors, TypeOK
    <3>2. Len(before[q]) \in 0 .. Len(belief)
      BY <3>1, <1>4
    <3>3. SubSeq(belief', 1, Len(before[q])) = SubSeq(belief, 1, Len(before[q]))
      BY <1>3, <1>4, <3>2, PrefixOfAppend
    <3> QED  BY <1>4, <3>1, <3>2, <3>3
  <2> QED  BY <2>1, <2>2
<1>8. SuggestionIsUnspent'
  BY DEF OneChain, SuggestionIsUnspent, Unspent, AddReasoningStep
<1> QED  BY <1>5, <1>6, <1>7, <1>8 DEF OneChain

LEMMA AddRecordKeeps ==
  ASSUME OneChain, TypeOK', NEW p \in Processes, AddRecord(p)
  PROVE  /\ OneChain'
         /\ \E c \in Candidates : c \notin Done /\ completed' = Append(completed, c)
<1> USE DEF local, store, bounds
<1>0. TypeOK /\ CallKnows(p) /\ Step(p)
  BY DEF OneChain, CallsKnow, Step
<1>1. trace[p] \in Suggestions \cup Choices
  BY <1>0 DEF AddRecord, CallKnows, TypeOK
<1>2. trace[p].selected \in Candidates
  BY <1>1 DEF Suggestions, Choices
<1>3. Done' = Done \cup {trace[p].selected}
  BY <1>0, <1>2, MembersOfAppend DEF Done, AddRecord, TypeOK
<1>4. \A g : Ledger!PairCompleted(g, Done) => Ledger!PairCompleted(g, Done')
  BY <1>3 DEF Ledger!PairCompleted
<1>5. CallKnows(p)' /\ before'[p] = None
  BY <1>0, StageDoneKnows DEF AddRecord
<1>6. CallsKnow'
  BY <1>0, <1>3, <1>5, OthersKnow DEF CallsKnow
<1>7. EvidenceIsConsumed'
  BY <1>4 DEF OneChain, EvidenceIsConsumed, AddRecord, Lineage
<1>8. HeldBeliefsAreAncestors'
  BY <1>0, <1>5, OthersStand DEF OneChain, HeldBeliefsAreAncestors, Stands, AddRecord
<1>9. SuggestionIsUnspent'
  BY DEF OneChain, SuggestionIsUnspent, Unspent, AddRecord
<1> QED  BY <1>2, <1>6, <1>7, <1>8, <1>9 DEF OneChain, AddRecord

LEMMA AddTraceKeeps ==
  ASSUME OneChain, TypeOK', NEW p \in Processes, AddTrace(p)
  PROVE  OneChain'
<1> USE DEF local, store, bounds
<1>0. TypeOK /\ CallKnows(p) /\ Step(p)
  BY DEF OneChain, CallsKnow, Step
<1>1. CallKnows(p)' /\ before'[p] = None
  BY <1>0, StageDoneKnows DEF AddTrace
<1>2. Unspent(trace[p])
  BY <1>0 DEF CallKnows, AddTrace
<1>3. SuggestionIsUnspent'
  BY <1>2 DEF OneChain, SuggestionIsUnspent, Unspent, AddTrace
<1> QED  BY <1>0, <1>1, <1>3, LocalStep DEF AddTrace

LEMMA InvariantStep == OneChain /\ [Next]_vars => OneChain'
<1> SUFFICES ASSUME OneChain, [Next]_vars PROVE OneChain'
  OBVIOUS
<1> USE DEF store, local, bounds
<1>1. CASE UNCHANGED vars
  BY <1>1 DEF vars, OneChain, TypeOK, HeldBeliefsAreAncestors, EvidenceIsConsumed, CallsKnow,
     CallKnows, SuggestionIsUnspent, Unspent, Done, Lineage
<1>2. ASSUME NEW p \in Processes, Step(p) \/ Fails(p) PROVE OneChain'
  <2>1. TypeOK'
    BY <1>2, TypeStep
  <2>2. CASE AddInitialBeliefState(p)
    BY <2>1, <2>2, AddInitialStep
  <2>3. CASE AddReasoningStep(p)
    BY <2>1, <2>3, AddReasoningStepKeeps
  <2>4. CASE AddRecord(p)
    BY <2>1, <2>4, AddRecordKeeps
  <2>5. CASE AddTrace(p)
    BY <2>1, <2>5, AddTraceKeeps
  <2>6. CASE UNCHANGED <<completed, belief, evidence, traces>>
    BY <1>2, <2>1, <2>6, QuietStep
  <2> QED  BY <1>2, <2>2, <2>3, <2>4, <2>5, <2>6, QuietShape
<1> QED  BY <1>1, <1>2 DEF Next

-----------------------------------------------------------------------------

LEMMA Invariance == Spec => []OneChain
BY InitEstablishes, InvariantStep, PTL DEF Spec

(* However many processes synchronize at once, over however many groups,   *)
(* every belief one of them holds is an ancestor of the current one:       *)
(* add_reasoning_step never forks the chain of belief states.              *)
THEOREM BeliefsFormOneChain == Spec => []HeldBeliefsAreAncestors
<1>1. OneChain => HeldBeliefsAreAncestors
  BY DEF OneChain
<1> QED  BY <1>1, Invariance, PTL

(* No persisted suggestion of suggest_information_gain spends its          *)
(* experiment on a pair that its belief has consumed.                      *)
THEOREM SuggestionsAreUnspent == Spec => []SuggestionIsUnspent
<1>1. OneChain => SuggestionIsUnspent
  BY DEF OneChain
<1> QED  BY <1>1, Invariance, PTL

(* Racing calls implement the ledger: experiments and evidence are only    *)
(* ever appended, one at a time, each pair once and after both of its arms. *)
THEOREM CallsImplementLedger == Spec => ImplementsLedger
<1>1. Init => Ledger!Init
  BY DEF Init, Ledger!Init
<1>2. OneChain /\ [Next]_vars => [Ledger!Next]_<<completed, Lineage>>
  <2> SUFFICES ASSUME OneChain, NEW p \in Processes, Step(p) \/ Fails(p)
               PROVE  Ledger!Next \/ UNCHANGED <<completed, Lineage>>
    BY DEF Next, vars, store, Lineage
  <2>1. TypeOK'
    BY TypeStep
  <2>2. CASE AddInitialBeliefState(p)
    BY <2>2 DEF AddInitialBeliefState, Lineage
  <2>3. CASE AddReasoningStep(p)
    <3>1. PICK g \in Groups : /\ g \in pending[p] /\ Unique(p, g)
                              /\ belief' = Append(before[p], g) /\ UNCHANGED completed
      BY <2>3 DEF AddReasoningStep, IsFirst
    <3>2. before[p] # None
      <4>1. pc[p] = "extend" /\ "extend" \in Synchronizing
        BY <2>3 DEF AddReasoningStep, Synchronizing
      <4> QED  BY <4>1 DEF OneChain, TypeOK
    <3>3. before[p] = belief /\ belief # None /\ belief \in Seq(Groups)
      BY <3>1, <3>2, ExtendsCurrent
    <3>4. Append(belief, g) # None
      BY <3>3, ReasoningAssumption
    <3>5. Lineage' = Append(Lineage, g)
      BY <3>1, <3>3, <3>4 DEF Lineage
    <3>6. Ledger!PairCompleted(g, Done) /\ g \notin Ledger!Members(Lineage)
      BY <3>1 DEF OneChain, CallsKnow, CallKnows, EvidenceIsConsumed, Unique
    <3>7. Ledger!Apply(g)
      BY <3>1, <3>5, <3>6 DEF Ledger!Apply, Lineage, Done
    <3> QED  BY <3>7 DEF Ledger!Next, Groups, Ledger!Groups
  <2>4. CASE AddRecord(p)
    <3>1. PICK c \in Candidates : c \notin Done /\ completed' = Append(completed, c)
      BY <2>1, <2>4, AddRecordKeeps
    <3>2. Ledger!Complete(c)
      BY <2>4, <3>1 DEF Ledger!Complete, Done, AddRecord
    <3> QED  BY <3>2 DEF Ledger!Next, Candidates
  <2>5. CASE AddTrace(p)
    BY <2>5 DEF AddTrace, Lineage
  <2>6. CASE UNCHANGED <<completed, belief, evidence, traces>>
    BY <2>6 DEF Lineage
  <2> QED  BY <2>2, <2>3, <2>4, <2>5, <2>6, QuietShape
<1> QED  BY <1>1, <1>2, Invariance, PTL DEF Spec, ImplementsLedger, Ledger!Spec, Lineage

=============================================================================
