-------------------------- MODULE OptimizerReasoning --------------------------
(***************************************************************************)
(* Command-line calls (init, suggest, run) on one experiment database, by  *)
(* processes that know nothing of each other.  Every call synchronizes the *)
(* reasoning first: it registers the hypotheses and the initial belief     *)
(* once, then turns each matched pair that has no evidence yet into a      *)
(* Bayesian update.  Every statement or transaction of SQLite is a step of *)
(* its own; a call that raises closes its connection.                      *)
(*                                                                         *)
(* A belief state is named by the hash of its parent and its evidence, so  *)
(* it is represented by the sequence of groups whose evidence it consumed. *)
(***************************************************************************)
EXTENDS Integers, Sequences

CONSTANTS
  N,             \* comparison groups, in the order of repr(comparison_key)
  Processes,
  Commands,      \* which commands are called: keys of Plan
  Rank,          \* candidates by cost, then by identifier
  Limits,        \* the sets of candidates within a --max-cost
  Conclusive,    \* beliefs whose remaining uncertainty no pair can reduce
  MaxCalls,      \* bound on the calls of a behaviour
  MaxFailures,   \* bound on busy timeouts and killed processes
  Unlimited,     \* TRUE: MaxCalls does not apply
  None

VARIABLES
  completed,   \* experiments, in the order of their ids
  registered,  \* whether the hypotheses are stored
  belief,      \* the state of the highest sequence_number, or None
  evidence,    \* the groups in the evidence table
  traces,      \* decision_traces, by the content that is their id
  pc, todo,    \* where each process is, and the stages its call has left
  before,      \* the belief state it holds
  seen,        \* the completed experiments it has read
  pending,     \* the pairs it has yet to apply
  trace,       \* its suggestion
  calls, failures

store == <<completed, registered, belief, evidence, traces>>
local == <<before, seen, pending, trace>>
bounds == <<calls, failures>>
vars == <<store, pc, todo, local, bounds>>

Ledger == INSTANCE ReasoningLedger
            WITH experiments <- completed, lineage <- IF belief = None THEN <<>> ELSE belief

Groups == 1 .. N
Candidates == Ledger!Candidates
Done == Ledger!Members(completed)

(* A persisted suggestion, and the choice of a policy without beliefs.     *)
Suggestions == [belief : Seq(Groups), limit : SUBSET Candidates, ranked : SUBSET Candidates,
                completing : SUBSET Candidates, selected : Candidates]
Choices == [selected : Candidates]

ASSUME ReasoningAssumption ==
  /\ N \in Nat \ {0} /\ MaxCalls \in Nat /\ MaxFailures \in Nat /\ Unlimited \in BOOLEAN
  /\ Commands \subseteq {"init", "suggest", "gain", "random"}
  /\ Rank \in [Candidates -> Nat]
  /\ Limits \subseteq SUBSET Candidates
  /\ None \notin Seq(Groups) \cup Suggestions \cup Choices

(* The stages of a command: main synchronizes, and so does every gain      *)
(* suggestion and every run.                                               *)
Plan ==
  [init    |-> <<"sync">>,
   suggest |-> <<"sync", "sync", "suggest">>,
   gain    |-> <<"sync", "sync", "suggest", "record", "sync">>,
   random  |-> <<"sync", "choose", "record", "sync">>]

Init ==
  /\ completed = <<>> /\ registered = FALSE /\ belief = None
  /\ evidence = {} /\ traces = {}
  /\ pc = [p \in Processes |-> "idle"]
  /\ todo = [p \in Processes |-> <<>>]
  /\ before = [p \in Processes |-> None]
  /\ seen = [p \in Processes |-> {}]
  /\ pending = [p \in Processes |-> {}]
  /\ trace = [p \in Processes |-> None]
  /\ calls = 0 /\ failures = 0

Goto(p, stage) == pc' = [pc EXCEPT ![p] = stage] /\ UNCHANGED todo

(* The local variables of a function that returns.                         *)
Forget(p) ==
  /\ before' = [before EXCEPT ![p] = None]
  /\ seen' = [seen EXCEPT ![p] = {}]
  /\ pending' = [pending EXCEPT ![p] = {}]

(* The call returns or raises; its connection is closed.                   *)
Leave(p) ==
  /\ pc' = [pc EXCEPT ![p] = "idle"]
  /\ todo' = [todo EXCEPT ![p] = <<>>]
  /\ Forget(p)
  /\ trace' = [trace EXCEPT ![p] = None]

Raise(p) == Leave(p) /\ UNCHANGED <<store, bounds>>

(* A stage of the call is over.                                            *)
NextStage(p) ==
  /\ pc' = [pc EXCEPT ![p] = Head(todo[p])]
  /\ todo' = [todo EXCEPT ![p] = Tail(@)]

StageDone(p) == IF todo[p] = <<>> THEN Leave(p) ELSE NextStage(p) /\ Forget(p) /\ UNCHANGED trace

(* Mistake: only the pair that the newest experiment completes is applied. *)
UnappliedNewest(done, applied) ==
  {g \in Groups : Ledger!PairCompleted(g, done) /\ completed[Len(completed)].group = g} \ applied

(* The pairs to apply, of the experiments and the evidence read.           *)
Unapplied(done, applied) == {g \in Groups : Ledger!PairCompleted(g, done)} \ applied

IsFirst(g, groups) == g \in groups /\ \A h \in groups : g <= h

(* A candidate that completes a pair is worth information.                 *)
Completing(done, ranked) ==
  {c \in ranked : \E d \in done : d.group = c.group /\ d.arm # c.arm}

Cheapest(candidates) == {c \in candidates : \A d \in candidates : Rank[c] <= Rank[d]}

(* InformationGainPolicy: the cheapest that completes a pair while beliefs *)
(* are inconclusive, the cheapest feasible one otherwise.                  *)
Suggested(state, done, limit) ==
  LET ranked == limit \ done
      pairs == Completing(done, ranked)
  IN  IF state \notin Conclusive /\ pairs # {} THEN Cheapest(pairs) ELSE Cheapest(ranked)

Trace(state, done, limit, c) ==
  [belief |-> state, limit |-> limit, ranked |-> limit \ done,
   completing |-> Completing(done, limit \ done), selected |-> c]

-----------------------------------------------------------------------------
(* The call and its synchronizations.                                      *)

Call(p) ==
  /\ pc[p] = "idle"
  /\ Unlimited \/ calls < MaxCalls
  /\ calls' = IF Unlimited THEN calls ELSE calls + 1
  /\ \E command \in Commands :
       /\ pc' = [pc EXCEPT ![p] = Head(Plan[command])]
       /\ todo' = [todo EXCEPT ![p] = Tail(Plan[command])]
  /\ UNCHANGED <<store, local, failures>>

(* register_hypotheses looks for the first hypothesis ...                  *)
FindHypotheses(p) ==
  /\ pc[p] = "sync"
  /\ Goto(p, IF registered THEN "current" ELSE "register")
  /\ UNCHANGED <<store, local, bounds>>

(* ... and inserts all of them in one transaction, unless another process  *)
(* has done so since.                                                      *)
RegisterHypotheses(p) ==
  /\ pc[p] = "register" /\ ~registered
  /\ registered' = TRUE
  /\ Goto(p, "current")
  /\ UNCHANGED <<completed, belief, evidence, traces, local, bounds>>

RegisterDuplicate(p) == pc[p] = "register" /\ registered /\ Raise(p)

ReadCurrent(p) ==
  /\ pc[p] = "current"
  /\ before' = [before EXCEPT ![p] = belief]
  /\ Goto(p, IF belief = None THEN "initial" ELSE "completed")
  /\ UNCHANGED <<store, seen, pending, trace, bounds>>

(* add_initial_belief_state reads once more: the state of another process  *)
(* was created at another time and is therefore different.                 *)
CheckInitial(p) ==
  /\ pc[p] = "initial" /\ belief = None
  /\ Goto(p, "create")
  /\ UNCHANGED <<store, local, bounds>>

CheckInitialDiffers(p) == pc[p] = "initial" /\ belief # None /\ Raise(p)

AddInitialBeliefState(p) ==
  /\ pc[p] = "create" /\ belief = None
  /\ belief' = <<>>
  /\ before' = [before EXCEPT ![p] = <<>>]
  /\ Goto(p, "completed")
  /\ UNCHANGED <<completed, registered, evidence, traces, seen, pending, trace, bounds>>

AddInitialDuplicate(p) == pc[p] = "create" /\ belief # None /\ Raise(p)

ListCompleted(p) ==
  /\ pc[p] = "completed"
  /\ seen' = [seen EXCEPT ![p] = Done]
  /\ Goto(p, "applied")
  /\ UNCHANGED <<store, before, pending, trace, bounds>>

ListEvidence(p) ==
  /\ pc[p] = "applied"
  /\ pending' = [pending EXCEPT ![p] = Unapplied(seen[p], evidence)]
  /\ Goto(p, "pairs")
  /\ UNCHANGED <<store, before, seen, trace, bounds>>

(* The loop over the pairs: skip one whose evidence has appeared since ... *)
SkipApplied(p) ==
  /\ pc[p] = "pairs"
  /\ \E g \in evidence : IsFirst(g, pending[p]) /\ pending' = [pending EXCEPT ![p] = @ \ {g}]
  /\ UNCHANGED <<store, pc, todo, before, seen, trace, bounds>>

(* ... update the belief held otherwise.                                   *)
Update(p) ==
  /\ pc[p] = "pairs"
  /\ \E g \in Groups \ evidence : IsFirst(g, pending[p])
  /\ Goto(p, "check")
  /\ UNCHANGED <<store, local, bounds>>

Synchronized(p) ==
  /\ pc[p] = "pairs" /\ pending[p] = {}
  /\ StageDone(p)
  /\ UNCHANGED <<store, bounds>>

(* add_reasoning_step: the update must extend the current state.           *)
CheckStep(p) ==
  /\ pc[p] = "check"
  /\ belief = before[p] /\ \E g \in Groups \ evidence : IsFirst(g, pending[p])
  /\ Goto(p, "extend")
  /\ UNCHANGED <<store, local, bounds>>

CheckStepRaises(p) ==
  /\ pc[p] = "check"
  /\ belief # before[p] \/ \E g \in evidence : IsFirst(g, pending[p])
  /\ Raise(p)

(* Mistake: sequence numbers are not unique.                               *)
UniqueEvidence(p, g) == g \notin evidence

(* The transaction inserts the evidence, the posterior state and the       *)
(* update; evidence ids and sequence numbers are unique.                   *)
Unique(p, g) == g \notin evidence /\ Len(belief) <= Len(before[p])

AddReasoningStep(p) ==
  /\ pc[p] = "extend"
  /\ \E g \in Groups :
       /\ IsFirst(g, pending[p]) /\ Unique(p, g)
       /\ evidence' = evidence \cup {g}
       /\ belief' = Append(before[p], g)
       /\ before' = [before EXCEPT ![p] = Append(@, g)]
       /\ pending' = [pending EXCEPT ![p] = @ \ {g}]
  /\ Goto(p, "pairs")
  /\ UNCHANGED <<completed, registered, traces, seen, trace, bounds>>

AddReasoningDuplicate(p) ==
  /\ pc[p] = "extend"
  /\ \E g \in Groups : IsFirst(g, pending[p]) /\ ~Unique(p, g)
  /\ Raise(p)

-----------------------------------------------------------------------------
(* The commands.                                                           *)

(* suggest_information_gain reads the belief, ...                          *)
ReadBelief(p) ==
  /\ pc[p] = "suggest"
  /\ before' = [before EXCEPT ![p] = belief]
  /\ Goto(p, "list")
  /\ UNCHANGED <<store, seen, pending, trace, bounds>>

(* ... then the experiments, and decides.                                  *)
ListForDecision(p) ==
  /\ pc[p] = "list"
  /\ seen' = [seen EXCEPT ![p] = Done]
  /\ Goto(p, "decide")
  /\ UNCHANGED <<store, before, pending, trace, bounds>>

(* Mistake: the belief is read after the experiments.                      *)
DecideOnNewerBelief(p) ==
  /\ pc[p] = "decide"
  /\ \E limit \in Limits : \E c \in Suggested(belief, seen[p], limit) :
       trace' = [trace EXCEPT ![p] = Trace(belief, seen[p], limit, c)]
  /\ Goto(p, "trace")
  /\ UNCHANGED <<store, before, seen, pending, bounds>>

Decide(p) ==
  /\ pc[p] = "decide"
  /\ \E limit \in Limits : \E c \in Suggested(before[p], seen[p], limit) :
       trace' = [trace EXCEPT ![p] = Trace(before[p], seen[p], limit, c)]
  /\ Goto(p, "trace")
  /\ UNCHANGED <<store, before, seen, pending, bounds>>

NothingFeasible(p) ==
  /\ pc[p] = "decide"
  /\ \E limit \in Limits : limit \subseteq seen[p]
  /\ Raise(p)

(* add_decision_trace returns the stored trace of the same content, ...    *)
TraceStored(p) ==
  /\ pc[p] = "trace" /\ trace[p] \in traces
  /\ StageDone(p)
  /\ UNCHANGED <<store, bounds>>

TraceMissing(p) ==
  /\ pc[p] = "trace" /\ trace[p] \notin traces
  /\ Goto(p, "persist")
  /\ UNCHANGED <<store, local, bounds>>

(* ... or inserts it.                                                      *)
AddTrace(p) ==
  /\ pc[p] = "persist" /\ trace[p] \notin traces
  /\ traces' = traces \cup {trace[p]}
  /\ StageDone(p)
  /\ UNCHANGED <<completed, registered, belief, evidence, bounds>>

AddTraceDuplicate(p) == pc[p] = "persist" /\ trace[p] \in traces /\ Raise(p)

(* The random and greedy policies choose among the candidates not          *)
(* completed, whatever the beliefs.                                        *)
Choose(p) ==
  /\ pc[p] = "choose"
  /\ \E c \in Candidates \ Done :
       trace' = [trace EXCEPT ![p] = [selected |-> c]]
  /\ NextStage(p)
  /\ UNCHANGED <<store, before, seen, pending, bounds>>

NothingLeft(p) == pc[p] = "choose" /\ Candidates \subseteq Done /\ Raise(p)

(* run_next evaluates the candidate and stores the record.                 *)
AddRecord(p) ==
  /\ pc[p] = "record" /\ trace[p].selected \notin Done
  /\ completed' = Append(completed, trace[p].selected)
  /\ StageDone(p)
  /\ UNCHANGED <<registered, belief, evidence, traces, bounds>>

AddRecordDuplicate(p) == pc[p] = "record" /\ trace[p].selected \in Done /\ Raise(p)

(* A statement gives up on a lock, or the process dies: an open            *)
(* transaction is rolled back.                                             *)
Fails(p) ==
  /\ pc[p] # "idle" /\ failures < MaxFailures
  /\ failures' = failures + 1
  /\ Leave(p)
  /\ UNCHANGED <<store, calls>>

-----------------------------------------------------------------------------

Step(p) ==
  \/ Call(p)
  \/ FindHypotheses(p) \/ RegisterHypotheses(p) \/ RegisterDuplicate(p)
  \/ ReadCurrent(p) \/ CheckInitial(p) \/ CheckInitialDiffers(p)
  \/ AddInitialBeliefState(p) \/ AddInitialDuplicate(p)
  \/ ListCompleted(p) \/ ListEvidence(p)
  \/ SkipApplied(p) \/ Update(p) \/ Synchronized(p)
  \/ CheckStep(p) \/ CheckStepRaises(p) \/ AddReasoningStep(p) \/ AddReasoningDuplicate(p)
  \/ ReadBelief(p) \/ ListForDecision(p) \/ Decide(p) \/ NothingFeasible(p)
  \/ TraceStored(p) \/ TraceMissing(p) \/ AddTrace(p) \/ AddTraceDuplicate(p)
  \/ Choose(p) \/ NothingLeft(p)
  \/ AddRecord(p) \/ AddRecordDuplicate(p)

Next == \E p \in Processes : Step(p) \/ Fails(p)

Spec == Init /\ [][Next]_vars

(* No statement hangs, and commands go on being called.                    *)
FairSpec == Spec /\ \A p \in Processes : WF_vars(Step(p))

-----------------------------------------------------------------------------

Lineage == IF belief = None THEN <<>> ELSE belief

Starting == {"idle", "sync", "register", "current", "initial", "create"}
Synchronizing == {"completed", "applied", "pairs", "check", "extend"}
Commanding == {"suggest", "list", "decide", "trace", "persist", "choose", "record"}

(* What a plan has left after each of its stages.                          *)
Rests ==
  {<<>>, <<"sync">>, <<"suggest">>, <<"sync", "suggest">>, <<"record", "sync">>,
   <<"suggest", "record", "sync">>, <<"sync", "suggest", "record", "sync">>,
   <<"choose", "record", "sync">>}

TypeOK ==
  /\ completed \in Seq(Candidates)
  /\ registered \in BOOLEAN
  /\ belief \in Seq(Groups) \cup {None}
  /\ evidence \subseteq Groups
  /\ traces \subseteq Suggestions
  /\ pc \in [Processes -> Starting \cup Synchronizing \cup Commanding]
  /\ todo \in [Processes -> Rests]
  /\ before \in [Processes -> Seq(Groups) \cup {None}]
  /\ seen \in [Processes -> SUBSET Candidates]
  /\ pending \in [Processes -> SUBSET Groups]
  /\ trace \in [Processes -> Suggestions \cup Choices \cup {None}]
  /\ calls \in 0 .. MaxCalls /\ failures \in 0 .. MaxFailures
  /\ \A p \in Processes :
       /\ pc[p] \notin {"idle", "sync", "register"} => registered
       /\ pc[p] \notin Starting => belief # None
       /\ pc[p] \in Synchronizing => before[p] # None

(* Every belief held extends to the current one: synchronizers that race    *)
(* fail, and none of them forks the chain of belief states.                *)
HeldBeliefsAreAncestors ==
  \A p \in Processes : before[p] # None =>
    /\ belief # None
    /\ Len(before[p]) <= Len(belief)
    /\ before[p] = SubSeq(belief, 1, Len(before[p]))

(* The evidence table holds what the current belief has consumed, all of   *)
(* it from completed pairs.                                                *)
EvidenceIsConsumed ==
  /\ evidence = Ledger!Members(Lineage)
  /\ \A g \in evidence : Ledger!PairCompleted(g, Done)

(* What the calls know: a call records only what it has chosen, what it    *)
(* has read was true and stays true, and the belief of a suggestion has    *)
(* consumed only pairs that its experiments hold.                          *)
Unspent(t) == t.selected.group \notin Ledger!Members(t.belief)

CallKnows(p) ==
  /\ todo[p] = <<"record", "sync">> =>
       pc[p] \in {"suggest", "list", "decide", "trace", "persist", "choose"}
  /\ pc[p] = "choose" => todo[p] = <<"record", "sync">>
  /\ pc[p] \in {"trace", "persist", "record"} => trace[p] # None
  /\ pc[p] \in {"trace", "persist"} => trace[p] \in Suggestions /\ Unspent(trace[p])
  /\ pc[p] \in {"list", "decide"} => before[p] # None
  /\ pc[p] \in {"check", "extend"} => \E g \in pending[p] : TRUE
  /\ \A g \in pending[p] : Ledger!PairCompleted(g, Done)
  /\ seen[p] \subseteq Done
  /\ pc[p] = "decide" =>
       \A g \in Ledger!Members(before[p]) : Ledger!PairCompleted(g, seen[p])

CallsKnow == \A p \in Processes : CallKnows(p)

(* Racing synchronizers together keep one ledger: each pair is consumed at *)
(* most once, after both of its arms, and no consumed pair is ever lost.   *)
ImplementsLedger == Ledger!Spec

(* The persisted suggestion never spends an experiment on a pair whose     *)
(* evidence the belief it is based on has already consumed, though belief  *)
(* and experiments are read at different times.                            *)
SuggestionIsUnspent == \A t \in traces : Unspent(t)

(* Every completed pair is consumed in the end, although the call that     *)
(* completed it may fail before it synchronizes, or lose its race.         *)
EveryPairApplied ==
  \A g \in Groups : Ledger!PairCompleted(g, Done) ~> g \in evidence

=============================================================================
