--------------------------- MODULE WorkloadRunner ---------------------------
(***************************************************************************)
(* Runners executing one RunSpec against one SQLite experiment store.      *)
(*                                                                         *)
(* Each runner is a caller with its own connection (ExperimentStore) that  *)
(* calls run_workload_trace, resume_workload_trace or                      *)
(* run_workload_experiment.  A call reads the persisted history, lets the  *)
(* policy select, runs the workload adapter, and only then inserts and     *)
(* commits the completed record: no lock is held between the read and the  *)
(* insert, and the insert re-checks nothing but the uniqueness of the      *)
(* candidate.  The v1, v2 and v3 entry points have the same control and    *)
(* differ in the policy, a constant here.                                  *)
(*                                                                         *)
(* SQLite is external and modelled from its use: legacy deferred           *)
(* transactions under a rollback journal.  An INSERT opens a transaction   *)
(* and takes RESERVED; an INSERT that fails leaves the transaction open; a *)
(* SELECT inside an open transaction takes and keeps SHARED; COMMIT needs  *)
(* every other SHARED lock gone and keeps PENDING when it gives up; only   *)
(* closing the connection, or dying, rolls back.  A statement whose lock   *)
(* is not available may wait (no step) or give up as busy.                 *)
(***************************************************************************)
EXTENDS Budgets

CONSTANTS
  Runners,        \* the processes that share the store
  Calls,          \* the entry points the callers use
  AdapterMayFail, \* whether an adapter may raise
  RetryInPlace,   \* whether a caller may call again on the store a call failed on
  MaxCrashes,     \* bound on the crashes of a behaviour
  None

ASSUME RunnerAssumption ==
  /\ Calls \subseteq {"trace", "resume", "experiment"}
  /\ AdapterMayFail \in BOOLEAN
  /\ RetryInPlace \in BOOLEAN
  /\ MaxCrashes \in Nat

VARIABLES
  committed,  \* the committed rows of this RunSpec, in id order
  pc,         \* where each runner is
  call,       \* the entry point each runner is in
  steps,      \* the trace a runner has captured so far, as its records
  seen,       \* the history a runner's last selection was made from
  row,        \* the candidate selected, then the record to insert
  lock,       \* the SQLite lock each connection holds between statements
  open,       \* connection.in_transaction
  pending,    \* rows a connection has inserted and not committed
  returned,   \* the trace the last completed call returned
  crashes     \* crashes so far

store == <<committed, lock, open, pending>>
local == <<call, steps, seen, row>>
vars == <<committed, pc, call, steps, seen, row, lock, open, pending, returned, crashes>>

-----------------------------------------------------------------------------
(* The SQLite connection.                                                  *)

View(p) == committed \o pending[p]

Others(p) == Runners \ {p}
ReadBlocked(p) == lock[p] = "none" /\ \E q \in Others(p) : lock[q] = "pending"
CommitBlocked(p) == \E q \in Others(p) : lock[q] # "none"

(* The next statement of the runner is a SELECT, which another connection  *)
(* may find it in the middle of.                                           *)
AtRead(p) ==
  \/ pc[p] = "select"
  \/ pc[p] = "ready" /\ Calls \cap {"trace", "resume"} # {}

WriteLocked(p) == \E q \in Others(p) : lock[q] \in {"reserved", "pending"}

(* A SELECT: inside an open transaction it keeps the SHARED lock.          *)
Read(p) ==
  /\ ~ReadBlocked(p)
  /\ lock' = [lock EXCEPT ![p] = IF open[p] /\ @ = "none" THEN "shared" ELSE @]
  /\ UNCHANGED <<committed, open, pending>>

(* The transaction ends without a commit: close, or the death of the       *)
(* process.                                                                *)
Rollback(p) ==
  /\ lock' = [lock EXCEPT ![p] = "none"]
  /\ open' = [open EXCEPT ![p] = FALSE]
  /\ pending' = [pending EXCEPT ![p] = << >>]
  /\ UNCHANGED committed

-----------------------------------------------------------------------------

Init ==
  /\ committed = << >>
  /\ pc = [p \in Runners |-> "closed"]
  /\ call = [p \in Runners |-> "experiment"]
  /\ steps = [p \in Runners |-> << >>]
  /\ seen = [p \in Runners |-> << >>]
  /\ row = [p \in Runners |-> None]
  /\ lock = [p \in Runners |-> "none"]
  /\ open = [p \in Runners |-> FALSE]
  /\ pending = [p \in Runners |-> << >>]
  /\ returned = [p \in Runners |-> None]
  /\ crashes = 0

Goto(p, target) == pc' = [pc EXCEPT ![p] = target]

(* The local variables of a call do not outlive it.                        *)
Forget(p) ==
  /\ call' = [call EXCEPT ![p] = "experiment"]
  /\ steps' = [steps EXCEPT ![p] = << >>]
  /\ seen' = [seen EXCEPT ![p] = << >>]
  /\ row' = [row EXCEPT ![p] = None]

-----------------------------------------------------------------------------
(* Mistakes the code could have made, each in place of the action or the   *)
(* guard it is named after; the specification uses none of them.           *)

(* the second cost check, before persistence, is missing                   *)
EvaluateUnchecked(p) ==
  /\ pc[p] = "evaluate"
  /\ \E value \in Values, cost \in Costs :
       row' = [row EXCEPT ![p] = [candidate |-> row[p].candidate, value |-> value, cost |-> cost]]
  /\ Goto(p, "insert")
  /\ UNCHANGED <<store, call, steps, seen, returned, crashes>>

(* the table has no UNIQUE (run_spec_fingerprint, candidate_id)            *)
InsertWithoutUnique(p) ==
  /\ pc[p] = "insert"
  /\ ~WriteLocked(p)
  /\ pending' = [pending EXCEPT ![p] = Append(@, row[p])]
  /\ lock' = [lock EXCEPT ![p] = IF @ = "pending" THEN @ ELSE "reserved"]
  /\ open' = [open EXCEPT ![p] = TRUE]
  /\ Goto(p, "commit")
  /\ UNCHANGED <<committed, local, returned, crashes>>

(* a COMMIT that gave up is taken for one that succeeded                   *)
CommitBusySwallowed(p) ==
  /\ pc[p] = "commit"
  /\ CommitBlocked(p) \/ \E q \in Others(p) : AtRead(q)
  /\ lock' = [lock EXCEPT ![p] = "pending"]
  /\ Goto(p, IF call[p] = "experiment" THEN "done" ELSE "capture")
  /\ UNCHANGED <<committed, open, pending, local, returned, crashes>>

(* leaving the with-block does not close the connection                    *)
CloseLeaksConnection(p) ==
  /\ pc[p] \in {"failed", "done"}
  /\ Forget(p)
  /\ Goto(p, "closed")
  /\ UNCHANGED <<store, returned, crashes>>

-----------------------------------------------------------------------------

(* with ExperimentStore(path) as store:                                    *)
Open(p) ==
  /\ pc[p] = "closed"
  /\ Goto(p, "ready")
  /\ UNCHANGED <<store, local, returned, crashes>>

(* run_workload_trace starts from an empty history.                        *)
BeginTrace(p) ==
  /\ pc[p] = "ready" /\ "trace" \in Calls
  /\ Read(p)
  /\ View(p) = << >>
  /\ call' = [call EXCEPT ![p] = "trace"]
  /\ Goto(p, "loop")
  /\ UNCHANGED <<steps, seen, row, returned, crashes>>

(* resume_workload_trace starts from a nonempty history within the count   *)
(* budget, every step of which it can reconstruct.                         *)
MayResume(history) ==
  /\ history # << >>
  /\ Len(history) <= CountBudget
  /\ Reconstructible(history)

BeginResume(p) ==
  /\ pc[p] = "ready" /\ "resume" \in Calls
  /\ Read(p)
  /\ MayResume(View(p))
  /\ call' = [call EXCEPT ![p] = "resume"]
  /\ steps' = [steps EXCEPT ![p] = View(p)]
  /\ Goto(p, "loop")
  /\ UNCHANGED <<seen, row, returned, crashes>>

(* Either of them refuses the history it read.                             *)
BeginRejected(p) ==
  /\ pc[p] = "ready"
  /\ Read(p)
  /\ \/ "trace" \in Calls /\ View(p) # << >>
     \/ "resume" \in Calls /\ ~MayResume(View(p))
  /\ Goto(p, "failed")
  /\ UNCHANGED <<local, returned, crashes>>

(* run_workload_experiment called by itself.                               *)
BeginExperiment(p) ==
  /\ pc[p] = "ready" /\ "experiment" \in Calls
  /\ Goto(p, "select")
  /\ UNCHANGED <<store, local, returned, crashes>>

(* The head of the loop of _continue_workload_trace.                       *)
Continue(p) ==
  /\ pc[p] = "loop"
  /\ StopReason(steps[p]) = Running
  /\ Goto(p, "select")
  /\ UNCHANGED <<store, local, returned, crashes>>

ReturnTrace(p) ==
  /\ pc[p] = "loop"
  /\ StopReason(steps[p]) # Running
  /\ returned' = [returned EXCEPT ![p] = [steps |-> steps[p], reason |-> StopReason(steps[p])]]
  /\ Goto(p, "done")
  /\ UNCHANGED <<store, local, crashes>>

(* The first half of run_workload_experiment: read the history, check the  *)
(* budgets and select.                                                     *)
Select(p) ==
  /\ pc[p] = "select"
  /\ Read(p)
  /\ MayExperiment(View(p))
  /\ \E c \in Candidates :
       /\ Picks(View(p), c)
       /\ row' = [row EXCEPT ![p] = [candidate |-> c]]
  /\ seen' = [seen EXCEPT ![p] = View(p)]
  /\ Goto(p, "evaluate")
  /\ UNCHANGED <<call, steps, returned, crashes>>

(* The budgets are exhausted, or the policy cannot select.                 *)
SelectFails(p) ==
  /\ pc[p] = "select"
  /\ Read(p)
  /\ ~(MayExperiment(View(p)) /\ \E c \in Candidates : Picks(View(p), c))
  /\ Goto(p, "failed")
  /\ UNCHANGED <<local, returned, crashes>>

(* A SELECT that waited too long for the lock.                             *)
ReadBusy(p) ==
  /\ AtRead(p)
  /\ ReadBlocked(p)
  /\ Goto(p, "failed")
  /\ UNCHANGED <<store, local, returned, crashes>>

(* adapter.evaluate returns; the observation fits the cost budget as the   *)
(* history read before the evaluation had spent it.                        *)
Evaluate(p) ==
  /\ pc[p] = "evaluate"
  /\ \E value \in Values, cost \in Costs :
       /\ Affordable(seen[p], cost)
       /\ row' = [row EXCEPT ![p] = [candidate |-> row[p].candidate,
                                     value |-> value, cost |-> cost]]
  /\ Goto(p, "insert")
  /\ UNCHANGED <<store, call, steps, seen, returned, crashes>>

(* The adapter raises, or the observation would exceed the cost budget.    *)
EvaluateFails(p) ==
  /\ pc[p] = "evaluate"
  /\ AdapterMayFail \/ \E cost \in Costs : ~Affordable(seen[p], cost)
  /\ Goto(p, "failed")
  /\ UNCHANGED <<store, local, returned, crashes>>

(* The INSERT: unique per RunSpec and candidate.                           *)
Insert(p) ==
  /\ pc[p] = "insert"
  /\ ~WriteLocked(p)
  /\ row[p].candidate \notin Completed(View(p))
  /\ pending' = [pending EXCEPT ![p] = Append(@, row[p])]
  /\ lock' = [lock EXCEPT ![p] = IF @ = "pending" THEN @ ELSE "reserved"]
  /\ open' = [open EXCEPT ![p] = TRUE]
  /\ Goto(p, "commit")
  /\ UNCHANGED <<committed, local, returned, crashes>>

(* IntegrityError: the transaction the INSERT opened stays open.           *)
InsertDuplicate(p) ==
  /\ pc[p] = "insert"
  /\ ~WriteLocked(p)
  /\ row[p].candidate \in Completed(View(p))
  /\ lock' = [lock EXCEPT ![p] = IF @ = "pending" THEN @ ELSE "reserved"]
  /\ open' = [open EXCEPT ![p] = TRUE]
  /\ Goto(p, "failed")
  /\ UNCHANGED <<committed, pending, local, returned, crashes>>

(* OperationalError: database is locked.  BEGIN has succeeded all the same. *)
InsertBusy(p) ==
  /\ pc[p] = "insert"
  /\ WriteLocked(p)
  /\ open' = [open EXCEPT ![p] = TRUE]
  /\ Goto(p, "failed")
  /\ UNCHANGED <<committed, lock, pending, local, returned, crashes>>

Commit(p) ==
  /\ pc[p] = "commit"
  /\ ~CommitBlocked(p)
  /\ committed' = View(p)
  /\ pending' = [pending EXCEPT ![p] = << >>]
  /\ lock' = [lock EXCEPT ![p] = "none"]
  /\ open' = [open EXCEPT ![p] = FALSE]
  /\ Goto(p, IF call[p] = "experiment" THEN "done" ELSE "capture")
  /\ seen' = [seen EXCEPT ![p] = << >>]
  /\ UNCHANGED <<call, steps, row, returned, crashes>>

(* A COMMIT that waited too long for a reader keeps PENDING and its rows.  *)
CommitBusy(p) ==
  /\ pc[p] = "commit"
  /\ CommitBlocked(p) \/ \E q \in Others(p) : AtRead(q)
  /\ lock' = [lock EXCEPT ![p] = "pending"]
  /\ Goto(p, "failed")
  /\ UNCHANGED <<committed, open, pending, local, returned, crashes>>

(* The loop captures the record its experiment returned after the steps it *)
(* has itself accumulated.                                                 *)
Capture(p) ==
  /\ pc[p] = "capture"
  /\ Capturable(steps[p], row[p])
  /\ steps' = [steps EXCEPT ![p] = Append(@, row[p])]
  /\ row' = [row EXCEPT ![p] = None]
  /\ Goto(p, "loop")
  /\ UNCHANGED <<store, call, seen, returned, crashes>>

(* The capture refuses a record that is already persisted.                 *)
CaptureRejected(p) ==
  /\ pc[p] = "capture"
  /\ ~Capturable(steps[p], row[p])
  /\ Goto(p, "failed")
  /\ UNCHANGED <<store, local, returned, crashes>>

(* The caller leaves the with-block.                                       *)
Close(p) ==
  /\ pc[p] \in {"failed", "done"}
  /\ Rollback(p)
  /\ Forget(p)
  /\ Goto(p, "closed")
  /\ UNCHANGED <<returned, crashes>>

(* The caller calls again on the same store, after a call that returned or, *)
(* catching its exception, after one that failed.                          *)
CallAgain(p) ==
  /\ pc[p] = "done" \/ (RetryInPlace /\ pc[p] = "failed")
  /\ Forget(p)
  /\ Goto(p, "ready")
  /\ UNCHANGED <<store, returned, crashes>>

Crash(p) ==
  /\ crashes < MaxCrashes
  /\ pc[p] # "closed"
  /\ crashes' = crashes + 1
  /\ Rollback(p)
  /\ Forget(p)
  /\ Goto(p, "closed")
  /\ UNCHANGED returned

-----------------------------------------------------------------------------

(* The steps of a call, and of the with-block around it.                   *)
Advance(p) ==
  \/ Open(p)
  \/ BeginTrace(p) \/ BeginResume(p) \/ BeginExperiment(p) \/ BeginRejected(p)
  \/ Continue(p) \/ ReturnTrace(p)
  \/ Select(p) \/ SelectFails(p) \/ ReadBusy(p)
  \/ Evaluate(p) \/ EvaluateFails(p)
  \/ Insert(p) \/ InsertDuplicate(p) \/ InsertBusy(p)
  \/ Commit(p) \/ CommitBusy(p)
  \/ Capture(p) \/ CaptureRejected(p)
  \/ Close(p)

Next == \E p \in Runners : Advance(p) \/ CallAgain(p) \/ Crash(p)

Spec == Init /\ [][Next]_vars

(* Callers keep calling, and between failures try both entry points; a     *)
(* statement, an adapter or a COMMIT does not hang, and a SELECT of a few  *)
(* rows does not outlast the busy timeout of a COMMIT every time.          *)
Fairness ==
  \A p \in Runners :
    /\ WF_vars(Advance(p))
    /\ SF_vars(BeginTrace(p))
    /\ SF_vars(BeginResume(p))
    /\ SF_vars(Commit(p))

FairSpec == Spec /\ Fairness

-----------------------------------------------------------------------------

PCs == {"closed", "ready", "loop", "select", "evaluate", "insert", "commit",
        "capture", "failed", "done"}
Locks == {"none", "shared", "reserved", "pending"}
Trace == [steps : Seq(Record), reason : StopReasons]

(* Every variable has its type: rows are completed records of the RunSpec, *)
(* and an answer is a trace with one of the three stop reasons.            *)
TypeOK ==
  /\ committed \in Seq(Record)
  /\ pc \in [Runners -> PCs]
  /\ call \in [Runners -> {"trace", "resume", "experiment"}]
  /\ steps \in [Runners -> Seq(Record)]
  /\ seen \in [Runners -> Seq(Record)]
  /\ row \in [Runners -> {None} \cup [candidate : Candidates] \cup Record]
  /\ \A p \in Runners :
       /\ pc[p] = "evaluate" => row[p] \in [candidate : Candidates]
       /\ pc[p] \in {"insert", "commit", "capture"} => row[p] \in Record
  /\ lock \in [Runners -> Locks]
  /\ open \in [Runners -> BOOLEAN]
  /\ pending \in [Runners -> Seq(Record)]
  /\ returned \in [Runners -> {None} \cup Trace]
  /\ crashes \in 0 .. MaxCrashes

(* The persisted history is what one runner executing the policy alone     *)
(* would have persisted: every row is the policy's pick after exactly the  *)
(* rows before it, started and paid within both budgets.  No lock orders   *)
(* the runners between their read and their insert; the uniqueness of a    *)
(* candidate and the determinism of the policy must do it.                 *)
PolicyOrder == Follows(committed)

Writing(p) == lock[p] \in {"reserved", "pending"}

(* One connection holds the write lock at a time, and only it has          *)
(* uncommitted rows.                                                       *)
SingleWriter ==
  /\ \A p, q \in Runners : Writing(p) /\ Writing(q) => p = q
  /\ \A p \in Runners : pending[p] # << >> => Writing(p)

(* A runner on its way to an insert selected and paid from a history that  *)
(* others may have extended since.                                         *)
SelectedFromPrefix ==
  \A p \in Runners : pc[p] \in {"evaluate", "insert"} =>
    /\ Len(seen[p]) <= Len(View(p))
    /\ seen[p] = Prefix(View(p), Len(seen[p]))
    /\ MayExperiment(seen[p])
    /\ Picks(seen[p], row[p].candidate)
    /\ pc[p] = "insert" => Affordable(seen[p], row[p].cost)

(* The row a runner is about to commit was selected and paid for from      *)
(* exactly the history it extends, not from one another runner overtook.   *)
InsertedFromCurrentHistory ==
  \A p \in Runners : pc[p] = "commit" => View(p) = Append(seen[p], row[p])

(* The inductive invariant: what every connection sees, its own            *)
(* uncommitted rows included, follows the policy.                          *)
RunnerInv ==
  /\ TypeOK
  /\ PolicyOrder
  /\ \A p \in Runners : Follows(View(p))
  /\ SingleWriter
  /\ SelectedFromPrefix
  /\ InsertedFromCurrentHistory
  /\ \A p \in Runners : pc[p] = "commit" => Writing(p)

(* resume_workload_trace can reconstruct every history a runner persists.  *)
PersistedIsReconstructible == Reconstructible(committed)

(* No row is inserted that takes the cumulative cost, as a trace computes  *)
(* it, over the budget.                                                    *)
PersistedWithinCostBudget == ~CostExceeded(RunningCost(committed))

(* Every completed step of an information-gain run has a belief lineage.   *)
CompletedStepHasLineage ==
  \A i \in DOMAIN committed : HasLineage(Prefix(committed, i - 1), committed[i])

(* Every caller that keeps calling eventually holds a returned trace.      *)
EveryCallerAnswered == \A p \in Runners : <>(returned[p] # None)

(* The runners together implement the single-runner promise.               *)
Promise == INSTANCE PolicyHistory WITH history <- committed, answers <- returned
ImplementsPromise == Promise!Spec

=============================================================================
