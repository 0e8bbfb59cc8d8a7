# A verification project for RDE Core

Research Decision Engine Core (RDE Core) is a local Python library that runs a bounded, sequential
choice of experiments over a finite candidate set: a deterministic policy picks a candidate, a
trusted workload adapter evaluates it, the result is persisted in SQLite, and the finished trace can
be exported as a RunBundle that others verify and replay. This directory holds TLA+ models of the
parts of it whose correctness depends on interleavings, crashes, rounding or retries, the TLC
configurations that check them on small instances, and TLAPS proofs of the most important results.

Paths such as `runner.py` are relative to `src/research_decision_engine/`.

## 1. The system

| Part | State | Operations | Interacts with |
|---|---|---|---|
| Workload runner (`runner.py`) | none of its own; locals of a call | `run_workload_experiment`, `run_workload_trace`, `resume_workload_trace`, and their `_v2`, `_v3` forms | reads and writes the store, calls the policy and the adapter, captures bundle steps |
| Policies (`policies.py`, `generic_policies.py`, `information_gain_table.py`) | none: every pick is a function of the history | select, lineage | called by the runner, by the capture and by replay |
| Experiment store (`storage.py`) | the SQLite file, one connection per `with` block | open, `init_schema` and its six migration edges, add and list | shared by every process that opens the file |
| Optimizer reasoning (`optimizer_effect.py`, `reasoning.py`, `evidence_eligibility.py`) | hypotheses, evidence, belief states and updates in the store | `ensure_optimizer_reasoning`, `synchronize_optimizer_reasoning`, `add_reasoning_step` | driven by `run_next` and by both suggestion entry points |
| Suggestions (`decision.py`, `lookahead.py`) | decision traces in the store | rank candidates, persist a trace | read the belief state and the completed experiments |
| RunBundle (`run_bundle.py`, `_v2`, `_v3`) | a published directory | capture a step, export, verify, replay | capture is called by the runner's loop |
| Adapters (`adapters.py`, `command_adapter.py`) | a child process and its temporary files | evaluate | called by the runner between its read and its insert |
| Robust beliefs (`belief_models.py`, `calibration.py`, `robust_storage.py`, `closed_loop.py`) | model lineages and cost ledgers in the store | register, calibrate, update, decide | benchmarks |
| Broader-replication lifecycle (`benchmarks/broader_lifecycle*.py`) | a canonical directory, a ledger directory, staging, a study lock | issue, claim, finalize, fail, recover, classify, retry | every reader of the publication |
| Study execution and analysis (the other `benchmarks/broader_*.py`) | artifacts in memory | build, validate, assemble | feed the lifecycle |
| Benchmarks (`evaluation.py`, `paired_evaluation.py`, ...) | results in memory | run policies over synthetic worlds | use policies and reasoning |
| Core contract and release check (`core_*.py`), CLI (`cli.py`) | none | compare packaged files with a recorded contract; parse arguments | call everything above |

### What is hard to test

* **No lock between read and insert.** A runner reads the history, lets the policy pick, runs user
  code for as long as it takes, and only then inserts. Nothing orders it against another runner
  except `UNIQUE (run_spec_fingerprint, candidate_id)`.
* **Two sums.** The check before an insert uses the built-in `sum()`, which compensates rounding
  errors on the interpreter the project requires (CPython 3.12); the trace, the bundle and its
  verification accumulate with `+`. They disagree at a budget boundary.
* **Failures that leave a transaction open.** `add_workload_experiment` neither commits nor rolls
  back when a statement or its COMMIT raises. The connection keeps its lock and its row until closed.
* **Persist first, derive later.** The v3 runner persists an observation and computes its belief
  lineage afterwards; `run_next` commits a record and synchronizes the beliefs afterwards.
* **Migrations by several openers**, each edge in its own transaction, with a crash between edges.
* **Evidence applied once** although two processes may derive it from the same records.
* **Publication without replacement** of bundles and study records, with crashes between the steps.
  A verification looks at a directory several times, and what it looks at may change in between.
* **Documents resealed after an edit.** Every digest of a bundle can be recomputed by whoever edits
  it, so verification has to derive the content again, not compare digests only.
* **A child process** that may outlive its timeout, its termination and its kill, and descendants of
  it that go on writing through a file offset they share with the parent.
* **One arm's knowledge in another arm.** The closed loop runs several arms over one world; costs,
  beliefs and the estimated noise of a group must come from the past of the same arm only.
* **A tolerance on one side.** The closed loop forgives a budget excess of 1e-12, its policies none.


### What makes each component correct

* Runner: the persisted history is the one a single runner executing the policy alone would have
  produced; a returned trace is a prefix of it; a persisted history can always be resumed; every
  caller that keeps calling is eventually answered.
* Store: concurrent openers of any old database end at the current version with each edge applied
  exactly once; a crash leaves a complete version.
* Reasoning: the belief lineage is a chain, each piece of evidence is applied once, and every matched
  pair is eventually applied.
* Adapter: an observation is the whole output of a child that ended by itself with code 0; every call
  is answered, with one verdict in a fixed precedence; no child is left behind untried and unreported.
* RunBundle: what is exported is what an honest run would have produced, and nothing else is accepted;
  replay agrees with verification; exactly one of several exports or replays publishes, a failed one
  leaves nothing, and a verification vouches only for something that really stood there.
* Closed loop: a decision is the best affordable plan and the next decision keeps it; sigma comes from
  the arm's own past; arms do not influence one another; an arm stops only for a true reason.
* Lifecycle: at most one success per study; a reader selects only complete publications; recovery
  and retry never contradict a durable record.

## 2. Plan

| # | Module | Models | Status |
|---|---|---|---|
| 1 | `CostArithmetic`, `Policies`, `Budgets` | the pure functions: rounding, picks, beliefs, budget checks | done |
| 2 | `PolicyHistory` (abstract), `WorkloadRunner` | runners sharing a store; refinement | done |
| 3 | `WorkloadRunner_proofs` | the runner's inductive invariant, its refinement | done |
| 4 | `Schema`, `SchemaLadder` (abstract), `SchemaMigration`, `SchemaMigration_proofs` | `init_schema` by several openers, crash between edges; atomicity and refinement proved | done |
| 5 | `ReasoningLedger` (abstract), `OptimizerReasoning`, `OptimizerReasoning_proofs` | `run_next`, suggestions, synchronization by several processes; one belief chain, refinement proved | done |
| 6 | `AdapterContract` (abstract), `CommandChild`, `CommandChild_proofs` | one call of the command adapter, its child, a descendant, the user; safety and refinement proved | done |
| 7 | `PublicationLedger` (abstract), `BundleExport`, `BundleReplay`, `BundleExport_proofs`, `BundleReplay_proofs` | publication of a bundle and of a replayed database, system call by system call; both refine the ledger; both proved | done |
| 8 | `BundleContract`, `BundleContract_proofs` | what a document may say: capture, export, verification and replay of three versions, edits; soundness of export, verification and replay proved, and completeness of export | done |
| 9 | `Planner`, `ClosedLoop`, `ClosedLoop_proofs` | one- and two-step information gain; arms, oracle, sigma, budgets; beliefs, stop reasons, isolation of the arms and the lookahead plans proved | done |
| 10 | `StudyLifecycle` | attempt, claim, finalize, fail, recover, retry, read of the broader study | left |
| 11 | lookahead plan traces in `OptimizerReasoning`; `robust_storage.py` | stored plans; a second belief store of the same shape | left |

Left to TLC, and why: liveness (section 11). Every other property of the passing runs is the subject of
a theorem.

## 3. The runner and its store

`WorkloadRunner` has one copy of the locals of a call per runner (`pc`, `call`, `steps`, `seen`,
`row`) and the state of one SQLite file: the committed rows (`committed`), and per connection its
lock, its open transaction and its uncommitted rows.

| Action | Code |
|---|---|
| `Open`, `Close` | `ExperimentStore.__enter__`, `__exit__` (closing rolls back) |
| `BeginTrace`, `BeginResume`, `BeginRejected` | the head of `run_workload_trace` and `resume_workload_trace` |
| `BeginExperiment` | `run_workload_experiment` called by itself |
| `Continue`, `ReturnTrace` | the head of the loop of `_continue_workload_trace` |
| `Select`, `SelectFails`, `ReadBusy` | `run_workload_experiment` up to the adapter call |
| `Evaluate`, `EvaluateFails` | `adapter.evaluate` and the second cost check |
| `Insert`, `InsertDuplicate`, `InsertBusy`, `Commit`, `CommitBusy` | `add_workload_experiment` |
| `Capture`, `CaptureRejected` | `_run_bundle_step_from_completion` and its v2 and v3 forms |
| `CallAgain` | a caller that uses the same store for another call |
| `Crash` | the process dies |

The v1, v2 and v3 entry points have the same control; they differ in the policy, the constant
`PolicyId`. SQLite is external and modelled from its use: Python's deferred transactions under a
rollback journal. A busy lock may be waited for (no step) or given up on (`...Busy`).

A candidate is its position in the RunSpec, costs are integers counting some smallest unit, and a
float is an integer with at most `SignificandBits` significant bits: with 12 bits all sums of a run
are exact, with 2 or 3 they round, which is how `CostArithmetic` brings the disagreement of the two
sums within reach. The decimal score of the information-gain policy is the constant operator `Gain`;
its integer beliefs are modelled exactly. Out of the model: identity checks of adapter and RunSpec
(callers pass matching ones), non-finite costs, and the wording of errors.

| Run | Question | Instance |
|---|---|---|
| `runner_races` | With budgets, failing adapters, retries on a connection with an open transaction and a crash: does the history follow the policy, and can it always be resumed? | 2 runners, information gain, 3 candidates, 2 values, cost 2, count budget 3, cost budget 5, all three entry points |
| `runner_liveness` | Do the runners implement `PolicyHistory`, is the RunSpec finished, and is every caller answered? | 2 runners, seeded random policy, 3 candidates, 1 crash, fair |

Two runners suffice for every pairwise race, and the theorem below holds for any number. Three
candidates let a runner be overtaken once and twice. One crash may happen at every control point.

**Fairness.** `FairSpec` has weak fairness of each runner's `Advance` - the code is sequential and no
statement, adapter or COMMIT hangs for ever - and strong fairness of `BeginTrace` and `BeginResume`:
a caller keeps trying both entry points, as a caller that is refused by one is told to - and of
`Commit`: a COMMIT gives up only when another connection has been inside a SELECT of a few rows for
the whole busy timeout, which does not happen every time. `CallAgain` and `Crash` are not fair.

`WorkloadRunner_proofs`, for every set of runners, every RunSpec, every policy constant and every
precision:

* `TypeCorrect`: `Spec => []TypeOK`, and `RunnerInvariant`: `Spec => []RunnerInv`, the inductive
  invariant that `runner_races` checks.
* `HistoryFollowsPolicy`: `Spec => [](PolicyOrder /\ InsertedFromCurrentHistory)`. Every persisted row
  is the policy's pick after exactly the rows before it, and an insert extends exactly the history its
  runner had read, although no lock makes it so. `RunnerInv` says what every connection sees (its own
  uncommitted rows included) follows the policy, one connection writes at a time, and a runner between
  selection and insert selected from a prefix of what it would see now. The step that matters is
  `Insert`: if the history had grown since, the row at the position of the stale pick is itself the
  policy's pick after the same prefix (`PicksDeterministic`), hence the same candidate, and the
  uniqueness constraint refuses it (`AbsentPickIsCurrent`).
* `PromiseIsKept`: `Spec => ImplementsPromise`, the refinement of `PolicyHistory`, whose constants are
  instantiated with the operators of `Budgets`. It adds to `RunnerInv` that what a runner has captured is how the
  persisted history begins, and the record it is about to capture is part of the rest (`Caught`); since
  candidates are distinct and picks deterministic, a capture that is accepted is the next row, and a
  trace that has stopped is all there is. Two hypotheses: `~RetryInPlace`, without which one commit may
  publish the row of an earlier, failed commit as well, and `CostsAgree` (no cost budget, or both sums
  of the code agree on every history within the count budget), without which `finding_over_budget`
  shows what happens.
* `PersistedCanBeResumed`: `PersistedIsReconstructible`, and that `resume_workload_trace` accepts every
  nonempty persisted history, given `CostsAgree` and `OutcomesAreForeseen` (an admissible record is
  never impossible under the belief before it). The two findings of this part violate one of these
  each, so the theorem says that there is no third reason. Both hypotheses hold in the instance of
  `runner_races`.

The proofs assume `PolicyAssumption`, `GainAssumption`, `BudgetAssumption`, `SignificandAssumption`
and `RunnerAssumption`, which state what RunSpec validation enforces. TLC evaluates them in every run.
Model-checked only: `EveryCallerAnswered`, which is liveness.

## 4. Opening a database: the schema ladder

`Schema` describes a database by its version, its canonical objects, what else it holds and whether
it is intact. An edge of the migration introduces the objects of one version (`Edge`), and a version
is `Sound` when it holds exactly what its version says, as `_validate_schema_for_version` checks.
`SchemaLadder` is the promise: a sound database climbs one complete rung at a time, an unsound one is
never touched. `SchemaMigration` is the code: openers that each run `init_schema`, and one file.

| Action | Code |
|---|---|
| `InitSchema`, `RejectVersion` | `init_schema` reads `user_version` and validates its range |
| `Precheck`, `PrecheckRaises` | the head of `_migrate_one_step`, before the lock |
| `Acquire`, `AcquireLost`, `AcquireInvalid`, `AcquireBusy` | BEGIN IMMEDIATE, the version again, the validation |
| `Execute`, `AdvanceVersion`, `Commit`, `EdgeFails` | the statements of an edge one by one, `PRAGMA user_version`, COMMIT, rollback |
| `Reread`, `Finish`, `Retry`, `Crash` | the loop of `init_schema`, its end, a caller's new attempt, the death of a process |

The number and text of the SQL statements is abstracted to the objects they create.

`migration_races` starts from every kind of sound and unsound database - new, legacy, each version
with a foreign object; versions out of range, objects missing, misplaced, altered, corruption - with
two openers and two failures. It checks `MigrationInv`, of which `FailsClosed` matters because
`CREATE ... IF NOT EXISTS` would silently repair a wrong file; that the file `ClimbsTheLadder`; and
that every opener of a sound file ends up initialized, under weak fairness of each opener's `Step`: no
statement hangs, and a caller whose call failed tries again (failures and crashes are bounded by
`MaxFailures`). Openers are finite programs, so two suffice for each race over an edge, and two
failures allow one per opener or a retry that fails.

`SchemaMigration_proofs` proves, for any ladder, any openers and any number of failures, the invariant
(`MigrationInvariant`), atomicity and fail-closedness (`MigrationIsAtomic`), that a returned
`init_schema` means the latest schema (`InitSchemaDelivers`), and that the openers implement
`SchemaLadder` (`MigrationRefinesLadder`). `MigrationInv` is inductive because it also says what the
open transaction contains (`WorkInProgress`: exactly the statements executed so far over the database
it began with) and that a version an opener knows is true or past, never ahead (`KnownIsPast`);
without them a commit could not be shown to be one rung.

## 5. Optimizer reasoning

The commands `init`, `suggest` and `run` open the database, synchronize the beliefs, and then act.
Processes share nothing but the file. `ReasoningLedger` is the promise: an append-only history without
a candidate twice, and a lineage that consumes each completed pair at most once. `OptimizerReasoning`
has the tables (`completed`, `registered`, `belief`, `evidence`, `traces`) and per process the stages
its command has left (`todo`, from `Plan`) and the locals of the running function.

| Action | Code |
|---|---|
| `Call` | `main`, with the stages of the command |
| `FindHypotheses`, `RegisterHypotheses`, `RegisterDuplicate` | `register_hypotheses` |
| `ReadCurrent`, `CheckInitial...`, `AddInitial...` | `ensure_optimizer_reasoning`, `add_initial_belief_state` |
| `ListCompleted`, `ListEvidence`, `SkipApplied`, `Update`, `Synchronized` | `synchronize_optimizer_reasoning` |
| `CheckStep`, `CheckStepRaises`, `AddReasoningStep`, `AddReasoningDuplicate` | `add_reasoning_step`: its checks, then its transaction |
| `ReadBelief`, `ListForDecision`, `Decide`, `NothingFeasible` | `suggest_information_gain`, `InformationGainPolicy.decide` |
| `TraceStored`, `TraceMissing`, `AddTrace`, `AddTraceDuplicate` | `add_decision_trace` |
| `Choose`, `NothingLeft` | the random and greedy policies |
| `AddRecord`, `AddRecordDuplicate` | `add_record` in `run_next` |
| `Fails` | a busy timeout or the death of the process; the transaction is rolled back |

Each statement outside a transaction, and each transaction, is one step: SQLite serializes writers,
and a transaction here begins with its first insert. A belief state id hashes its parent and its
evidence, so the state is the sequence of groups it consumed; the probabilities are abstracted to the
constant `Conclusive`, the beliefs whose information gain is below the tolerance. A `--max-cost` is
the set of candidates within it (`Limits`), costs are their order (`Rank`). Greedy prediction is
abstracted to any candidate not completed. How lookahead ranks is in `Planner` (section 9); its stored
plan traces are not modelled.

| Run | Question | Instance |
|---|---|---|
| `reasoning_races` | Do racing calls keep one chain of beliefs and refine `ReasoningLedger`, and does a suggestion never repeat a consumed pair? | 2 processes (symmetric), information-gain and random commands, 2 groups, 4 calls, so two pairs can be pending at once |
| `reasoning_liveness` | Is every completed pair consumed in the end? | 2 processes that go on calling the random command, 1 failure |

Four runs are needed to complete both pairs. **Fairness** is weak fairness of each process's `Step`:
no statement hangs, a call that failed is followed by another. A synchronizer that loses a race
raises; only because the next command synchronizes again is the pair consumed.

`OptimizerReasoning_proofs`, for any numbers of groups, processes, calls and failures:
`BeliefsFormOneChain` (the belief a process holds is always an ancestor of the current one, and no
racing synchronizer forks the chain), `SuggestionsAreUnspent`, and `CallsImplementLedger`. The
inductive invariant `OneChain` says in addition that the evidence table holds exactly what the current
belief consumed (`EvidenceIsConsumed`) and what each call knows of the store at each stage
(`CallsKnow`). The decisive step is `AddReasoningStep`: between check and insert the chain may have
grown, and then its sequence number is taken.

## 6. The command adapter

`CommandChild` is one call of `CommandAdapter.evaluate`; beside the parent move the child, a
descendant that inherited the output files, and the user. `AdapterContract` is what
`COMMAND_ADAPTER.md` promises: the verdict is a function of what the child left when it ended, in one
order of precedence, or one of the failures that return nothing of it.

| Action | Code |
|---|---|
| `Build`, `Prepare` | the builder, the validation of the invocation, the repository test, the temporary directory |
| `Start`, `EnterWait`, `Wait` | `Popen`, `process.wait(timeout)` |
| `Poll`, `Terminate`, `GraceWait`, `Kill`, `KillWait`, `Reap` | `_terminate_and_reap` |
| `SizeStdout`, `SizeStderr` | both sizes, then both limits, before anything is read and before the return code counts |
| `SeekStdout`, `ReadStdout`, `SeekStderr`, `ReadStderr` | `_read_exact` |
| `CleanUp`, `Finish`, `Decode` | the end of the `with` block, the return code, `_decode_observation` |
| `Interrupt`, `InterruptUnreaped` | `KeyboardInterrupt` anywhere |
| `ChildWrite`, `DescendantWrite`, `ChildEnds`, `ChildIsTerminated`, `ChildIsKilled` | the environment |

Parent, child and descendant share one open file description, so a file is its lines and one offset,
and a read moves the place where a descendant writes. A line stands for canonical text of an
observation or for one of the ways in which a text is not.
An error of `poll` or `wait` on a child that has
already ended (`command_adapter.py:355-356`, `363-364`, `375-379`) is left out: the operating system can
refuse to signal a child in the model, but not to report its end.

`command_child` covers six invocations (valid, inside a repository, without a directory, and three
that validation refuses), three places (one whose temporary directory cannot be removed, one whose
parent is inside a repository), two writes of the child, one late write of a descendant and two
interrupts: one interrupts the wait, the second the reaping. A child may ignore `terminate`, refuse
signals, or end at the very deadline. The contract is promised for at most one late write: with two,
a descendant can replace the text between measurement and reading by another of equal length.
**Fairness** is weak fairness of the parent's own steps, in which every wait is bounded, and of the
delivery of a kill by the kernel; nothing is assumed of the child. The bounds on writes and interrupts
exist only for TLC: `CommandChild_proofs` proves for any of them

* `EvaluateIsSafe`, `Spec => []ChildInv`: an observation is the whole output of a child that returned
  0 (when at most one late write happened), a reported reaping is true, and nothing is left behind;
* `ChildIsAccountedFor`: a child that is left behind was killed or refused signals, and the answer
  says so, unless the user struck in the two places where nothing can be done;
* `EvaluateKeepsContract`: every step is a step of `AdapterContract` or a stutter, for at most one
  late write.

The inductive invariant `CallInv` adds to `ChildInv` where the child is at each stage (`ChildKnown`),
what the parent knows of reaping, directory and verdict, that no offset is past the end of its file
(`WithinFiles`), and what one late write can have made of stdout at each stage (`OutputKnown`). That
every call is answered and that a timed-out child goes are only model-checked: they are liveness.

## 7. RunBundle: getting to disk

`BundleExport` and `BundleReplay` model a call as a program: `todo` is the sequence of system calls it
has left, each a step, so that any two calls interleave between any two of them. The versions of the
functions are different programs (`ExportV1` to `V3`, `VerifyV1` to `V3`, `ReplayV1` to `V3`), which
differ in what they look at again and in which order. A file or directory is known by its identity
(device and inode), which says who created it. An error of a system call or an interrupt (before the
effect, after it, or after it without the caller learning the identity) starts the cleanup of the
call; a kill runs nothing more. An operator may remove or replace what stands there.
Identities are never reused in
the model, whereas the operating system may give an inode number again once a cleanup has freed it;
what the modules say of "the same file" rests on that.

| Action | Code |
|---|---|
| `Exists`, `MakeStaging`, `WriteMembers`, `VerifyStaging` | `export_run_bundle` up to the rename |
| `Publish`, `Confirm`, `Done` | the rename without replacement, the identity check, the result |
| `Open`, `Root`, `Inventory`, `OpenMemberGuards`, `Read`, `...Again` | `verify_run_bundle` and its two passes |
| `Discard`, `Look`, `CheckMember`, `UnlinkMember`, `Remaining`, `RemoveRoot`, `Fail` | the cleanups |
| `LookAndEnter`, `Identify`, `MakeTemporary`, `Fill`, `Link`, `Unlink`, `Single`, `Alone` | `replay_run_bundle` |
| `Interrupted...`, `CleanupFails`, `Crash`, `Edit` | errors, interrupts, kills, the operator |

`PublicationLedger` is the promise of both: one thing stands at the destination, a call publishes only
where the name is free, withdraws only its own and only until it has answered, and an answer stays
true. A call that is killed or whose cleanup meets an error promises nothing. Once somebody has
meddled a withdrawal may remove what is not the caller's: a cleanup looks at the name and removes it
afterwards, so after one edit a replay can remove what another published in between. The run's bounds
are too small for that; larger ones (`MaxTrouble = 4`) show it, and the proof needs the ledger to say it.

| Run | Question | Instance |
|---|---|---|
| `bundle_export` | Is a verification honest and does it accept what is stable; does a failed export leave nothing; does exactly one succeed; is the ledger kept? | exporters of v1 and v2 and a v1 verifier, one fault, trouble 2 |
| `bundle_replay` | Does at most one replay succeed with exactly its database, does a failed one leave nothing, do others' files stay? | v1+v2, v2+v3, v3+v3, directory given or not, two faults, trouble 2 |

`MaxTrouble` bounds faults and edits together and an edit counts for two, so the operator never races
a call that is failing: `RUNBUNDLE.md:198-199` disclaims a concurrent namespace adversary. Two calls
suffice because each step concerns the caller and one other. Both runs disable the deadlock check,
because every call ends. The Windows branches are not modelled.

`BundleExport_proofs` proves, for any number of exporters, verifiers, faults and edits:

| Theorem | Establishes |
|---|---|
| `Foundation` | the form of the state (`Typed`) and who owns what (`Owners`) |
| `DestinationStaysWhole` | `ExportInv` |
| `NothingIsLeft` | `FailedLeavesNothing` |
| `OneIsPublished` | `ExactlyOneExport` |
| `StableIsAccepted` | `StableBundleIsAccepted` |
| `TwoEditsDoNotMislead` | `VerificationIsHonest`, whatever fails, as long as nobody edits more than twice |
| `LedgerIsKept` | `ImplementsLedger`: every step, edits included, is a step of the ledger or a stutter |

The invariants are layered. `Typed` says that what a call has left to do is a suffix of its program or
of its cleanup, and what a call has captured by each stage. `Owners` says for each exporter, by stage,
which of its directory and members exist, under which name, and that identities are never shared.
Every action is first put into one of a few shapes (`Quiet`: it only looks, answers or is struck;
`Loud`: it makes, renames, unlinks or removes something, with exactly what changes), so that each
further layer has a step per shape and not one per action. `Fresh` holds while nobody meddles: nothing
but the exporters' own files stands anywhere and a cleanup removes only its own, which gives
`ExportInv` and `FailedLeavesNothing`. `Attested` (what an export verifies is its own bundle) and
`Contest` (an unstruck export that has renamed goes through to success) give `ExactlyOneExport`.
`Matches`, which survives edits, says that the captures of a verification agree with every bundle that
has stood untouched since it began.

The refinement has two halves. While nobody meddles, `Fresh` and `Attested` say that what stands at the
destination is present and what a cleanup removes is its own. After an edit only `Homes` (the files of
an exporter stay in the directory it made) and `Freed` (a cleanup without errors that has passed a
member leaves none of its own at the destination) are left; both survive any edit, and the ledger then
asks for no more.

`VerificationIsHonest` does not survive every edit. A verification looks at one member after the
other, so three edits that change the second member after it was read, then the first one after it was
read again, and then restore the second, show it a bundle that did not stand there at any moment of its
final pass (TLC finds this with `MaxTrouble = 6` and no fault). With at most two edits it holds, and that is proved; the
run, with one edit, checks part of it. The argument: a file is in one place only (`Located`), what has
been read of a member is of the file that was identified (`Recorded`), nothing has been identified that
is still to be made (`Known`), and while nobody edits all bytes are their exporter's (`Genuine`). So what
a verification is about to confirm either has stood whole during its final pass, or the call is lost,
because something it has yet to find again is gone and no edit is left to bring it back (`Doomed`), or
it needs the second edit, and that edit makes the whole bundle stand (`Poised`).

`BundleReplay_proofs` proves everything `bundle_replay` checks, for any number of replays of any
versions, faults and edits:

| Theorem | Establishes |
|---|---|
| `Foundation` | `Typed` and `Loose`: the form of the state and what survives any edit |
| `Grip`, `Fairness` | `Tight` while nobody edits; `Fair` while moreover nothing fails |
| `ReplayIsSound` | `ReplayInv` |
| `OneSucceeds` | `OneReplaySucceeds` |
| `NothingIsLeft` | `FailedReplayLeavesNothing` |
| `ForeignStays` | `ForeignFilesStay` |
| `Freeing` | a cleanup that has passed the published name leaves nothing of its own there, whatever is edited |
| `LedgerIsKept` | `ImplementsLedger`: every step, edits included, is a step of the ledger or a stutter |

`Typed` orders the stages of the three programs by milestones (`Rest`, `Past`) instead of by position,
so that one argument serves all versions. `Loose` is what no edit can break: a temporary name refers to
what its call made or to the operator's file, and a published file is filled. `Tight` needs that nobody
edits: the names of a call refer to its own file from `mkstemp` to `unlink` (`Stands`), a cleanup
removes what is its own (`Removes`), a directory goes with the call that made it unless others are in it
(`Directory`, `Joins`). `Fair` says that a call that failed has met one that goes on. As for the export,
actions are first put into a few shapes (`Acts`), and each layer has a step per shape.

`FailedReplayLeavesNothing` was false of more than two replays before the proof: a call whose directory
was removed and made again by others puts its temporary file into theirs, by the path, and a third that
fails keeps its directory for it. The history variable `joined` therefore records that too
(`EnterByPath`); two replays, as in the run, never show it.

## 8. RunBundle: what a document says

`BundleContract` runs a RunSpec (`Complete`), makes a trace with any stop reason (`MakeTrace`),
exports, verifies under any version and replays. In between anybody may edit: the trace through the
constructors of its steps (`EditTrace`; `ClosedV1` to `V3` are what `__post_init__` checks), or the
document (`EditDocument`), and may afterwards recompute every digest that follows (`Reseal`). A digest
is a tag with what it digests. `Capture`, `ValidDocument` and `Replayed` follow the three versions
separately, as the code does; each computes the policy's decision in its own way.
The wording that is refused (`Clean`) is one mark for all versions, although they search differently (v2
exempts the keys of the utility map, v3 skips all keys and also matches drives, roots and `file:`
forms); what is refused matters here, not which strings are.

`bundle_contract` has six RunSpecs (two of each version, of all policies and budgets, two of them with
a wording that is refused), three candidates, two values, two costs and one edit, of which there are
hundreds per document. The properties say that every honest trace is exported (`EveryTraceExports`),
that nothing else is, however its steps were made (`ExportedIsGenuine`), that nothing else is accepted,
however edited and resealed (`AcceptedIsGenuine`), that replay accepts what verification accepts
(`ReplayAgrees`), and that a replayed database can be resumed by a runner (`ReplayedRunResumes`, which
uses the operators of `Budgets` and so ties the documents to section 3).

`BundleContract_proofs` proves for every set of RunSpecs, candidates, values, costs and models:

| Theorem | Establishes |
|---|---|
| `ContractKeeps` | the inductive invariant `ContractInv` |
| `OnlyGenuineIsAccepted`, `OnlyGenuineIsExported` | `AcceptedIsGenuine`, `ExportedIsGenuine` |
| `ReplayAgreesWithVerification` | `ReplayAgrees` |
| `ReplayedIsResumable` | `ReplayedRunResumes` |
| `HonestTracesAreExported` | `EveryTraceExports`: nothing that capture writes is rejected |

`ContractInv` says that a trace and a document have their form, which every one of the edits keeps
(`WellFormed`: a document need not be true, but it has steps with fields), and that a verdict and a
replayed database say what verification and replay say of the document as it is (`Judged`). The rest is
about a single document. The steps that the three versions accept are first reduced to one predicate:
not exhausted before, not exceeded after, a candidate that the policy picks, the decision, rationale and
lineage that capture would have written, the cost added to the cumulative cost before. Such steps have
one solution: the cumulative costs and the running costs of the records obey one recurrence, so there is
no least index at which they differ, and then the steps are those `Captured` makes of their own
observations and the document is the `Document` of that trace. Since no policy picks two candidates
after one history, the decision that replay computes anew is the recorded one. Replay's agreement needs
nothing more, which is why it holds even of documents that no honest run produced.

`OnlyGenuineIsAccepted` and `OnlyGenuineIsExported` have one hypothesis, `SumsAgree`: documents add
costs up one by one, the runner sums a history anew (the compensated `sum`), and where those differ a document
can be accepted that the runner would have stopped short of; this is the disagreement of section 10.
TLC evaluates it for the values of the run (`MCSumsAgree`). The sentinels are assumed to be different
from each other and from a history.

`HonestTracesAreExported` goes the other way. Its invariant `HonestInv` says that the history was made by
a runner, that an unedited trace is `Captured` from it, and that a refusal is that of the trace at hand.
It is then enough that the step constructors and every check of verification accept what capture writes.
The quantities that verification accumulates (running costs, beliefs, eligible identifiers) exist and are
the ones capture computed, again because two solutions of one recurrence have no least index at which
they differ; the eligible list names every eligible candidate once; the greatest common divisor divides,
so a revised belief keeps some weight and stays a belief; every policy picks one candidate. Three
hypotheses: `SumsAgree`; `CostsGrow`, that a rounded sum is not below its last cost (both are about what
`FAdd` computes and are evaluated by TLC for the run, `MCSumsAgree`); and `RefusalIsNoDocument`, that the
exception which ends an export is not a document. `ContractAssumption` states what the RunSpec and model
validation enforce: at least one hypothesis, positive prior weights, natural likelihoods, numeric
utilities, and a digest that is none of the sentinels.

## 9. Planning and the closed loop

`Planner` is pure: what an experiment would mean for the evidence (`Effect`), the information gain of
a candidate, and the two-step lookahead with its second actions and STOP. `ClosedLoop` extends it to
the evaluation condition: arms that run one after the other against one oracle which has committed all
outcomes.

| Action | Code (`closed_loop.py`, `belief_models.py`) |
|---|---|
| `Start`, `Finish` | `run_closed_loop_arm`: its beginning, its stop reason and its result |
| `Decide` | the head of its loop, the decision of the policy, the group-specific predictions, the regression check |
| `Experiment` | the oracle's reveal, the cost |
| `Apply` (`Comparison`, `Diagnose`, `Update`) | the evidence of a completed pair, the sigma selected for its group, the diagnostics |
| `Recompute` | the end of a round: no completed pair is left to apply |
| `Over` | the evaluation has returned or raised |

An outcome of a comparison falls into a bin; a Gaussian at a sigma is a table of integer masses, so
beliefs and expectations are exact, while the rounding of decimal costs is that of real doubles
(`RoundingError`) because the loop compares them with a tolerance that its policies do not have. Gain
per cost never decides a tie that gain and cost leave open, so it is left out.
The one-step
policy falls back to the order of cost and identifier when no gain exceeds 1e-12
(`decision.py:278-305`), which on exact gains is the order it has anyway. The code counts an arm's
oracle accesses in the slice since the arm began, the model by run, which is the same because arms run
one after the other; and the effect that the code recomputes for a one-step decision without a
completed pair (`closed_loop.py:1596-1607`) is the one the model computes from what is done.

`closed_loop`: seven candidates in three comparisons and one that never gives evidence, three public
groups, all 64 outcome tables, five arms (two with the same specification, so that isolation has
something to compare; both models and policies) and budgets, in tenths, that end in the middle of a
pair, at its end, and nowhere. It checks that a lookahead decision is the best of all affordable
two-step strategies, computed independently by enumerating them (`PlanIsBest`), that the next decision
keeps the promise (`PlanIsKept`), that sigma uses only the past (`SigmaUsesOnlyThePast`) and is the one
the decision counted with (`PromisedSigma`), that belief and diagnostics are functions of the evidence
(`BeliefInv`), `ArmsAreIsolated`, `StopIsTrue`, and that every arm finishes. **Fairness**: the loop, a
single thread, goes on while it runs. The harness around the arms and the validation of its reports
are not modelled.

`ClosedLoop_proofs` proves for every set of arms, candidates, outcomes, costs and calibration effects:

| Theorem | Establishes |
|---|---|
| `LoopKeeps` | the inductive invariant `LoopInv` |
| `BeliefsAreTheEvidence` | `BeliefInv` |
| `SigmasComeFromThePast`, `SigmasAreAsPromised` | `SigmaUsesOnlyThePast`, `PromisedSigma` |
| `RunsStopTruly` | `StopIsTrue` |
| `ArmsDoNotInteract` | `ArmsAreIsolated` |
| `DecisionsAreTheBestPlans` | `PlanIsBest` |
| `PlansAreKept` | `PlanIsKept` |

`LoopInv` has nine parts. `Typed` gives the forms and what a phase implies of the decision; `Paired`
that outside `observed` the applied comparisons are exactly those with both experiments completed, one
update each; `Remembered` that the effect history is the prefix and one effect per update, available
from that update on, so that the two ways in which the code filters it agree; `Promised` that the
sigmas of the last decision are still those an update would compute; `Weighed` and `Paid` that
`weights` and `spent` are the values of the recurrences over updates and experiments that
`BeliefIsTheEvidence` and `StopIsTrue` state as recursive functions. That two solutions of such a
recurrence are equal is proved by the least index at which they would differ, since the induction
theorems of the library are out of reach.

`ArmsDoNotInteract` relates two runs, so its invariant (`IsolationInv`) follows one at a time: the
configuration of the current arm, without its name, is the end of a trace of configurations that starts
as the arm's specification says and in which every pair of neighbours is a step, and every recorded
result is read off the end of such a trace, where no step is left. Two arms with one specification then
have one trace, because a step has one outcome: the oracle has committed the outcomes, the best plan is
unique (the order of the code decides between equal gains), and a group's sigma reads the values of its
effects and not the experiments they came from, so that a renaming of effects between the two histories
changes nothing.

`DecisionsAreTheBestPlans` says that deciding branch by branch loses nothing. The code keeps, in every
branch of the first experiment's evidence, the best second action; `PlanIsBest` quantifies over all
choice functions on the branches. Both values are sums over finite sets, taken in orders that have
nothing to do with each other, so the proof begins with what a sum does not depend on: removing any
element takes off its term, and of two sums over branches that correspond one to one the one with the
larger terms is the larger (each by a set of least cardinality that would violate it). The budget
enters twice: the code admits a second experiment with a tolerance in floating point, the strategies
are those that fit in decimals, and `TwoRoundingsAreAbsorbed` shows that these are the same.

`PlansAreKept` follows a plan across the loop (`Planned` until its experiment, `Kept` afterwards). An
experiment that completes no pair has one branch of evidence, so its plan can be worth something only
through the pair that it lets a second experiment close, and is worth exactly what that pair tells.
Making it meets no other pair, hence no evidence is applied, belief and sigmas are those the plan was
made with, and the closing experiment is still affordable. The next decision then has a plan to choose,
passes every check of the code (no gain is negative, every branch is affordable, a fixed model decides
the same a second time), and its best plan is worth at least stopping after that experiment.

Assumed of the constants: `ClosedLoopAssumption` and `PlannerAssumption`, which the run evaluates, among
them that the rounding of a cost and of what is left of a budget adds up to less than the loop's
tolerance and the tolerance to less than one decimal unit; and, as a hypothesis of the theorems because
it ranges over all sets of effects, `SigmasOccur`: the standard deviations of the code belong to the set
`Sigmas` by which the likelihoods are indexed. `ArmsDoNotInteract` assumes two more: `EntropyIsWhole`,
that the entropy of natural weights is a number of the table's integer unit, and `SigmaReadsValues`,
that sigma depends on the values of its effects alone, as `statistics.stdev` over exact fractions does.
The two theorems about plans assume of the entropy that it is not negative and none without weight
(`EntropyVanishes`) and, the second one, that it is concave and homogeneous (`EntropyIsConcave`), which
are the properties of total weight times Shannon entropy that make an expected gain nonnegative. The
hypotheses hold together: `OverlapIsAnEntropy` proves them, for all weights, of the entropy that the
run uses. Of the costs they assume `TwoCostsAreAbsorbed`, the tolerance assumption for two experiments,
and `ExactCostsFit`: a cost that is exactly what is left of a budget does not round above it. The
latter is needed because the policies compare the first cost without the tolerance; it is false for
some budgets (section 10). TLC evaluates both for the costs and budgets of the run (`MCCostsRound`).
Only model-checked: `EveryArmFinishes` (liveness).

## 10. Where the code and its documents disagree

| Run | What it shows |
|---|---|
| `finding_no_lineage` | An impossible observation is persisted before the v3 lineage is computed: a completed step without lineage, and a history that can never be resumed. |
| `finding_over_budget` | The compensated sum admits a record that the trace's running cost puts over budget (0.1, 0.2, 0.3, 0.1 with budget 0.7); for the same reason a lone trace raises at the exact boundary (ten times 0.1, budget 1.0). |

Known from reading and modelling, without a run of their own:

* After a COMMIT gives up as busy (`storage.py:378`), a resume on the same connection returns a trace
  with rows that were never committed.
* An opener overtaken between two edges raises (`storage.py:228`), although the docstring of
  `_migrate_one_step` (`storage.py:222`) says it reports that another runner won.
* Two pairs pending at once are consumed in the order of their keys (`optimizer_effect.py:110`), so the
  same history can carry two different belief chains, depending on when processes synchronize;
  `DESIGN.md:410` says that identical history produces identical versions.
* `run_closed_loop_arm` raises at some boundary budgets (`closed_loop.py:1371`): the loop forgives an
  excess of 1e-12, the policies forgive none, so there is a round in which the loop sees a feasible
  candidate and the policy none; e.g. a budget of 0.3 with costs 0.1 and 0.2, or of 7.6 with the real
  costs. The budgets of the recorded evaluation are not affected.
* A design that repeats an arm of a completed comparison makes an arm of the closed loop raise instead
  of stopping; the synthetic world has no such design.

## 11. Bounds and proofs in general

The values of every bound are in the `MC` modules and the `.cfg` files; every bound is a constant. In
the modules with theorems nothing is proved only for the checked values: the theorems hold for every
value of the constants that satisfies the named assumptions. Liveness is only model-checked, since
`ENABLED` and fairness are outside the prover's reach.

## 12. Not modelled

* The broader-replication lifecycle, its execution, analysis and audits: a research protocol beside
  the program. The lifecycle (attempts, claims, recovery) deserves a model of its own (section 2).
* `robust_storage.py`, whose transactions have the shape of section 5, and the calibration statistics.
* Stored lookahead plan traces; the read-only commands of the CLI.
* Serialization, fingerprints and path validation, pure functions whose properties are about text.
* The Windows branches of publication.
* Benchmarks, evaluations, the core contract and the release check, which compute results in memory
  or compare packaged files with a recorded contract.

The status of each part is in `PROJECT.json`.
