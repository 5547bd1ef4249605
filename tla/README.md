# Model Boss in TLA+

Model Boss (`src/runtime/model_boss`, about 15,000 lines of Python) is a command
line program that lets a main coding loop hand a task to a cheaper *worker* model
without handing over authority.  The worker runs in a Git worktree of a source
snapshot, its result is *sealed* as evidence, an authority approves exactly that
evidence, and a guarded transaction applies it to the user's working tree.  In
*Lite* mode the main loop is the authority; in *Max* mode a distinct *reviewer*
model is, for the plan and for the final result.

Each command is a process of its own.  Nothing runs between commands and there is
no daemon: commands share an invocation's files, Git's list of worktrees and the
user's working tree.  They can overlap, be killed, and be run again.  The
project therefore models the *protocols over shared files* first.

Contents

1. Inventory of the system
2. Modules, and how they correspond to the code
3. Runs: what each checks and shows, and the bounds
4. Fairness
5. What the violations show
6. What is proved
7. What is only model-checked
8. Abstractions, and what is not modelled
9. Plan

## 1. Inventory

### Invocation resources and cleanup: `resources.py`

*State.*  One private directory per invocation (the root) with an ownership
marker for each of eight records, the worktree, `route_state`, `evidence`, the
manifest, and later the bundle.  Beside it: the consumption ledger, its two
temporary receipts, the seal receipt and its temporary name.  In Git: the
registration of the worktree.

*Operations.*  `create_invocation_resources`, `load_invocation_resources` (which
validates the complete layout), `cleanup_invocation`.

*Hard.*  Cleanup removes what other commands are using.  It has some twenty steps
and any may fail or be the last one of a killed process; the next cleanup resumes
from the ledger.  Two cleanups may run at once.

*Correct when.*  Nothing is removed before the claim is on disk; the ledger never
says more than is true; a cleanup that reports `cleaned` has left nothing; one
that keeps trying gets there; an invocation is consumed once.

### Sealing and reading a result: `bundle.py` 640-1703

*State.*  The bundle in the root; the seal receipt beside the root, which is
first a claim (0600, flocked) and then the final receipt (0400), renamed over it.

*Operations.*  `seal_delta_bundle`, with recovery of an abandoned claim and
rollback; `read_sealed_delta_bundle`.

*Hard.*  Sealers overlap with sealers, readers and cleanups.  A lock vanishes
with its process while its file stays.  Recovery and rollback unlink by name.

*Correct when.*  At most one result is ever sealed; what a sealer was told is
sealed stays so; every reader accepts the same evidence; an abandoned claim can be
recovered by a later call with the same evidence.

### Guarded integration: `integration.py`

*State.*  The user's working tree, and nothing else: there is no lock.

*Operations.*  `integrate_reviewed_delta` (approval and hashes, capture,
`git apply --check`, simulation in a worktree, capture, `git apply`, capture) and
the managed layer `integrate_sealed_delta_bundle` (read, integrate, always clean
up).

*Hard.*  The user edits while the transaction runs; another transaction may run;
a capture reads path by path; `git apply` may fail after some files.

*Correct when.*  What is reported is true: `ok` means the tree is as approved, not
applied means that nothing of the transaction was left; two deltas reviewed
against the same source do not both stand; the user loses no edit.

### Plan and final review receipts: `bundle.py` 1706-2603

*State.*  Two files in the evidence directory, each created once.

*Operations.*  Seal and read of the plan receipt (task, source snapshot, plan,
reviewer) and of the final receipt (bundle, reviewer, approval).

*Hard.*  A receipt is read by a later command, of possibly another reviewer, after
the source has changed, or after the bundle was sealed again.

*Correct when.*  What is integrated was approved by the authority of this
invocation, for this task, source and plan.

### CLI workflow: `cli.py`

*State.*  That of the invocation; the commands themselves keep none.

*Operations.*  `plan-review`, `worker`, `review`, `integrate`, `cleanup`.
`plan-review` creates an invocation and cleans it up unless the plan is approved.
`worker` creates one (Lite) or takes the planned one (Max); once loaded, any
failure cleans it up.  `review` leaves it as it is unless it approves.
`integrate` always cleans up once it has read the final receipt.

*Hard.*  Commands in an order nobody intended, run twice, or at the same time: a
failing `worker` destroys the invocation that another command has approved.

*Correct when.*  Nothing is integrated without an approval of exactly that
evidence; no invocation is left behind by a command that has returned, other than
those the user was told to keep.

### Worker command and process runner: `cli.py` 386-650 and 1602-1747, `process.py`

*State.*  The attempt number, the last gate results, the fingerprint of the source;
a child, its process group, and what has become of its input.

*Operations.*  Create and materialize a worktree, launch the worker, compare source
and sandbox policy, run the gates, retry with their output, capture the delta, replay
it, seal it.  `run_process`: launch, feed, wait with a limit, SIGTERM, grace, SIGKILL.

*Hard.*  The source changes while the worker runs; retries; a timeout is final; gates
and descendants of a child go on writing; the limit races the exit; one file is
staged, changed again and untracked at once.

*Correct when.*  A delta is sealed only for the source it was started from, in scope,
with the gates of the last attempt green on exactly what is sealed; a worker that did
nothing wrong is not refused; the command ends.

### Snapshots, worktrees and deltas: `repository.py`

*State.*  Git's worktrees, and the commit, index and working tree of each.

*Operations.*  Capture a source snapshot; create, materialize and remove a worktree;
capture a worker's delta; replay it.

*Hard.*  A path has three entries, which are recorded and carried over by three
different means, one after the other; captures are not atomic.

*Correct when.*  What is materialized is what was captured, for every combination of
entries; what is replayed is what the worker left.

### Routing and preflight: `routing.py`, `models.py`, `config.py`

*State.*  None; the configuration files and the evidence about routes are inputs.

*Operations.*  Merge the layers, `resolve_candidates`, probe,
`preflight_candidates`, `finalize_resolution`; the contracts of the results.

*Hard.*  The rules are written twice, in the functions and in the contracts of their
results; the names of routes are free, and the results use two words, "main loop" and
"none", for what is no route; both reviews of an invocation resolve anew, after files,
programs and accounts may have changed.

*Correct when.*  The functions build what the contracts accept; Max has exactly one eligible reviewer and one is never guessed; a
worker's evidence has no say in who decides; both reviews have one reviewer, who is
not the main loop.

### The others

| Component | State | Operations | Hard, and what makes it correct |
|---|---|---|---|
| Transport, `transport.py` | none | run a reviewer or a probe and parse its answer | a malformed or late answer is an error, never an approval |
| Evidence, `evidence.py` | none | canonical encodings and hashes | equal evidence, equal bytes |
| Sandbox, `sandbox.py` | none | build and compare platform policies | platform I/O |
| Configuration files, `config.py` | files | discover, parse and validate | sequential |
| Setup, packaging | files | install settings, build an archive | sequential I/O |
| Benchmarks, evals, assets | - | - | no logic of the program |

### Interactions

    worker --create/load--> resources        integrate --read---> bundle
    worker --snapshot-----> repository       integrate --apply--> the user's tree
    worker --seal---------> bundle           integrate --always-> cleanup
    worker --on failure---> cleanup          cleanup --lock+unlink--> seal receipt
    review --read---------> bundle           cleanup --remove--> root, registration
    worker --run, gates---> process runner   plan-review, review --resolve--> routing

The seal receipt is where the parts meet: sealers lock it, readers trust it and
cleanup may remove it only under its lock.

## 2. Modules

    InvocationFiles            files that several components share
      |-- Cleanup              cleanup_invocation, any number of processes
      |     |-- Consumption    abstract: what consuming means (INSTANCE)
      |     `-- CleanupProofs  type correctness, three invariants
      |-- Seal                 seal_delta_bundle, read_sealed_delta_bundle
      |     `-- SealProofs     type correctness, six invariants
      `-- Invocation           Cleanup and Seal on the same files
            `-- InvocationProofs   five invariants, and Consumption implemented
    Integration                integrate_reviewed_delta, on the user's tree
      `-- IntegrationProofs    type correctness and three invariants
    Workflow                   the commands, over several invocations
      |-- Authority            abstract: who may change the user's tree (INSTANCE)
      `-- WorkflowProofs       type correctness, an invariant, an action property,
                               and Authority implemented
    Processes                  run_process, and the child it runs
    Snapshots                  capture, materialize, delta and replay of one path
      |-- SnapshotsProofs      what is captured is what is materialized and replayed
      `-- Worker               the worker command, on Processes and Snapshots
            `-- WorkerProofs   type correctness and four invariants
    Routing                    the pure functions of a resolution
      `-- Authorization        the commands that resolve, in changing surroundings
            `-- AuthorizationProofs  type correctness and four invariants

`MC*` modules give the constants values for TLC.  Definitions marked "Mutant" are
wrong on purpose: the plausible bug that a property is there to catch.  No
specification uses them.

**InvocationFiles** holds `root`, `entries` (names under the root), `registered`,
`seal` (which inode each of the two seal receipt names stands for) and `held`
(flocked inodes).  `LayoutValid` is `_validate_active_resources`, `RemovalOrder` the order of removal in `cleanup_invocation`.

**Cleanup** has one action per step of the call that another process can
separate from the next:

| Step | Action | Code in `resources.py` |
|---|---|---|
| load, and call | `Begin` | `load_invocation_resources`, 384-531 |
| phase of the ledger | `ReadLedger` | 1399-1407 |
| root or layout | `OpenRoot` | `_open_root_anchor`, 1213-1260 |
| `git worktree list` | `GitProbe` | 1415-1417 |
| root and layout again | `Recheck` | 1418-1442 |
| O_EXCL claim, or temporary receipt | `CreateFile`, `WriteFile` | `_write_private_json_at`, 539-565, and 1086-1105 |
| the ledger still says the phase | `MarkProgress` | the head of `_replace_consumption_receipt` |
| `os.replace` | `ReplaceLedger` | 1105-1111 |
| `git worktree remove` | `DropWorktree` | 1443-1460 |
| entries in order | `RemoveOwned` | 1462-1480, with 1316-1348 |
| lock and unlink a receipt | `LockSealFile`, `UnlinkSealFile` | `_remove_external_seal_files`, 1001-1046 |
| nothing recorded is left; the root | `CheckAbsent`, `RemoveRoot` | 1366-1384, 1351-1363 |

`phase`, `seen`, `anchored`, `at`, `holds` are the call's locals.  A file created
with O_EXCL is *torn* until its writer has finished; a torn receipt cannot be
parsed.  `Fault` makes any system call fail, `Crash` kills the process.  A process
in `Holders` keeps its loaded resources and calls again (the `worker` command's
own handler, or a library user); the others are one command each, which must load
the manifest first.  `SealerStops` frees the claim's lock of a live sealer.

**Seal** follows `seal_delta_bundle` in the same way: `Start`, `OpenReceipt`,
`LockFound`, the three `Recover...`, `CreateClaim`, `WriteClaim`, `LockClaim`,
`CreateBundle`, `WriteBundle`, `CheckBundle`, `StatClaim`, `MakeFinal`,
`RenameFinal`, and `Undo...` for the rollback.  A reader repeats `ReadBundle` and
`ReadReceipt`.  An inode is a pair of sealer and kind, so that a name that stands
for another file of the same contents is told from the original.

**Invocation** interleaves both on the same files.  It is where cleanup removes a
directory under a running sealer, and where both want the claim's lock.

**Consumption** is the abstract specification: active, claimed, contents removed,
complete; contents shrink only while claimed.  `Cleanup!Consumed` maps a torn
ledger to "active".

**Integration** gives each path the *set of edits* made to it since the reviewed
snapshot.  A capture reads one path per step (`ReadPath`), `git apply` loads each
path (`LoadPath`) and then replaces each (`WritePath`); `ApplyFails` and
`WriteFails` stop it anywhere, also halfway through a file.  `Edit` and `Restore` are
the user.  The evidence of a transaction is one of five verdicts: approve, revise,
stale (a hash does not match), unsafe (a symlink or a path out of scope), forged
(the simulation does not reproduce it).

**Workflow** has the commands `plan-review`, `worker` (Lite and Max), `review`,
`integrate` and `cleanup` as processes that run in any order and overlap.  `source`
is the version of the user's tree, `stage` how far each invocation has come,
`plan`, `result` and `final` its evidence, and `job[p]` the locals of the command
that process `p` is running:

| Command | Actions | Code |
|---|---|---|
| plan-review | `PlanReview`, `ReviewPlan` | `cli.py` 1001-1182, `seal_plan_review_receipt` |
| worker, Lite | `LiteWorker`, then as Max | `cli.py` 1602-1614 |
| worker, Max | `MaxWorker`, `ReadPlan`, `CreateWorktree`, `RunWorker`, `SealResult` | `cli.py` 1615-1747 |
| review | `Review`, `ReviewResult` | `cli.py` 1185-1427, `seal_final_review_receipt` |
| integrate | `Integrate`, `ReadBundle` | `cli.py` 1750-1789, `read_sealed_delta_bundle` |
| | `Compare`, `Write` | `integrate_reviewed_delta`, up to its last capture before `git apply` (`integration.py` 889-913), and from `git apply` on (940) |
| cleanup | `CleanupCommand` | `cli.py` 2394-2424 |
| cleanup, and every failure that cleans up | `ClaimInvocation`, `EmptyInvocation`, `FinishInvocation` | the phases of `cleanup_invocation` |

A command that fails before it has its invocation changes nothing; the action that
starts it is then simply not taken.  `Stop` kills a process at any step, or rejects
the cleanup it is in; `Edit` is the user.

**Authority** is the abstract specification of that: approve a plan, seal a result
for it, approve the result by the same authority, or discard everything for good.  An
integration takes an approved result in its `hand` (from then on it may change the tree
even if a cleanup discards its invocation), finds that it `fits` the tree, which is its
source, and then changes the tree with it, or leaves it.  Finding and changing are two
steps, as nothing locks the tree between the comparison and `git apply`: the user or
another integration may change it in between, of two integrations that both found
theirs to fit both may write, and Authority allows it.  What it promises is that
nothing is written that was not approved and did not fit, and that a result which has
changed the tree is never found to fit again.  The refinement mapping takes `hand` and
`fits` from the locals of the integrating processes and `gone` from `stage`.

**Processes** is `run_process` (`process.py` 199-272) with one child at a time.
`contained` says whether the launcher takes descendants with it (bubblewrap's process
namespace) or not (sandbox-exec); `group` and `strays` are the descendants inside and
outside the process group.

| Step | Action | Code in `process.py` |
|---|---|---|
| `Popen` | `Start`, `CannotStart` | 205-226 |
| write and close stdin | `WriteInput` | 238-244 |
| `wait(timeout)` | `Wait`, `Expire` | 246-250 |
| SIGTERM to the group | `Terminate` | `_terminate_process_group`, 157-166 |
| wait, then SIGKILL | `Reap`, `Kill` | 167-183 |
| the child | `Fork`, `Consume`, `Exit`, `DescendantsEnd` | the program that is run |

Input is small (buffered, written by `flush` and `close`) or large (fills the pipe).
A small input whose reader has gone makes `flush` fail, which is forgiven, and then
`close`, which is not: `run_process` raises.

**Snapshots** has a path in the commit, the index and the working tree, and says what
a snapshot records of it (`PathSnapshot`: staged, unstaged, untracked), how records
are applied (`Materialized`, in the order of `materialize_snapshot`), what a delta
records against the materialized tree (`PathDelta`) and how it is replayed.  A change of the executable bit alone
is a record of its own that keeps no content; every other record is a diff that only
applies to what it was made from.  An operation that may fail is the set of its
results, empty when it fails.

**Worker** is the command on one path the worker may change, one bit for everything
it may not (`private`) and one for a commit of its own (`moved`):

| Step | Action | Code |
|---|---|---|
| worktree | `CreateWorktree`, `Materialize` | `repository.py` `create_worktree`, `materialize_snapshot` |
| sandbox | `Prepare` | `cli.py`, `prepare_provider_exec` and the binding of the policy |
| loop | `CompareSource`, `Launch`, `WorkerReturns`, `BeginGate`, `RefuseGate`, `GateReturns`, `FinishGates` | `_run_worker_loop`, 386-508 |
| delta | `CaptureProjected`, `CaptureRecords`, `RecheckSource` | `capture_worker_delta` in its two captures, and the last comparison |
| seal | `Seal` | `replay_worker_delta_projection` inside `seal_delta_bundle` |
| child | `Write` | any living child or descendant, in or out of scope |
| others | `Disturb` | the user's edits and commits, the directories the policy names |

`ran` keeps, of every gate of the attempt, its status and the file it *began* with.
`offences` is a history of who did what must not be done: the properties that speak of
a well-behaved worker have it as their premise.

**Routing** has `Merged`, `Candidate`, `Preflight` and `Resolution`, one operator per
function of the code, and `ReportContract` and `ResolutionContract`, which are the
validators of `models.py`, written apart from the functions as they are in the code:
what a report must be, with its partitions of the candidate's routes, what a resolution
must be by itself (`TopologyContract`) and what it must have kept of its report
(`FollowsReport`).  `ProbeRoute` is the set of all reports that a probe can give of a
route; it is empty where `probe_route` raises, for a route that names one variable for
two credentials (`shared`).  Any name may be that of a route, "main loop" and "none"
included.

**Authorization** runs them step by step in `resolve`, `plan-review` and `review`:
`Begin...` (`resolve_candidates`), `Probe`, `ApplyEvidence` (`preflight_candidates`
with its contract), `Finalize` (`finalize_resolution` with its contract, and the
comparison with the plan's receipt), `Execute` (the reviewer's verdict and the receipt).
A command ends "answered", or "rejected" where a contract or a probe raises, which its
user sees as `needs_context`.  `Edit` changes the configuration files between commands.

## 3. Runs

| Run | Asks | Properties | Distinct states |
|---|---|---|---|
| `cleanup_race` | is the ledger true, and do retries end, when cleanups overlap? | `TypeOK` `ClaimBeforeDelete` `RemovedMeansGone` `CompleteMeansClean` `HolderCompletes` | 642,026 |
| `retained_manifest` | can a rejected cleanup be resumed by a new process? | `RetainedManifestRecovers` violated | |
| `seal` | is one result sealed for good, and what a crash left recovered or told from a seal? | `SealTypeOK` `SealIsPermanent` `SealedOnce` `ReadersAgree` `ReadersOnlySealed` `RefusalJustified` `BundleIsClaimed` | 24,961 |
| `seal_race` | also if two sealers of the same result overlap? | `SealIsPermanent` violated | |
| `invocation` | do cleanup and sealing respect each other, and do cleanups that do not overlap implement `Consumption`? | `ConsumedOnce` `ClaimBeforeDelete` `ReadersOnlySealed` `NoSealAfterCleanup` `ClaimHeldToTheEnd` `ImplementsConsumption` | 1,265,109 |
| `integration` | is what a transaction reports true? | `TypeOK` `OneStands` `NotAppliedMeansUntouched` `OkMeansApproved` | 1,833,766 |
| `edit_lost` | does `ok` mean that no edit was lost? | `OkKeepsEdits` violated | |
| `workflow` | may commands come in any order, overlap and stop anywhere? | `TypeOK` `NothingAbandoned` `ImplementsAuthority` `ReviewsKeepResults` | 662,594 |
| `routing` | does every resolution end as it was asked to, for which names does it raise, and have both reviews one reviewer? | `TypeOK` `RaisesForNamesOnly` `ModeIsAsked` `WorkersDecideNothing` `OneAuthority` | 458,630 |
| `routing_matrix` | is the documented matrix what the code does? | `MatrixFollowed` violated | |
| `worker` | is what is sealed tested, in scope and replayable, and does the command end? | `WorkerTypeOK` `OkIsTested` `OkIsInScope` `SealedAsProjected` `FailureJustified` `CommandEnds` | 1,180,335 |
| `group_timeout` | does a timeout end the process group? | `TimeoutEndsGroup` violated | |

### Bounds

* *Cleaners: 2.*  A race is between the reader of a phase and one process that
  moves it.  `cleanup_race` has two holders that overlap, `invocation` a holder and a
  single command, one after the other (`Concurrent` is FALSE), beside two sealers of
  different results.
* *`MaxFaults`, `MaxCrashes`: 1 each in every passing cleanup run*, anywhere in any
  call, hence a call that resumes after each.  For the safety properties the proofs
  do away with these bounds.
* *Markers: 1 for the eight.*  They are unlinked in a row, each unlink is
  idempotent and nothing reads them separately.
* *Sealers: 3*, so that a third meets what the recovery of the first by the second
  leaves.  Two have the same result, and in `seal` these two do not overlap
  (`Twins` is FALSE), as otherwise `SealIsPermanent` fails (`seal_race`); the third
  overlaps both.  Two crashes in a row are what recovering a recovery needs.
* *Integration: 2 transactions, 2 allowed paths and 1 private path*, every set of
  allowed paths as a delta, one edit of the user.  Two paths are the least for
  which a partly written tree and a torn capture exist.  With two edits the same
  properties hold as well (14.8 million states, too many for a regular run).
* *Workflow: 2 processes, 2 invocations, 2 tasks, 2 models, 1 event.*  An overlap is
  between two commands; the second invocation and task are there to be mistaken for
  the first; a model is the main loop or the reviewer.  An event is an edit, a
  killed process or a rejected cleanup.  An integration also changes the tree, so
  that an integration meets trees changed by the user, by another integration, by both
  or by neither, before its comparison and after it.  No error was found either
  with an edit *and* a stop (3.4 million states), nor with one invocation, three
  processes, three models and two events.
  Symmetry is sound here: identities are only compared, and no liveness is checked.

* *Worker: 2 gates, no or 2 attempts, 2 changes* (of the worktree, the source or the
  policy) at any time.  Two gates are the least for which one can change what the
  other has tested; two attempts for which a result can be left over from the first;
  with two changes one can be undone.  The path is clean, staged and changed again,
  deleted from the index and left untracked, or staged with a changed mode; a child
  deletes it, replaces it or makes it executable.  The safety properties also held
  with three changes (5.7 million states), and the proofs do away with all of these
  bounds.
* *Routing: 2 configured routes of 4 kinds and an identifier that is not configured,
  3 models, 2 layers (a profile and the user's).*  Two reviewers are what an ambiguous
  choice takes; the three models are the main loop's and those of the two routes.  A few
  profiles have a route whose credentials share a variable, or a worker called "none" or
  "main loop": one of each is enough, as nothing relates them to the rest.  Some evidence is *injected*, for what no
  probe of the shipped adapters gives but the code tells apart.  The proofs do away
  with these bounds as well.

Deadlock is not checked: every process finishes, and the system then stops.

## 4. Fairness

`HolderCompletes` and `CommandEnds` need it.

For the first, Cleanup's `FairSpec` has weak fairness on

* `Call(c)`: a process that runs goes on to its next step;
* `Begin(c)` for `Holders`: the caller tries again after a rejection.  This is the
  property's premise (a caller that gives up completes nothing), stated for
  holders only, as a new command may be unable to load the manifest (see
  `retained_manifest`);
* `SealerStops`: no sealer runs for ever; its system calls are finitely many and
  its locks end with it.

No fairness is given to faults or crashes, which are bounded; `HolderCompletes` is
vacuous once a process was killed, since a claim torn by a crash is rejected for
good.

For the second, Worker's `Spec` has weak fairness on `CommandStep` (a process that
runs goes on to its next step) and on `Run`, the steps of `run_process`, among which
`Expire` stands for a clock that does not stop and `Kill` for a SIGKILL that the
kernel delivers.  Nothing is assumed of a child: it may hang, fork and ignore signals.
One exception is part of the property: input is written before the timed wait
begins, so a child that neither reads nor closes an input larger than the pipe blocks
the command without a limit.

## 5. What the violations show

`RetainedManifestRecovers`.  Cleanup removes the manifest before it tries the seal
claim's lock.  If that lock is held the call is rejected and the worker command
prints that the retained manifest can be used for recovery.  There is none.

`SealIsPermanent` with two sealers of the same evidence.  A claim is readable before
it is locked.  Another sealer recovers it in that window and seals; the first then
fails to lock, having just checked that the name is its own claim's, and unlinks
the name: the sealed receipt of the other.  With different evidence the recovery is
refused, and the property holds (`seal`).

`OkKeepsEdits`.  An edit of the user between `git apply`'s read of a file and its
replacement is overwritten; the final capture finds the approved content and
reports `ok`.

`MatrixFollowed`.  A balanced main loop in auto whose configured reviewers are all
unavailable is answered `reviewer_unavailable`, as in an explicit Max; the matrix of
`references/routing.md` has `needs_context` there.

`TimeoutEndsGroup`.  When the time limit expires as the child exits, or when the
child exits on SIGTERM, the rest of its process group gets no SIGKILL, although it may
ignore SIGTERM.  Under a launcher that contains its descendants they end with it;
under the other they go on.

Not runs of their own, but met in the model.  Two *overlapping* cleanups can both
report `cleaned`, since `os.replace` (`resources.py` 1105) succeeds for both:
`ConsumedOnce` is checked for calls that do not overlap.  It is harmless for the files, as what
the ledger says stays true (`LedgerIsTrue`, for any number of processes).

Two integrations of one source that both compare before either writes both run
`git apply` on the tree, and an edit made after the comparison is met by the `git apply`
of a result that was not made for it: nothing locks the tree (`integration.py` 890 to
940).  Workflow has both, and Authority allows them; Integration shows what the
transactions then report (`OneStands`, `OkMeansApproved`).

Nothing keeps a route from being called "none" or "main loop" (`config.py` 393,
`models.py` 155).  When such a route is the worker that was found to work, "none" in Max
and "main loop" in Lite make the contract of the resolution raise (`models.py` 836-839),
so that a valid configuration with working routes is answered `needs_context`; and a
worker called "main loop" in Max reads in the resolution like implementation by the main
loop, one called "none" in Lite like no worker.  A route may also name one variable for
two of its credentials (only the child's names must differ, `config.py` 350): every
probe of it raises (`models.py` 539).  `RaisesForNamesOnly` says that resolution raises
for nothing else.

The last
validation of a seal raises a `ValueError` (`bundle.py` 1523) that no handler rolls back; claim and
bundle stay together (`BundleIsClaimed`), and a later call with the same evidence recovers
them.  A child that exits before it has read a small input makes `run_process` raise
instead of reporting the child's exit (`process.py` 244): the worker command then ends
with `needs_context` where a failed launch is a `transport_error`; this is the offence
`unread` of `FailureJustified`.

## 6. What is proved

Every safety property of the passing runs, including the two refinements, is a theorem
for all values of the constants that satisfy the named assumptions.  Some theorems of
`SealProofs` and `InvocationProofs` need a hypothesis beyond those, and each states its
own: `Exclusive`, that no two sealers of the same evidence run at once, or
`~Concurrent`, that cleanups come one after the other.

`CleanupProofs` proves, for every set of markers, inodes and processes, for
overlapping or sequential calls and without using the bounds on faults and crashes
(assumptions: `InvocationFilesAssumption` and `CleanupAssumption`, no more):

| Theorem | Property |
|---|---|
| `TypeCorrect` | `TypeOK` |
| `ClaimComesFirst` | `ClaimBeforeDelete` |
| `LedgerIsTrue` | `RemovedMeansGone` |
| `CompleteIsClean` | `CompleteMeansClean` |

The argument.  None of the three is inductive: a ledger that is true now may be
replaced by a temporary receipt that another call prepared long ago.  `IInv` adds
what every file and every local *claims*, in two parts.  `Removing` is about what the
invocation was created with, which nobody ever brings back:

* `Receipts`: a temporary receipt announces only the phase of its name;
* `StepOfPhase`: where a call can be, given the phase it believes in;
* `Unclaimed`: while the ledger is absent or torn by a live claimer, nobody
  believes in a phase and the required entries are there;
* `Observed`: `seen` and `anchored` are outdated in one direction only, as a
  registration and a root, once gone, stay away;
* `Passed`: the entries before `at` are gone, whoever removed them;
* `Emptied`: what a call past the removal believes, and what the ledger and both
  temporary receipts say, is true *now*.

`Tidy` says the same of the bundle (`Unbundled`) and of the seal receipts and the root
(`Finished`); a sealer could bring these back, so `Tidy` is true of Cleanup alone.

Removal is monotone, so a claim that was true when it was made stays true.  That is
why a stale receipt renamed over a newer ledger does no harm, and why `ConsumedOnce`
is another matter: it counts calls, not files.  There is one lemma per action
(`BeginSafe` ... `CrashSafe`); each shows that `Removing` goes on without help from
`Tidy`, and that `Tidy` goes on with it.  `CleanupSafe` joins them, `SafeStep`
uses both halves, and InvocationProofs the first.

`WorkflowProofs` proves, for every set of processes, invocations, tasks and models
and any number of edits and stops (assumption: `WorkflowAssumption`, that `Nothing`
differs from what can be in its place):

| Theorem | Property |
|---|---|
| `NobodyAbandons` | `NothingAbandoned` |
| `ResultsSurviveReviews` | `ReviewsKeepResults` |
| `AuthorityImplemented` | `ImplementsAuthority` |
| `TypeCorrect` | `TypeOK` |

The argument.  `NothingAbandoned` is not inductive: the process that holds an
invocation may be a review, which simply returns, or a cleanup that lost to another.
`AllAttended` says *which* process is to take an invocation further at each stage
(an active one without evidence: any before its cleanup's claim, a review excepted; a
claimed one: a process about to empty it; an emptied one: a process about to finish).
`OneCreator` (an invocation is created once) and `Unplanned` (until its plan is
approved no worker gets past reading it, so no result can be sealed under a running
plan review) give `ReviewsKeepResults`: the cleanup of a plan review finds no result,
and a review has no cleanup (`OwnSteps`).  `MoveSafe`, `StartSafe` and `ReturnSafe`
say once what a step has to show; there is one lemma per action on top.

`Rightful` is the invariant behind the refinement.  Its parts say of the evidence of
each invocation (`Evident`) that a result carries the task and source of the plan it was
made for and a final approval the identity of that plan's; of each process (`Honest`)
that what it holds in its locals is still what the files say, or that its invocation is
gone; and of each integrated invocation (`Spent`) that every result of it, also one in
the hand of a process that has not compared it yet (`Seeking`), belongs to an older
version of the tree, so that it is never found to fit any more.  Of a process past its
comparison nothing is said but that its result was approved and did fit: the tree is
anybody's until it writes.  `Onward` is what every step does to the evidence of other
processes' invocations: it is only ever added or discarded whole.

`SealProofs` proves, for any number of sealers, evidences, crashes and faults
(assumptions: `InvocationFilesAssumption` and `SealAssumption`):

| Theorem | Property | Needs |
|---|---|---|
| `SealTyped` | `SealTypeOK` | |
| `ReadsSealed` | `ReadersOnlySealed` | |
| `SealStands` | `SealIsPermanent` | `Exclusive` |
| `SealsOnce` | `SealedOnce` | `Exclusive` |
| `ReadsAgree` | `ReadersAgree` | `Exclusive` |
| `BundleHasClaim` | `BundleIsClaimed` | `Exclusive` |
| `SealsWhenItCan` | `RefusalJustified` | `Exclusive` |

`Exclusive` says that no two sealers of the *same* evidence run at once; those of
different evidence overlap freely.  The code does not enforce it, its callers do (a
worker command seals once), and the run `seal_race` shows that `SealIsPermanent` fails
without it.

The argument.  Types and what readers accept (`SealTypes`) depend on nothing else.  For
the rest, `Ownership` is the heart: a sealer that recovers a claim, or has made
one, is alone with it (`Claims`), since a claim can only be recovered under its lock by
a sealer of the same evidence, and knows whether there is a second receipt (`Finals`).
It does not depend on the bundle, and is proved first, for every step of every sealer
(`OneOwner`, `StepOwnership`).  `Bundled` ties the bundle's owner to the claim, and
`Sealed` says that what was placed is never again at anybody's mercy.  `Faultless`, which
holds as long as no system call has failed, says for which reasons a call may stop.

`InvocationProofs` proves, for any number of cleanups and sealers in the same root and
of faults and crashes on both sides (the same assumptions, with `CleanupAssumption`):

| Theorem | Property | Needs |
|---|---|---|
| `ReadsSealedBeside` | `ReadersOnlySealed` | |
| `ClaimComesFirstBeside` | `ClaimBeforeDelete` | |
| `NothingSealedAfter` | `NoSealAfterCleanup` | `Exclusive` |
| `ClaimIsKept` | `ClaimHeldToTheEnd` | `Exclusive` |
| `IsConsumedOnce` | `ConsumedOnce` | `~Concurrent` |
| `ConsumptionImplemented` | `ImplementsConsumption` | `~Concurrent` |

So the first four hold of overlapping cleanups too, and the last two of any sealers.
Each hypothesis is needed: TLC finds `ConsumedOnce` violated once the cleanups of
`cleanup_race` are asked for it, and both `NoSealAfterCleanup` and `ClaimHeldToTheEnd`
once the two sealers of `invocation` have the same evidence.

The argument.  `RemovingBeside` needs no hypothesis: a sealer brings a bundle and seal
receipts and nothing else that cleanup counts, so `Removing` goes on through its steps.

For the seal, `InvocationInvariant` adds two conjuncts to that.  `SealingBeside` is
`Ownership` again, this time only while a result is still `Sealable`: the layout is valid,
or a sealer that has validated it is on its way to its rename (`Binding`).  Once nothing is
sealable, sealers may lose their claims to a cleanup, and it no longer matters.
`Spending` joins the two: a cleanup gets past the claim's lock only when nothing is
sealable any more (`ClaimLocked`: a binding sealer holds that lock, and the layout is
gone by `Emptied`), and finds each receipt either not final or removes it, so that the
invocation is `Spent` before the ledger says complete.

For the consumption, `Consuming` is about cleanups alone: as the ledger is the caller's
own, what a call believes of it is exact (`CallKnows`), which overlapping calls could not
say; so each step moves `Consumption` along or leaves it (`Moves`).

`IntegrationProofs` proves, for any transactions, paths, deltas and edits (assumption:
`IntegrationAssumption`):

| Theorem | Property |
|---|---|
| `TypeCorrect` | `TypeOK` |
| `NothingLeftBehind` | `NotAppliedMeansUntouched` |
| `OkIsTrue` | `OkMeansApproved` |
| `AtMostOneStands` | `OneStands` |

The argument.  A capture reads path by path, so the invariant speaks of the paths it has
read and that nobody has written since (`Approved`, `Untouched`).  For `OneStands` it
does not suffice that each capture is true of its own paths: `Apart` says that of two
transactions that have found no difference, it cannot be that each one's final capture
passed a path before the other wrote it.  Each begins its final capture after its own
last write, so one of the two began it with both having written; and `Marked` says that
what a transaction wrote can be told from the snapshot.

`AuthorizationProofs` proves, for any routes, models, configuration layers, requests
and evidence (assumptions: `RoutingAssumption`, `AuthorizationAssumption`):

| Theorem | Property |
|---|---|
| `TypeCorrect` | `TypeOK` |
| `ResolutionRaisesForNames` | `RaisesForNamesOnly` |
| `ModeFollowsRequest` | `ModeIsAsked` |
| `WorkersHaveNoSay` | `WorkersDecideNothing` |
| `ReviewersAgree` | `OneAuthority` |

The argument.  Types carry most of it: what a valid merged configuration yields
(`MergedIsTyped`) is what the contracts ask for, once the eligible routes are known to
be supported ones, eligible and ineligible ones to be all of a list (`ReportPartitions`)
and the first member of a list to be in the list.  `ReportIsSound` says that every report
keeps its contract, `ResolutionIsSound` that a resolution keeps its own exactly if its
worker is not misnamed (no assumption keeps routes from having those names), and
`SilentProbeShares` that a probe has something to report unless credentials share a
variable.  The invariant adds
`Located` (which locals are there at which step, and that each is the function of the
one before) and `Reviewing` (a review command asks for Max with one reviewer, and the
final one with the main loop of the plan), from which `OneAuthority` follows, as a
receipt is sealed only where the live identity equals the plan's.

`SnapshotsProofs` proves, for any contents (assumption: `SnapshotsAssumption`), that
what is captured of any path is materialized from its commit exactly, with no other
result (`SnapshotIsReproduced`), and that a delta replayed on it gives exactly the
worker's file (`DeltaIsReplayed`).

`WorkerProofs` proves, for any files, any numbers of gates, attempts and changes
(assumptions: `SnapshotsAssumption`, `WorkerAssumption`):

| Theorem | Property |
|---|---|
| `TypeCorrect` | `WorkerTypeOK` |
| `SealedIsTested` | `OkIsTested` |
| `SealedIsInScope` | `OkIsInScope` |
| `SealedIsProjected` | `SealedAsProjected` |
| `CorrectWorkerNeverRefused` | `FailureJustified` |

The argument.  A snapshot together with its commit identifies a path
(`SnapshotIdentifies`, since materializing is a function of both), so a replay whose
snapshot equals the projected one *is* the projected file, however torn the two
captures were.  `Located` ties the command's step to that of `run_process`: a
contained child lives only while it runs, hence nobody writes between the last gate
and the seal (`Tested`, `Held`).  `Based` says that a worktree whose commit was not
moved still has the commit of the source, which makes the captured index the
source's (`StagedIdentifies`).  `Undisturbed` says that as long as nobody has done wrong
the worktree differs from the source in the one file, so that every capture,
comparison and replay succeeds.  There is one lemma per action; `FailIInv` and
`NextAttemptIInv` say once what a failure and a retry have to show.

## 7. What is only model-checked

* `HolderCompletes` and `CommandEnds`, liveness properties: liveness under fairness,
  and `ENABLED`, are out of the prover's reach.  Nothing else of the passing runs is
  only model-checked.
* That the violations of section 5 occur: TLC's counterexamples show it.

Also out of the prover's reach are induction over data with the library's theorems
and modules with RECURSIVE operators.  The modules to be proved about have neither.

## 8. Abstractions, and what is not modelled

*Identities.*  The code compares device, inode, owner and mode of every recorded
path.  The models take them as intact (nobody swaps a file) except for the seal
receipts and the bundle, where the swap *is* the protocol.

*Grain.*  One step are: the removal of a directory tree; `git worktree remove`; the
eight markers; opening, statting, locking and statting a seal receipt again;
statting and unlinking one in a recovery; git's replacement of one path; the
simulation of a delta with the capture it takes; in Worker, each capture of the
worktree, each comparison of the source, and `worktree add`.

*Durability.*  A failed `fsync` after a rename is taken as a success of the rename.
The loss of unsynced data with a power failure is not modelled; a crash is the
death of a process.

*Registration.*  In Cleanup a worktree is registered from the start.  In Workflow
`create_worktree` is one step, which may fail and then removes what is at the path;
in Worker it fails only when the commit has moved.  A cleanup that has asked git for
the worktrees before `git worktree add` registers one can report `cleaned` and leave
that registration behind.  No module shows it: it takes git's own steps, whose order is not part
of this repository.

*Workflow.*  Sealing a bundle, creating a receipt and each phase of a cleanup are single
steps, and an integration is two, the comparison and the write: Seal, Cleanup and
Integration are their detail, and what those modules find violated there (section 5) is
not in Workflow.
Loading the manifest and reading the evidence at the start of `review` and
`integrate` are one step, as the evidence is only ever created or discarded, and is
read again before it is used.  The reviewer's answer comes with the sealing of its
receipt.  The tree never returns to an older version, so the user does not undo an
edit.  A delta is never empty.  The context of plan and review (goal, criteria,
risks) is part of the task.

*Worker.*  One path stands for those that may be changed, and a bit for the others;
the model allows children to touch index and commit, which a sandbox may prevent.
The user's repository is as captured, edited, or with a new commit, and the user may undo an
edit.  Errors of git and of the file system other than those named are left out, each
ends the command like a refusal.  What descendants do after the command has ended is not
explored.  The failure's cleanup is Workflow's.

*Routing.*  Lists of eligible routes are sets with a first member.  The facts that explain a
refusal in words are left out.  The reviewer's run is one step, with an approval or
without; which model gives the verdict is not modelled, as the code has no evidence of it
but the probe's, which is what the receipts are bound to.

*Data.*  The envelope and its encoding are the evidence it stands for, equal
evidence having equal hashes.  HEAD and the index are not paths of Integration.

*Not modelled.*  `snapshot`, `validate-config`, `setup-providers` and
`provider-exec` change no state that is shared with another command.  Canonical
encoding, the platform's sandbox policies, the parsing of answers and configuration files,
setup and packaging: sequential code over data and platform I/O, with no interleaving
and unit tests beside it.  Renames, path aliases, content filters and submodules,
which are refused (a rename outside the index is a deletion and a creation).  The output
collectors of `run_process`, their limits and the redaction of what they collect.

## 9. Plan

In this order, by what a wrong step would cost:

1. InvocationFiles, Consumption, Cleanup, CleanupProofs.  *Done.*
2. Seal, Invocation.  *Done.*
3. Integration.  *Done.*
4. Workflow, Authority, WorkflowProofs.  *Done.*
5. Processes, Snapshots, Worker, SnapshotsProofs, WorkerProofs.  *Done.*
6. Routing, Authorization, AuthorizationProofs.  *Done.*
7. **Worktree**: `create_worktree` as git's own steps (`worktree add`, and after an
   error `remove --force` and the removal by path) composed with Cleanup, once git's
   order of steps has been established.
8. SealProofs, IntegrationProofs, InvocationProofs, and the refinement in
   WorkflowProofs.  *Done.*
9. The seal properties beside overlapping cleanups, in InvocationProofs.  *Done.*
