# A TLA+ verification project for CRISP reasoning compression

The repository trains a reasoning model to compress its own reasoning by
on-policy self-distillation. Most of it is `src/miles`, a reinforcement-learning
and distillation framework (trainers on Megatron, rollouts on SGLang, a Tinker
gateway for remote clients), beside the older CRISP pipeline in `src/workspace`.
The numerics are tested by its own suites. This project is about the control:
what happens when calls fail, arrive late, arrive twice or interleave.

## The system

| Part (paths below `src/miles/`) | State it keeps | Operations | What is hard |
|---|---|---|---|
| Tinker gateway, `miles/tinker/core` | sessions and leases, models, adapter slots, command queues, futures | create_session, create_model, submit, sample, heartbeat, the lease sweeper, the dispatcher | one event loop with many awaits, one trainer lock, retries by the SDK, out-of-order commands |
| Trainer controller and cells, `miles/ray/train` | cell states, quorum id, membership of the process group | init, train, update_weights, save_model, reconcile | partial failures, healing while others fail, retries |
| OPSD in the actor, `miles/backends/megatron_utils/opsd*.py`, `miles/utils/opsd_cyclic.py` | live weights, host backups by tag, Adam, counters | begin and complete a cyclic step, score the teacher | position in the schedule kept in many places, one model slot for student and teacher |
| OPSD study evaluation queue, `miles/utils/opsd_study.py`, `tools/opsd/serve_evaluation_queue.py` | four directories, exports, heartbeat | save hook, worker | no locks, two processes, crashes between file operations |
| Training drivers, `train.py`, `train_async.py`, `train_multi_policy.py` | the loop's rollout id | train loop, save, publish, evaluate | overlap of generation and training |
| Rollouts, `miles/rollout`, `miles/ray/rollout` | prompt buffer, groups in flight, sessions, engines' versions | generate, recycle, drain, evaluation dispatch | staleness, a full buffer, crashes between saves |
| Workers, `miles/utils/workers` | registrations, RPC calls, process trees | call, reconcile, register, supervise | duplicated requests, stale registrations |
| Fault tolerance, `miles/utils/ft_utils` | health of cells | check, suspend, resume | a slow cell against a dead one |
| Inference fleet, `miles/ray/rollout` | server cells, router, the context lock, the present script | reconcile, weight update, take-over | engines lost during an update, a lock that outlives its holder |
| CRISP pipeline, `src/workspace` | step counter, teacher copy | sequential training loop | little besides numerics |

How they interact. A driver awaits one call at a time of the rollout executor
(batches), the trainer controller (train, save, publish) and the inference
controller (engines). The controller forwards calls over RPC to the workers of
its cells and learns from the worker provider, by callback, which cells exist.
The Tinker gateway drives the controller's per-slot calls under one lock. The
save hook of the actor talks to the evaluation worker through files only.

What makes each part correct: the gateway runs every command exactly once, in
its client's order, on its own adapter, answers it, and gets its slots back; the
controller applies every rollout once to every replica; a cyclic run makes
exactly the updates its plan asks for; the evaluation queue skips no point and
deletes an export only when it is no longer needed; drivers never train on
weights or data that are too old, and no group twice; the router only knows
engines with current weights; an RPC runs at most once and its caller hears the
truth; the fleet and the parents of a reconcile loop converge to what the world
is.

## Modules

`EXTENDS` and `INSTANCE` are the arrows.

    MCTinkerGateway ------> TinkerGateway ---> TinkerScheduler
    TinkerGatewayProofs --^       \......refines......> SlotPool
    CyclicOpsdProofs -----> CyclicOpsd ......refines......> PhasePlan
    TrainerGroupProofs ---> TrainerGroup
    MCEvaluationQueue ----> EvaluationQueue <--- EvaluationQueueProofs
    FullyAsyncRolloutProofs --> FullyAsyncRollout
    InferenceFleetProofs -> InferenceFleet
    WorkerRpcProofs ------> WorkerRpc
    ReconcileProofs ------> ReconcileLoop, Registration

A module with theorems is named after the module it is about; ReconcileProofs is
about two, the two loops by which the controllers learn what cells there are (it
extends both, which is why ReconcileLoop's behaviour is `LoopInit`, `LoopNext`,
`LoopSpec`).

TrainerGroup and the components of the last three lines meet through what one
assumes of the other: TrainerGroup and InferenceFleet let cells appear, vanish
and be replaced in any order, which is what ReconcileLoop and Registration
deliver; all of them call workers over WorkerRpc, whose outcomes (result, error,
unreachable, timeout) are the outcomes of their calls.

**TinkerScheduler** (`model_queue.py`, `scheduler.py`, `types.py`) holds the
pure part of the scheduling as operators: contiguous admission by
`LastContiguous`, the open run of batch commands of a model, barriers, and
`NextUnits`, the set of units `schedule_next` may return. Units are sets of
data, each datum named by model, seq id and index.

**TinkerGateway** (`service.py`, `future.py`) is the gateway on its event loop.
Every stretch between two awaits is one action; `lock` is the FIFO of
`_trainer_lock`, and tasks (a creation, a closing, the sweeper, the dispatcher)
carry their position in `creator`, `closing`, `sweeper` and `dispatcher`
variables. The trainer is external: a call succeeds, returns an error or raises
(`TrainerFaults`). What an adapter slot holds, and which data ran, are history.
**SlotPool** says what clients rely on: a slot is leased once, never shared, and
given back or lost.

**TrainerGroup** (`ray/train/group.py`, `cell.py`) models the controller: a call
of the driver passes through the phases attempt, preparing, training and
calling, each ending with a gather; `task[i]` is the awaited call to a cell with
the generation of the object it was made on. Weights are the sequence of steps
taken, so that equality of replicas and "applied once" can be stated. Marking a
cell errored and killing its workers are one step. A publication reaches the
engines (`Deliver`) before its call returns, and also when that call fails after
all. `AtomicExchange = FALSE` lets the gradient exchange succeed at one survivor
and fail at another, which collective communication does not exclude.
`ChecksNan` is `check_for_nan_in_loss_and_grad`, on by default: bad gradients
raise, which is a call that fails. Without it the gradients are looked at before
the step: all cells skip a step whose summed gradients are not numbers
(`Exchanged`), and the result of that look overwrites the one of a failed
exchange, so that a cell which reports its attempt discarded may have stepped
(`TrainReturnsDiscarded`, model.py:618-648).

**CyclicOpsd** (`utils/opsd_cyclic.py`, `megatron_utils/opsd_cyclic.py`, and
what `train.py`, `generate_hub/opsd.py`, `actor.py` and `opsd.py` do in this
mode) models a run as its driver sees it. Weights are version numbers. A check
that raises is a guard: when it does not hold only `Fails` is left.
**PhasePlan** is the curriculum as two nested loops; the code never loops over
phases but derives everything from the rollout id, and the refinement says that
this comes to the same. Every update is followed by a save, which the launcher
of the study asks for (`run_qwen3_4b_opsd_study.py:116`) and the argument checks
do not: with another `save_interval`, or none (`train.py:133-137`), fewer phase
ends are exported.

**EvaluationQueue** (`opsd_study.py`, `serve_evaluation_queue.py`,
`opsd_checkpoint.py`) has one action per file operation of the hook and of the
worker: looking a job up in three directories takes up to three steps, counting
two, and finishing a job is retire, report, unlink. A failed save is repeated on
`Spare` further cells, which the cyclic mode refuses (an assumption of the
module), also when it fails after its hook posted the job (`posted`). A save
first removes what an earlier one of the same step left (`Export`), and a write
that fails removes the rest, so that a snapshot is either complete or none: a
half-written directory has no marker, and nobody uses it. Only exports without
`--save` are modelled, the mode in which exports are temporary. Timings are
events: the deadline of an hour and a heartbeat older than two minutes; a
heartbeat file that is absent counts as old.

**FullyAsyncRollout** (`rollout/fully_async_rollout.py`,
`submission_scheduler.py`, `fully_async_data_buffer.py`, `data_source.py`,
`train_async.py`) is the worker loop, one drain and the driver, interleaved
between their awaits. A group is its index; its generation records how many
samples are left and which weight versions their tokens carry. `engine` is what
the engines serve, `published` what the rollout executor was told, and the two
differ while a publication is under way. A crash takes the whole run down and
restarts it from `saved` (the trainer) and `dataset` (the data source).

**InferenceFleet** (`inference_controller.py`, `server_cell.py`,
`rollout_server.py`, `health_checker.py`, `hot_restart.py`, `context_lock.py`)
follows the controller through a weight update. `locked` is the context lock
while it is detached to an update; any other holder holds it for one step. The
cells' states, the router, the registrations that are in flight (`registering`,
which outlive an update that failed) and one checker per followed cell are
state; the world starts, replaces and loses engines at any step. The trainer's
part of an update may fail for any reason, which aborts it (`AbortUpdate`); it
has to fail, for liveness, when an engine of the update is gone (`EngineLost`).
The orchestration script may die at any step and be relaunched.

**WorkerRpc** (`utils/workers/rpc`) has the client's handle and its calls, the
requests and replies on the network, and the server's records, of one worker. A
reply that nobody waits for is dropped; a submission whose connection was given
up may still reach the server, whereas an abandoned poll that still waits there
only delays the purge of its record (store.py:59-60) and is left out. Deadlines
and times to live are events.

**ReconcileLoop** (`utils/workers/reconcile`) watches a log of changes. What a
pod says is told apart by the index of the change that said it, so "the store is
the world as of the cursor" is an equation.

**Registration** (`utils/workers/registration`, `polling_reconcile_loop.py`) has
the reporters, the snapshots on their way, the hub and the polling loop. A
cell's info is a number, new with every change. Sending the same snapshot again,
which only keeps a reporter from expiring, is abstracted: `Send` is enabled when
there is news, and `Expire` says when sixteen sends in a row go without effect.

## What TLC checks

Bounds are constants, named in the modules and set in the `.cfg` files.

| Run | Instance | Question |
|---|---|---|
| TinkerOrder | 2 models, 2 slots, 2 commands each in any order with up to 2 data, token budget 2, failing calls, clients that do not wait for create_model | Do commands wait for their predecessors; does every command run once and in full, packed and merged as it may be; does a failed model run nothing more, and is it closed only for a cause of its own? |
| TinkerLease | 2 models of one mortal session, 1 slot, budget 1, calls fail or raise, retries before and after the TTL of a future, fairness | Is a slot ever shared, handed out dirty, or left with a model nobody can reach; do units find their adapter; is SlotPool implemented? Does a verdict ever change, is every request answered, every lapsed lease reclaimed?  |
| TrainerHeal | 2 cells, 2 rollouts, 3 attempts, each cell replaced up to twice, all driver calls, atomic exchange, bad gradients raise, fairness | Is every rollout applied once; do replicas agree and contain what was published (`WeightsInv`); does a quorum id name one membership; do sender and receivers of a checkpoint meet; do published weights never go back; does the controller give up only for cause; does every call end? |
| TrainerSplit | 3 cells, non-atomic exchange | Violation: see findings. |
| CyclicDefault | 7 + 4 updates, 8 cycles (the values of the tests), refresh, reset, colocated | Do the actor's own checks never reject; is every phase end exported; is the plan implemented? |
| EvalRuns | a cyclic and a plain run of 2 points each, the save of the second repeated on another cell, fairness | By how much is the queue overfilled; is no job lost or queued twice, does the worker delete no export that is still needed, is no point skipped? Does a lost worker stop training, and does every run end? |
| FullyAsync | 3 rollouts of 2 groups of 2 samples, 1 group in flight, buffer of 1, staleness 0, updates, saves and evaluations every second rollout, 1 bad sample, 1 crash, fairness | Is every group in exactly one place and the account of samples exact; is a batch ever stale; is a group trained on twice across a crash; does the run end? |
| InferenceFleet | 2 cells, one of them replaced and checked, 2 updates, 2 scripts, 1 failed call, fairness | Is every engine that gets requests up to date and every lock held for a reason; is a verdict of the present epoch; does an update end although engines never come? |
| FleetTakeOver | 1 cell, 1 update, 2 scripts, no failed call | Violation: see findings. |
| WorkerRpc | 2 serial calls, 3 server processes, a network that loses and delays | Does a call run once at most, and where it was meant to; is what its caller hears true; does every call end? |
| ReconcileLoop | 2 objects, 2 parents, 3 changes, 1 relist or failed reconcile, compaction at any time, fairness | Is a parent whose members changed always queued, retried or about to be read; do all parents converge? |
| Registration | 2 cells, 2 deployments, 2 infos, 1 crash, 1 fault, fairness | Do infos never go back; does the fleet converge to what the living reporters see? |

Why these bounds. Interference needs two of a kind: two models for one slot or
one unit, two runs for one count, two cells for a survivor and a failed one, two
calls for a queue, two deployments for a conflict. A split backward pass needs
more tokens than the budget; a gap in the seq ids needs two commands that arrive
in the wrong order. Four evaluation points of two runs fill the queue of two
jobs. A stale entry needs a publication between its generation and its drain,
and a deferred drain needs the update interval of two. Two updates are needed to
tell current weights from any weights, two scripts for a take-over. Three server
processes let a handle meet a process it never pinned. Three changes move an
object away from a parent, to another one and out. What one fault can do is seen
with one; two faults meet in TrainerHeal, where each cell may fail in each
generation (its invariants also hold with three cells and two attempts when no
other calls interleave, 6.8 million states, which is left out of the runs for
their number only). The other policies of the cyclic mode, and phases of other
lengths, are left to the proofs.

Every action and alternative fires in some passing run, and for every property
there is at least one plausible mistake in the code (a dropped guard, a swapped
order, a missing reset, an off-by-one) that makes TLC report it violated; they
are listed under `mutants` in `PROJECT.json`. Invariants that are conjunctions
(`GroupInv`, `JobsInv`, `GroupsInv`, `CallsInv`, ...) are made of named parts
where the parts can be read alone. The inductive invariants of the proofs are
invariants of runs, each checked before it was proved: `SlotInv`, `ScheduleInv`,
`GroupInv`, `WeightsInv`, `JobsInv`, `FleetInv`, `CallsInv`, `LoopInv`, `HubInv`
and, with `FreshEnough`, `GroupsInv`, whose proof replaces the counts of
`OnePlace` by what they say of the groups: no two places share one (`Spread`)
and no place repeats one (`NoRepeats`). `Spread` was checked on the instance of
FullyAsync too and is left to the proof since, as it lengthens every state's
evaluation. `CommandInv` was checked on the instance of TinkerOrder while it was
found and is left to its proof since; the three small invariants that the proof
modules add (`SavedInv`, `LeaseInv`, `AdapterInv`) are only proved. Deadlock is
not checked where the system may stop: a controller that gave up, a run that
ended, a gateway that halted, a world that keeps still.

Fairness. TinkerLease assumes that the event loop runs ready tasks and that
every trainer call returns or raises (a hung cell is killed from outside);
clients owe nothing. TrainerHeal assumes the same of the controller and the
cells; the number of replacements is bounded, as attempts are. EvalRuns assumes
that the hook keeps looping, that a worker that is up keeps working and that a
dead one's heartbeat ages; `RunsEnd` adds that an hour passes (`ClocksRun`).
Starting a worker is never assumed. FullyAsync assumes that, of generation, the
coroutines and the driver's calls, whatever can go on does not all stand still;
in which order is left open, and bad samples and crashes are bounded.
InferenceFleet assumes that the controller, the trainer and a script that lives
go on; no engine owes an answer. WorkerRpc assumes the client's clock and its
timeouts only: neither the network nor the server owes anything. ReconcileLoop
and Registration assume that tasks run and timers fire; the periodic resync and
reporters that died are not counted on.

Assumptions on the environment that the code makes too. When a reporter is
dropped, 240 seconds after its last snapshot was taken in and four times what a
send may take, no snapshot that was sent before that, by whomever, is still on
its way (`Drop`); those that other reporters sent later may be. An engine does
not get the URL of an earlier one that the router could not be told to forget:
the router knows engines by their URL (server_cell.py:212, 239), the model by
their incarnation, and a static port (ray_worker_manager.py:344) would have to
be used again on the same host. A cyclic run that is cut short by
`debug_exit_after_rollout` ends where a suite is due; elsewhere its hook returns
at once (opsd_study.py:47-55) and nothing drains the queue. A run cut short is
otherwise one with fewer `Points`. The requests of a dead reporter process do
not arrive after those of its successor (`Restart`). A weight update of a dead
script may still be carried on by the trainer (`SendWeights`).

## Findings

- *TrainerSplit*: if the exchange ends normally at one survivor and is discarded
  at another, the attempt is retried on both. The first one steps twice, and
  replicas differ, which the event analyzer's rule
  `cross_replica_weight_checksum.py:18` rules out. When the exchange is atomic
  and bad gradients raise agreement holds, for any number of cells, attempts and
  replacements (theorem `ReplicasStayEqual`; TrainerHeal checks it as a part of
  `WeightsInv`).
- *FleetTakeOver*: a script that dies while its weight update holds the detached
  context lock leaves it held. Only the script calls `end_update_weights` or
  `abort_update_weights`; the next script waits for calls that still run
  (`hot_restart.py:97`), of which there is none, and its `abort_all` then waits
  for the lock until it times out (`hot_restart.py:101`), as do all later
  scripts. The docstring of `test_hot_restart.py:449` takes a script that died
  inside `start_update_weights` for the case the wait covers, and the scenario
  of `tests/e2e/deploy/README.md:124` asserts that restarts at random moments
  never fail.

Two instances show further disagreements. They are not among the runs of
`PROJECT.json`; `tlc -config TrainerUnchecked.cfg TrainerGroup` and `tlc -config
EvalResave.cfg MCEvaluationQueue` give the counterexamples in seconds.

- `TrainerUnchecked.cfg` of TrainerGroup (`DiscardedTakesNoStep`): with
  `--no-check-for-nan-in-loss-and-grad`, which several launchers set
  (`run_kimi_k3.py:480`, `run_gemma_4_31b.py:146`, `run_inkling.py:283`),
  `train_one_step` decides about its optimizer step twice. A failed exchange
  sets `valid_step` to False (model.py:619), and the look at the local gradients
  sets it again (model.py:621-630). The cell then steps on gradients that were
  not reduced, reports DISCARDED_SHOULD_RETRY, and the controller repeats the
  attempt on all cells. `indep_dp.py:178` says that all ranks discard, and
  `indep_dp.py:164` warns of a wrong gradient that is applied silently. The OPSD
  modes refuse the flag (`opsd_arguments.py:124`).
- `EvalResave.cfg` of MCEvaluationQueue (`ExportIsImmutable`): a cell that dies
  after its save hook posted the job and before its reply arrives makes the
  controller repeat the save on the next cell (group.py:375-381). That save
  removes the directory of the export (io.py:38-40) while the worker may be
  evaluating it, though the worker takes it for "this same immutable export"
  (`serve_evaluation_queue.py:121`) and `write_checkpoint_dir` asks its callers
  to exclude readers (io.py:26). The worker's digest check turns most such
  evaluations into failed jobs. When the repeated save fails too, a queued job
  is left without an export.

Two more hazards are real and have no property, because the code holds nothing
against them. `create_model` returns the model id at once but loads the slot
when its task gets the trainer lock: a client that does not wait for that future
can have a backward pass executed and reported done before, and `load_slot`
zeroes its gradients. And a save that is repeated after its job was evaluated
exports again what nobody will retire.

## What is proved

The theorems hold for all values of the constants that satisfy the modules'
named assumptions.

Each proof module has one lemma per action (or per family of actions with the
same effect on the invariant), lemmas on the operators the model is built from,
and the theorems at its end.

**Gateway** (`TinkerGatewayProofs`, for any models, sessions, slots, budgets and
commands). Three invariants, one on top of the other.

- `SlotInv`. Slot exclusivity alone is not inductive: that a slot returns to the
  pool once and clean rests on the discipline of the trainer lock
  (`TrainerLockHeld`: who is inside a trainer call holds the lock), on a model
  being loaded by its creation only and once (`LoadsOnce`), and on a model that
  is not initialised having left nothing in its slot (`SlotsAreFresh`).
  `TypeCorrectness`, `SlotsAreExclusive` and `FreeSlotsStayClean` are
  corollaries of `SlotsInvariant`, and `GatewayImplementsSlotPool` maps every
  step to a step of SlotPool or a stutter. Type correctness includes that
  `LastContiguous` is well defined, which needs that the finite set of accepted
  seq ids has a maximum.
- `CommandInv` (`CommandsAreConsistent`) is what the queues need: nothing is
  known of a command nobody sent, queues are contiguous, the data of a unit stay
  ready while it is at the trainer and clients keep sending (`UnitStaysReady`),
  outcomes that `run()` still holds are due, and each datum of an unfinished
  request was executed, is at the trainer or has not been issued
  (`DatumsAreCounted`). From it `BarriersHoldBack` and `EachCommandRunsOnce`,
  and the action properties `FuturesKeepTheirVerdict` (no step moves a future
  backwards), `FailedModelsStop` and `NoModelClosesOtherwise`.
- `LeaseInv` and `AdapterInv` relate open models to sessions and to what is in
  their slots. `LeasesAreReclaimed` follows from the first: while the sweeper
  closes models, those without a lease are the ones it is going to close.
  `UnitsFindAdapters` follows from the second under the hypothesis that clients
  wait for create_model (`~EagerClients`); without it the statement is false,
  which is the hazard described above.

**Trainer controller** (`TrainerGroupProofs`, for any number of cells, attempts,
rollouts and replacements). `GroupInv` (`GroupIsConsistent`) adds to the two
statements of interest that an awaited call fits the phase and was made on its
cell in the state it needs (`CallsFitPhase`), that every alive cell takes part
in what is going on (`AliveTakePart`), that quorum ids are given once
(`QuorumsAreNew`), and that the one cell that sends its checkpoint still has to
serve whoever waits for it, unless it failed (`TransfersMeet`): what could make
sender and receivers wait for each other is caught here, and not by `CallsEnd`,
for which a call that hangs ends by its timeout. A cell that is replaced while a
call is under way gets a new generation, and generations only grow, so the call
never concerns the new object. `GivingUpHasCause` holds without further
hypotheses. Under `AtomicExchange` and `ChecksNan`, which TrainerSplit and
TrainerUnchecked.cfg show to be needed, a survivor that stepped and one that
discarded exclude each other, and `WeightsInv` (`WeightsAreConsistent`) is
inductive: alive cells, and healed ones that are about to be, hold the same
sequence with one step for each rollout, apart from the step of the attempt that
is ending, and what was published is a prefix of it. From it
`ReplicasStayEqual`, `RolloutsApplyOnce` and `PublicationsGoForward`. Without
`ChecksNan` a rollout whose gradients are not numbers is skipped by design, so
"applied once" is then not what the code promises.

**Cyclic OPSD** (`CyclicOpsdProofs`, for any phase lengths, number of cycles and
policies). `ScheduleInv` ties each of the copies of the position in the schedule
to the driver's rollout id. The arithmetic is in lemmas on division with
remainder (what the quotient and remainder of n + 1 are, given those of n). From
them `PositionsAgree`; then `ChecksAlwaysPass`, as each check compares two of
the copies, `PhaseEndsAreExported`, and `RunImplementsPlan`, where completing an
update at the end of a phase, at the end of a cycle and elsewhere are the three
steps of the plan.

**Evaluation queue** (`EvaluationQueueProofs`, for any number of runs, points
and repeated saves). `JobsInv` (`QueueIsConsistent`). What a hook found in one
directory has to stay so while it looks into the next (`RunInv`), which holds
because jobs move from pending to running to done only and a hook is the only
one to post its job. An export that an evaluation still needs is not promised to
be there: EvalResave.cfg shows that it may be gone. What holds is that the
worker retires none before its evaluation and that no other save touches it
(`RetiredAfterEvaluation`): if it is gone, the save of that very job is being
repeated, or was and failed. The bound on the queue is a counting argument
(`PlacesAreCounted`): a run that has counted and not posted yet reserves a
place, and places taken and reserved never exceed the capacity by more than the
number of other runs. `NoPointIsSkipped` also needs that jobs of one run are
done in order (`DoneInOrder`), since a hook that ends has looked at its last job
only.

**Fully asynchronous rollout** (`FullyAsyncRolloutProofs`, for any sizes of
groups, batches and buffers, any intervals, staleness, numbers of rollouts, bad
samples and crashes). The inductive invariant has three parts. *Data*: the eight
places a group can be in are disjoint and together the groups this life took
(`Spread`), and none holds a group twice (`NoRepeats`); every step moves one set
of groups from one place to another (`GroupsMove`), new ones only enter in
`Submit`, and the counts of `OnePlace` follow (`CountsFollow`). *Work*: the
account equals the number of pairs of a group in generation and an unfinished
sample of it, so that resetting it when no group is pending is no correction but
a restatement, and `Room` never overdraws the budget (`RoomFits`). *Course*: per
phase of the driver, whether a drain is under way and with which version.
`FreshEnough` (`BatchesAreFresh`) rests on it: between the drain's filter and
training no publication happens, because the driver starts a drain before an
update only if that update publishes nothing. `ServedSincePublish` bounds the
rollouts served between two publications by the position in the update interval,
and with it the assertion of the executor never fires. `NothingTrainedTwice`
(`NothingIsTrainedTwice`) follows from `Spread` within a life, and across lives
from `CheckpointsFit`: the data source is saved after the trainer and so covers
all the groups the checkpoint was trained on. Its exception, `reread`, is part
of the property: a trainer checkpoint without its index makes `load` start the
dataset over. `GroupsInv` is theorem `GroupsAreKept`.

**Inference fleet** (`InferenceFleetProofs`, for any cells, updates, scripts,
replacements and failed calls). `FleetInv` (`FleetIsConsistent`). Incarnations
of an engine never come back (`EnginesAreNew`), so a routed engine that lives is
the one its cell stands for (`RoutesAreKnown`); while the context lock is
detached to an update the cells stay as in its snapshot and the update ends only
when all of them were reached (`LockHolds`); a registration that is still in
flight carries the hash it was made for. `RoutedEnginesAreUpToDate` is a part of
it. `VerdictsAreOfThisEpoch` follows from `CheckersAreCurrent`: a checker
forgets its failures when it sees another epoch, and a probe that spans two is
dropped.

**Worker RPC** (`WorkerRpcProofs`, for any calls and server processes).
`CallsInv` (`CallsAreTrue`): at most one message of a call is on its way
(`OneAttempt`), a submission on its way means that the call has not run, and the
record of a call that ran is missing only in another process or when nobody
needs it (`RecordsLast`). "At most once" and the truth of outcomes rest on both.

**Reconcile loop** (`ReconcileProofs`, for any objects, any finite set of
parents and any changes; a queue that names every parent of an infinite set is
not a sequence). `LoopInv` (`NothingIsLost`): an event changes the members of
the old and the new parent of its object only and queues both, so what a
reconcile has read is fresh or its parent is queued again (`ReadsAreFresh`).

**Registration** (`ReconcileProofs`, for any cells and reporters). `HubInv`
(`HubIsConsistent`) and the action property `HubNeverGoesBack`: the hub compares
sequence numbers, not infos, so that numbers order infos has to be an invariant
of everything on the network (`WorldIsNewest`, `LaterIsNewer`, `FreshIsNewer`).

Assumptions are the named `ASSUME`s of the modules (ranges of constants) and the
three hypotheses above (`~EagerClients`, `AtomicExchange`, `ChecksNan`), which
are constants of the models.

Every invariant and action property of a passing run is a theorem. Only
model-checked is liveness, which this prover does not reach: `RequestsSettle`,
`LapsedLeasesAreReclaimed`, `CallsEnd` of TrainerGroup and of WorkerRpc,
`LossIsNoticed`, `RunsEnd`, `RunEnds`, `UpdatesSettle`, `Converges` and
`FleetConverges`.

## Not modelled

With the reason in `PROJECT.json`: numerics, conversion, dashboards, scripts,
data preparation and rewards (no state of interest), which are most of the
repository's lines; process supervision; evaluation dispatch; rollout sessions.
Within modelled parts:

- the gateway: sampling;
- the controller: per-slot calls, `load_state`, and critics, with the one
  NonRetryableError that ends a call while a cell is alive (cell.py:101-102,
  group.py:476-477); cyclic OPSD: learning-rate values; the evaluation queue:
  what an evaluation computes;
- fully asynchronous rollouts: the buffer of several policies, metrics,
  evaluation on a snapshot (it does not pause the producer), critics, the reward
  model of a whole group (inference_rollout_common.py:186), intervals that are
  None (misc.py:189) and the saves and evaluations that the end of an epoch adds
  (misc.py:196);
- the fleet: colocated and frozen engines, offloading, the wait for the expected
  number of cells, the evaluation fleet, the mini fault-tolerance controller,
  whose actions are replacements of cells, which happen at any time anyway;
- RPC: `probe_is_dead`, `wait_idle`, malformed requests and 5xx answers, several
  concurrency groups;
- the reconcile loop: stopping it, events that change an object in place;
  registration: a restart of the hub's process, which ends the controller too.

## Plan

What is left is more of the system: sampling in the gateway, rollout sessions,
the EMA teacher, the teacher copy and checkpoint order of the CRISP trainer.
