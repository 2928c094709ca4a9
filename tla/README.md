# prime-rl, in TLA+

A verification development for prime-rl: the asynchronous RL pipeline
(orchestrator, trainer, the weights and batches between them), its restart
after a crash, the trainer that serves several runs, the elastic inference
pool, and the persistent shell of the terminal environment. It models control
and leaves out the numbers (losses, advantages, token values). Paths are
relative to `src/prime_rl/` of the repository unless they start with
`environments/`.

## 1. The system

| Component | State | Operations | Talks to |
|---|---|---|---|
| Rollout dispatcher (`orchestrator/dispatcher.py`) | `groups`, `inflight`, `inflight_permits`, `mode`, gate event, `out_q` | `fill_inflight`, `handle_completed_rollout`, `emit_rollout`, `drop_group`, `on_version_pending`, cancellations, `stop` | sources, env tasks, watcher (observer), main loop (queue) |
| Orchestrator (`orchestrator/orchestrator.py`) | `progress.step`, `draining`, `drain_checkpoint_step`, the gate | `main_loop`, `finalize_train_batch`, `update_dispatch_gate`, `begin_draining`, `maybe_trigger_eval`, `maybe_save_ckpt`, `stop` | dispatcher, sinks, transport, watcher |
| Weight watcher (`orchestrator/watcher.py`) | `ckpt_step`, `policy.version` | poll, `apply_policy_update` | `broadcasts/` directory, engines, observers |
| Train sink and source (`train_sink.py`, `train_source.py`) | pending groups, pending batch and its tokens | `add`, `process_group`, `process_batch`, `next_example` | main loop, dispatcher |
| Eval sink and source (`eval_sink.py`, `eval_source.py`) | queue, per-epoch groups and batches | `trigger`, `next_example`, `add` | main loop, dispatcher |
| Trainer loop (`trainer/rl/train.py`) | `progress.step` | broadcast, checkpoint, wait for a batch, train | transport, `broadcasts/` |
| Weight broadcast (`trainer/rl/broadcast/`) | step directories, `STABLE` and `NCCL_READY` markers | `broadcast_weights`, `maybe_clean` | watcher, engines |
| Multi-run manager, packer (`trainer/runs.py`, `trainer/rl/packer.py`) | run slots, per-run progress, `ready_to_update`, buffers | discover, synchronize, pack, evict | transport, trainer ranks |
| Transports (`transport/`) | files or sockets per run | send, receive, reset | orchestrator, packer |
| Checkpoints (`orchestrator/ckpt.py`, `trainer/ckpt.py`), launcher (`entrypoints/rl.py`, `utils/pathing.py`) | step directories on both sides | save, clean, resume, launch, terminate | orchestrator, trainer |
| Elastic pool (`utils/elastic.py`), client (`utils/client.py`) | servers and their status, desired adapter, lock | `sync`, `_sync_server_adapter`, `update_weights` | DNS, inference servers, dispatcher |
| Terminal shell (`environments/vmvm_tb_v2/vmvm_tb_v2/_vacli/backend.py`, `env.py`, `evaluation.py`) | session directory, sequence number, pending command; in the container a FIFO, a reader and marker files | `_fifo_run`, `restart_session`, `recover_last`, set-up and tear-down | agent loop, grader, ssh tunnel |
| Batch preparation (`trainer/batch.py`) | none | bin packing, padding | packer |

What makes it hard. The orchestrator is one asyncio loop whose coroutines
suspend in the middle of their handlers: the dispatch loop, the watcher and the
main loop change the dispatcher's tables and block on one bounded queue.
Orchestrator and trainer are two processes joined by files, each with its own
step counter, its own checkpoints and its own idea of how far the other may be;
either may be killed anywhere and both are resumed from what is on disk. With
several runs, slots are reused while late data of the previous run is under
way, and ranks learn of it at different times. Inference servers restart behind
the pool's back. The terminal's tunnel drops while a command is being sent, and
the remote script may go on without its client.

What correct means, per component:

- dispatcher: each rollout of an opened group reaches the sinks exactly once,
  permits are exact, groups do not leak, stale work does not survive,
  everything dispatched arrives, evals complete;
- barrier (orchestrator, watcher, trainer, broadcast): the orchestrator's lead
  is bounded, weights and batches flow forward, NCCL transfers pair up,
  directories are not deleted under a reader, runs complete;
- main loop and sinks: batches are sound, stop conditions are hard, a joint
  stop ends at a checkpoint, an eval batch is one whole epoch, every epoch is
  evaluated but for what `is_idle` does not see at the end, a drain ends;
- multi-run: nothing of a run reaches its successor in the slot, samples are
  trained once and all of a step before its weights are announced, nobody starves;
- restart: both sides find a step that fits together, and go on on one lineage;
- elastic pool: a server that may be picked serves the policy; a healthy server
  is not shut out, unless some server hangs for ever;
- terminal shell: a command runs once and in order, an answer means that it ran,
  and ran whole unless it was cut while being staged, the session is not
  replaced silently, and every command is answered.

## 2. Modules and their correspondence to the code

`PROJECT.json` maps every definition to its lines. Definitions called
"Mutant of" are faulty variants of the definition that follows them; nothing
uses them, they exist to show that a property can fail.

### `Dispatcher.tla`, `EmitOnce.tla`

Three coroutines of one event loop. The loop is cooperative, so a step of one
coroutine requires the others to be suspended in an await that can really wait
(`DispatchAwaits`, `WatcherAwaits`); code between two awaits is never torn.
`ClientWaits` and `LimiterWaits` decide whether selecting a client and the rate
limiter are such awaits. (`out_q.put` is one only when the queue is full.)

| In the model | In the code |
|---|---|
| member `<<g, i>>`; group `g` | one rollout; one `GroupState` |
| `toSchedule`, `emitted`, `pinned` | `rollouts_to_schedule`, `emitted`, `pinned_client` |
| `inflight`, `finished`, `aborted` | keys of `self.inflight`; tasks done; tasks that ended cancelled |
| `dpc`, `picked`, `acquiring`, `acquired`, `todo`, `hold`, `holdGroup` | locals and program point of the dispatch loop |
| `wpc`, `stale`, `dropping`, `dropGroup`, `dropFound`, `dropPass`, `dropTasks` | locals and program point of `on_version_pending` and `drop_group` |
| `ContinueGroup`, `OpenGroup`, `SwitchToTrain`, `FillReturns`, `SelectClient`, `AcquirePermit`, `LaunchTask` | `fill_inflight`, `try_schedule`, `next_fresh_group`, `schedule_group_rollout`, `acquire` |
| `Wake`, `SkipClaimed`, `HandleTask`, `EmitResult`, `ResumePut`, `EmittedAll`, `HandledAll` | the rest of `start`, `handle_completed_rollout`, `emit_rollout` |
| `VersionPending`, `DropGroup`, `EmitMarker`, `ResumeMarker`, `MarkUnscheduled`, `FinishDrop`, `CancelsSettled`, `DropsDone`, `VersionInstalled` | `on_version_pending`, `drop_group`, the watcher's update |
| `TakeRollout`, `TriggerEval`, `CloseGate`, `OpenGate`, `BeginDraining`, `Stop`, `KillLoop` | what the main loop does to the dispatcher |
| `FinishTask`, `AbortTask` | the env (external) ends a task |

Group scoring, where one task runs a whole group, is `Scored`. Which live group
is continued and which queued example is popped is any of those the code could
pick; `policy_version` of a group is not tracked; each group is opened once.

`EmitOnce` is the dispatcher's docstring as a specification of its own:
rollouts of an opened group are owed, an owed rollout is put on the queue
exactly once or given up. `Dispatcher!EmitsOnce` is this specification under
the mapping of owed to "opened, and neither queued, taken nor given up". Giving
up happens in draining, in shutdown, and when a task ended cancelled by itself.

### `AsyncBarrier.tla`

The loop dispatcher -> batch -> trainer -> weights -> watcher -> gate ->
dispatcher, for one run from step 0 with `max_steps`. A unit of work is a group
that reaches the batch whole or not at all. `SendBatch` and `ShipDone` split
`finalize_train_batch` at its last await: the trainer sees the batch before the
orchestrator updates its gate and step. `StartUpdate`, `StartLoad`,
`FinishLoad`, `FailLoad` split `apply_policy_update` at its awaits. The trainer
is at the `top` of its loop (broadcast and clean-up), `ready` (waiting for
`NCCL_READY`) or at `check` (end of run, or wait for the batch).

The dispatcher is abstracted to where its groups are, because that decides how
far the orchestrator may run ahead: `inflight` (with a permit), `held` (finished
and its permit free, but `out_q` is full), `queued` (in `out_q`), and `dropping`
(dropped by `on_version_pending`, its markers waiting for room). `Finish` frees the permit
before the put (`dispatcher.py:496`, `547`), so the dispatcher may fill the place
again while the main loop is elsewhere and the gate still open. The main loop
takes a group (`TakeGroup`) and adds it to the batch after the awaits of the
sink (`GroupKept`, `GroupLost`). Left out: a dispatch suspended in `acquire`
when a drain begins; its group comes too late for any batch. `Dispatcher.tla`
has the interleavings inside the dispatcher, and takes the gate as an input that
may change at any await. The two meet in `dispatch_allowed`.

### `MainLoop.tla`

The main loop with both sinks and both sources. The dispatcher is reduced to
what `EmitOnce` promises, in the form the sinks rely on: each opened group
yields its rollouts, in any order and interleaving. Its `is_idle` is as inexact
as in the code: `DispatcherIdle` overlooks up to two eval examples (`Unseen`), one
whose finished rollout waits for room in `out_q` and one scheduled in part with
nothing in flight, and the loop may leave without them. Train rollouts that a
drain cancels never arrive; those already in `out_q` do. One action is one iteration
of `main_loop` up to its next await; `finalize_train_batch` is `Finalize`,
`Send`, `Advance`, because the trainer may act between them. `AddTrain` is
`TrainSink.add` with all it calls; `Fate` says where a rollout is lost (error,
pre-batch filter, post-batch filter). `GetEval` is `EvalSink.add`. The trainer is
`TrainerStep`: it trains what is shipped and makes `STABLE` weights where a
checkpoint is due, which a joint stop waits for. The configuration (batches by
rollouts or tokens, which stops are set, evals) is a variable that never changes.

### `MultiRun.tla`

Owners create run directories, write a config, send batches and delete the
directory at any time (`Owner`). The master rank follows `MultiPacker.pack`:
`Discover`, `ReceiveFiles` or `ReceiveMessages`, `Discover` again,
`WaitForSamples` or `Pack`, then `Synchronize`, `Train`, `Broadcast`. What the
code indexes by slot (`buffers`, `progress`, `ready`, `received`, the adapter)
is indexed by slot here; the ZMQ receiver's `_pending` is indexed by run id. The
other ranks are one rank, `rankIdx`. A bad sample in a batch evicts its run.
`adapter` is a history of whose samples a slot's parameters have learnt from.

### `Resume.tla`

Both processes over the disk, with kills. A *life* lies between a launch and a
kill. Saves take two steps, so a kill finds partial files. `Start` is the
launcher with `clean_future_steps`, `LaunchFresh` what `validate_output_dir`
demands. `OrchLoad` and `TrainerLoad` are the two resumes, `FirstBatch` the step
the batch receiver starts at. A checkpoint of the trainer holds a model, and a
model is the sequence of the batches it learnt from, so that a property can say
which life and which step each came from.

Assumed: in mode `given` the operator resumes from a step both sides' logs say
was saved in this lineage (`Known`); the orchestrator has written its config
before the trainer discovers the run; `wait_for_weights_timeout` is off; the
watcher's update is one step; the lead `Lead` is what `AsyncBarrier`
establishes (any number in the theorems, two in the run); batches without a trainable rollout do not occur.

### `ElasticPool.tla`

The sync loop (`SyncBegins`, `AddServer`, `RemoveServer`, `CheckServer`,
`SyncEnds`), the adapter sync of one server with the await before, during and
after its load (`PreCheck`, `Load`/`LoadFails`, `PostCheck`), and the watcher's
update (`UpdateAsked`, `UpdateBegins`, `UpdateEnds`), which syncs all servers at
once. `lock` is the `asyncio.Lock` the two share. Servers and DNS are external:
they join, leave, crash (losing the adapter), restart, hang and go on, and a
look-up of the name may fail. A call to a hung server keeps its caller (`Returns`),
for the admin clients have no timeout (`client.py:253`); only a load ends by
timeouts of its own (`LoadFails`). Dispatching is not an
action: its read of `ready_urls` is the set `Exposed`, in every state.

### `FifoShell.tla`

The client's worker thread and the container. A command is a number, its body a
file, its token a line in a FIFO; the reader takes tokens and skips those not
above `__vacli_last` (`Gated`). The combined script is the sequence remove,
stage, push; a drop of the tunnel at any point loses the connection and may
leave the rest of the script as a *ghost* that runs later, possibly with a torn
body. `restart_session` and `recover_last` are `Reattach` to `Recovered`. The
phase says who drives: the agent loop, which recovers, or the grader, which
goes on. `sent`, `answer` and `ran` are histories; `sent` also says whether the
tunnel dropped while the body of a command was being staged (`cut`). A command
may end the reader at once or later, when it is idle (`ReaderDies`). Left out: a
preamble that takes longer than its own 30 seconds, whose `_fifo_run` tears down and
sets up a shell within the set-up under way (`backend.py:1084`, `1357-1363`).

### Proof and model-checking modules

`DispatcherProofs`, `DispatcherEmitProofs` (placing, keeping and the refinement
of `EmitOnce`), `AsyncBarrierProofs`, `MainLoopProofs`, `MultiRunProofs`,
`ResumeProofs`, `FifoShellProofs` and `ElasticPoolProofs` hold the theorems.
`MCDispatcher`, `MCMainLoop`, `MCMultiRun`
and `MCFifoShell` define constants for TLC.

## 3. What the runs show

| Run | Instance | Shows |
|---|---|---|
| `train` | 2 train groups of 2 (one scored as a whole), 4 permits, queue of 1, `max_off_policy_steps` 1, 3 versions, 1 gate closing, self-cancelled tasks, all awaits wait | `NoStaleSurvivor`, `AtMostOnce`, `NothingLost`, `GroupOwes`, `PermitsAccounted`, `ResultsNearFresh` |
| `live` | 1 train group, 1 group-scored eval group, 3 permits, queue of 1, drain and stop, fair | `EmitsOnce` (refinement), `DispatchedReachSink`, `StaleGroupSettles`, `EvalCompletes` |
| `steps` | 6 steps, 2 groups per batch, 2 in flight, queue of 1, both transports, 1 loss, fair | `LeadBounded`, `Pipeline`, `NcclRendezvous`, `RunCompletes` |
| `stops` | 3 train groups of 2, 2 open; 2 eval examples of 2, 3 open; four configurations, 2 faults where there are no evals, fair | `TypeOK`, `ShippedSound`, `StopsAreHard`, `JointStopKept`, `EpochsWhole`, `DrainEnds`, `EpochsEvaluated` |
| `slots` | 2 runs, 2 slots, batches of 2 samples, a budget of 3, both transports, malformed batches, fair | `TypeOK`, `OneRunPerAdapter`, `WeightsCoverSteps`, `NeverCrashes`, `TrainedOnce`, `SentIsTrained` |
| `kills` | 5 steps, interval 2, `keep_last` 2, lead 2, 3 lives, `resume_step` given, fair | `ResumeLoads`, `StepsLineUp`, `PolicyOnLineage`, `OnlyResumeStepLeft`, `ResumePointKept`, `RunCompletes` |
| `pool` | 2 servers, 2 versions, 3 faults (crashes, hangs, withdrawals, failed look-ups and calls), fair | `ExposedServesPolicy`, `HealthyBecomesReady` |
| `drops` | 2 commands, 2 drops, 2 reconnects per phase, fair | `TypeOK`, `RunsOnceInOrder`, `AnswerMeansRan`, `SessionContinues`, `EveryCommandAnswered` |
| `idle`, `cleanup`, `stall`, `latest` | small | violations, below |

Bounds, and why they are enough.

- Dispatcher. A race needs two groups (one dropped, one that goes on) of two
  rollouts (one in flight, one held or not yet scheduled). A queue of one slot
  makes every second `put` suspend; the real queue has at least eight slots, so
  the model suspends in strictly more places. Three versions exceed
  `max_off_policy_steps` twice.
- Barrier. Six steps cover the first step, the steady state and the last two,
  where the code has its special cases. Behind the closed gate, what is in
  flight, in `out_q` and waiting for room in it fills two batches, (2 + 1 + 1) div 2;
  TLC reaches the bound of `LeadBounded`.
- Main loop. Each stop condition and each kind of batch is one configuration:
  `max_steps` with evals that overlap, batches by tokens with a group limit, a
  joint stop whose step multiple is not yet reached when its group count is, and
  one where batches are smaller than groups and the joint stop falls on
  `max_steps`. Two faults per behaviour where there are no evals, none where there
  are: any member of any group may be one. Three open evals are the two a loop
  may leave behind and one it must wait for. Three groups make at most three
  batches of two.
- Several runs. Two runs in two slots exchange slots in every order; the budget
  of three samples splits a batch of two. `MaxGen` is 1: a run id is used once.
  With 2, a run deleted and made again between two synchronizations is in both
  maps that `synchronize_state` compares and gets no reset: TLC then finds
  `OneRunPerAdapter` violated. `WeightsCoverSteps` fails too, and `NeverCrashes`:
  the ZMQ receiver still holds a message of the first life when the second sends
  one of the same step, and its assertion fails. Nothing in the repository says
  that ids may be used again, so this stands as an assumption, of the run and of
  the theorems on these three (hazard `runs.py:404`); that nothing is trained
  twice is proved without it. The selection of samples (`Selected`) says
  what the round robin ends with, and `Pack` that nothing selected fails its
  assertion.
- Restart. Five steps have two interval steps and an end that is none; three
  lives are two kills, the second of which may hit the resumed run before or
  after it saves again. The last life is not killed, so that a run can complete.
- Pool. Three faults are a crash, a failed load and a failed health check, or
  a hang on either side of a failed look-up, or any three of a kind, over two
  updates.
- Shell. Two drops: one under the command and one under its recovery. Two
  commands: an abandoned one and its successor.

`CHECK_DEADLOCK FALSE` appears where the system may stop: the dispatcher after
`stop()`; a barrier left without a counterpart (a failed load, an NCCL trainer
without a receiver); a main loop that has ended and a trainer with nothing more
to train; a completed run; the end of a
rollout; and small violation runs that are about other things.

### Fairness

- `Dispatcher`: the event loop's ready queue is FIFO, so a coroutine that is
  repeatedly able to continue does. The dispatch loop gets weak fairness; the
  watcher and the main loop's `get` get strong fairness, because whether they
  can move flickers with the polling of the dispatch loop. Every task ends.
  Nothing forces an update, an eval, a gate change or a drain.
- `AsyncBarrier`: dispatching, the main loop, the watcher and the trainer each
  keep running, puts end when there is room, and groups finish; but the last group
  in flight is not made to finish behind a closed gate, since some of its rollouts
  may not be scheduled yet. Losing groups is never forced, and bounded.
- `MainLoop`: dispatcher, loop and trainer keep running. `GetEval` gets strong
  fairness: the queue is FIFO, so an eval rollout is not overtaken for ever.
- `MultiRun`: the training loop runs. Nothing is assumed of the owners.
- `Resume`: both processes run, are launched when down and brought down when
  one has failed (the launcher's monitor does that). Kills are bounded.
- `ElasticPool`: the event loop runs, a call to a server that is not hung ends,
  and a load ends in any case, by its own timeouts. Nothing is assumed of servers,
  of whether a hang ends, of DNS or of new versions. That no server hangs for ever
  is a premise of `HealthyBecomesReady`, stated there, and not of the specification.
- `FifoShell`: the worker runs, every wait has its deadline, the reader is
  scheduled and the preamble ends. Other commands may hang, ghosts may get
  stuck, the tunnel may drop.

### Disagreements found

- `idle`: `is_idle` misses rollouts in the hands of a suspended dispatch loop.
  The run shows it with a rate limiter; a dispatch loop blocked in `out_q.put`
  while the main loop empties the queue gives the same outcome. The main loop
  then exits with an eval incomplete. `EpochsEvaluated` bounds what is lost so: at
  most two examples, all of them at the end of a drain, and no epoch but theirs.
- `cleanup`: the broadcast directory of two steps ago can be the one the
  engines are loading, when batches shipped earlier let the trainer go on. This
  is why `RunCompletes` admits a failed load.
- `stall`: the NCCL trainer skips its last broadcasts. Once the work dispatched
  before the gate closed is used up, for which one lost group is enough, the
  orchestrator waits for a batch behind a gate only a skipped broadcast would
  open.
- `latest`: with `resume_step -1` each side takes its own latest checkpoint;
  killed between the two saves, the trainer is fed batches it has learnt from.

Reached by the models, without a run of their own: at the end of an NCCL run
that needs no more weights, the orchestrator may exit before the trainer's last
broadcast, which waits for its marker for ever; `update_dispatch_gate` adds one
to a step that `on_new_version` sees already advanced, so the dispatcher stays
paused at a lead of exactly `TARGET_LAG`; with `min_groups` 1 and `min_steps` 0 a
joint stop can be met at step 0, before any broadcast, and the drain waits for
`step_0` to be `STABLE` for ever (`DrainEnds` is checked with positive minimal
steps). In the pool, one server that hangs for ever keeps the lock, in the health
check or the query of its adapter, and shuts out all others: without its premise
TLC finds `HealthyBecomesReady` violated. In the shell, a tunnel that drops while
a body is staged makes `cat` see the end of its input, and `mv` puts what arrived,
perhaps nothing, into place; the recovery finds it there, has it run and reports
its result as the command's. This is against the comments that call the staging
atomic (`backend.py:1011`, `1135`) and the callers that take it for the command's
real result (`env.py:593-597`, `649`). `AnswerMeansRan` states it as the only
exception; without that disjunct TLC finds it violated.

## 4. What is proved

For every value of the constants that meets the named assumptions of each
module (finite sets, positive sizes, and that a group fits into
`max_inflight_rollouts`, as the configuration validates):

- `DispatcherProofs!TypeCorrect` by `StateInv`: the types, that a group not yet
  opened has its full budget and no live state (`FreshGroups`), and that the
  group picked for scheduling has budget left (`PickedBudget`), without which
  `rollouts_to_schedule - 1` could leave the naturals.
- `DispatcherProofs!NoStaleTaskSurvives` by `StaleOwned`: until the sweep is
  over, a task in flight past the limit belongs to a group still in `stale`.
  New tasks start at age 0 and a drop removes all tasks of its group, so
  dispatch between drops does no harm.
- `DispatcherProofs!ResultsAreNearFresh`: no age passes the limit by more than
  one, because a sweep ends before the next version is looked at; a result in
  the queue has the age its task had.
- `DispatcherProofs!PermitsCorrect` by `PermitInv`: the counter equals the
  members in flight plus the permits acquired so far (`Counted`), and while
  permits are being acquired the rest of the task still fits (`Acquiring`),
  although `acquire` never checks.
- `DispatcherEmitProofs!RolloutsOnce` (`AtMostOnce`) by `PlaceInv`: a member is
  in one place only, from acquiring through flight, hold and queue to the sink
  (`OnePlace`, `QueuedOnce`); a member that has been placed has left the budget of
  its group, the budget of a group being dropped included (`Spent`); and a dropped
  group is never live again (`DropsFinal`). Without `Spent`, a step that schedules
  or marks could place it a second time.
- `DispatcherEmitProofs!DispatcherEmitsOnce`: the dispatcher implements `EmitOnce`
  under the mapping of `Dispatcher.tla`. Initial states map to initial states; with
  `PlaceInv` before and after, each action maps to `Open`, to `Emit` of an owed
  member, to `Take`, to `GiveUp`, or to a stutter. `EmitOnce` states no fairness;
  that what is owed is emitted is `DispatchedReachSink`, for TLC.
- `DispatcherEmitProofs!RolloutsKept` (`NothingLost`) and `LiveGroupsOwe`
  (`GroupOwes`) by `KeptInv`: each member of a live group is in its budget or
  placed (`LiveKept`), the members of a group that is gone are placed or marked
  by the drop that has its budget (`AllKept`), and `emitted` counts those out,
  but for the one whose `put` is suspended (`EmittedExact`).
- `AsyncBarrierProofs!TypeCorrect`, `PipelineCorrect` by `FlowInv`: batches are
  numbered by the orchestrator's step and every directory comes from a past
  trainer step. `OpenGateIsNear`: an open gate means a lead within `TARGET_LAG`.
- `AsyncBarrierProofs!LeadIsBounded` by `PaidFor`: while the gate is closed, the
  batches beyond it, times the batch size, plus the work pending and in flight
  never exceed the places there are for work: those in flight, those of `out_q`,
  and one more (`Capacity`). One is enough although two groups may wait for room:
  the one the dispatch loop holds came from a place it has not filled again
  (`PlacesLeft`). This gives the bound
  `TARGET_LAG + 1 + (max_inflight + size of out_q + 1) div batch_size`, which is no
  constant of the code; without `out_q` in it the bound is false.
- `AsyncBarrierProofs!TransfersMeetLoads` (`NcclRendezvous`) by `RendezvousInv`:
  while the trainer waits for or has seen `NCCL_READY` of its step, the watcher
  is loading that version, as no later marker exists before the transfer.
- `MainLoopProofs!TypeCorrect` by `TypeInv`. `StopsHard` and `JointStopEnds` by
  `StopInv`: a batch in hand was popped with no stop met, and since neither the
  step nor the finalized groups change while it is on its way, none is met when
  it is sent (`HandFree`, `StepsLeft`); a drain begins between two batches, so its
  step is the loop's until the end (`DrainBetween`); and the end is reached only
  with both checkpoints (`EndedReady`).
- `MainLoopProofs!EvalEpochsWhole` by `EpochInv`: an example is queued once per
  epoch (`QueuedOnce`), the sink holds exactly the groups begun and not ended
  (`GroupsCounted`), and a bucket holds exactly the finished examples of its own
  epoch (`Buckets`), so that its size, all that `add` looks at, says that it is
  the whole (`DoneWhole`).
- `MainLoopProofs!ShippedBatchesSound` (`ShippedSound`) by `ShipInv`: a bucket is
  a prefix of a group and is forgotten when it is full (`GroupsFill`); what is
  pending, in hand or shipped comes from whole groups (`OnlyComplete`), each
  rollout in one place (`InOnePlace`), so the popped batch and what stays pending
  never share one. A batch popped by tokens is the least prefix that meets the
  target, and it is unique because the totals of the prefixes grow (`TotalsGrow`,
  `CutFits`); that it exists rests on the running total being that of what is
  pending (`RightSize`, `TokensCounted`), which `pop_batch` recounts from the rest.
- `MultiRunProofs!TypeCorrect`, and `SamplesTrainedOnce` by `OnceInv`, however
  often a run id is used. A sample is in one buffer, in the grid, or trained
  (`Apart`), because what a receive adds has never been taken: what was read of
  the present life of a directory is before the step to read next
  (`ReadInOrder`), and no sample is of a step of which the ZMQ receiver still
  holds a message of that life (`Posted`). A life that begins, in its old slot
  or a new one, has given nothing yet (`Begins`), so that `_received_steps` and
  `progress` of the life before, where they survive, do no harm here: they can make
  the new life miss a batch but not give one twice.
- The other theorems of the module assume `MaxGen = 1`: each run id is used once.
  They are not true otherwise (section 3). They
  build on each other in three layers, each inductive with those below it.
  `SlotInv`: a run with a slot is past its creation and is alone in it (`Lives`);
  the other ranks have the map of the last synchronization, and a run in it is
  still in that slot or will never run again (`Views`); buffers and micro batches
  hold the samples of the run in their slot (`Stamped`); what an adapter learnt
  from since its reset is one run (`Adapters`). This is `AdaptersLearnFromOneRun`.
  `BatchInv`: a run has one message per step (`OnePerStep`), nothing is of a step
  not yet sent (`Sendings`), messages and files are taken in the order of steps
  (`Messages`, `Files`), and a buffer is in that order from the current step on
  (`InOrder`). This is `AssertionsNeverFail`: in the order of steps, the head of a
  buffer that is packed is of one step. `Whole`: all samples of a step are taken
  together and have left the buffer when the step is done. This is
  `AnnouncedMeansTrained`.
- `ResumeProofs!ResumedStepsLineUp`, for a given resume step, by `Lined`: every
  whole checkpoint of step n holds n batches numbered from 0, the step a life
  resumed from is the one its receiver starts at, and the next batch received
  is the trainer's step. For any number of steps, kills, and any interval.
- `ResumeProofs!TypeCorrect` by `TypeInv`, which needs `Lined` (the batch that is
  received bounds the trainer's step) and that what is being shipped is below
  `max_steps` (`ShipsBelow`).
- `ResumeProofs!ResumedRunsLoad` by `PointInv`: both sides' records of saved
  steps are whole checkpoints (`OrchRecord`, `TrainerRecord`), the weights of a
  step both saved are among the broadcasts (`ResumeWeights`), and the trainer
  saves what it has broadcast and has nothing saved past its step (`Progress`).
  `ResumedRunsLearnFresh` by `FreshInv`: past the resume step only this life's
  batches lie in the directory. `EnginesServeLineage` by `LineInv`: every
  checkpoint and broadcast is a prefix of the trainer's lineage, and a launch
  leaves no broadcast past its step (`CleanStart`). `ResumePointsKept` by
  `KeepInv`: every checkpoint directory up to a saved step is a saved one, so that
  the remains of a killed save never push a step out of `keep_last`.
  All for a given resume step; with `resume_step -1` the run `latest` refutes
  what they rest on.
- `FifoShellProofs!NumbersRunOnceInOrder` by `GateInv`: what ran in a shell is at
  or below `__vacli_last`, which is all that stands between a re-pushed or late
  token and a second execution.
- `FifoShellProofs!TypeCorrect` by `TypeInv`, which counts that a command rebuilds
  the shell at most once (`Counted`). `CompletedMeansRan` by `BirthInv` and
  `AnswerInv`: a shell not yet made and a number not yet given have left no trace
  (`Virgin`, `NoFuture`), a done marker is of a number taken and over (`DoneTaken`),
  and before a number is pushed its body is staged (`Sourced`), by whichever of
  the script, its ghost or the recovery comes first. That what ran is the whole
  command, unless it was cut, rests on `TornInv`: half a body, whether staged,
  with a ghost or run, bears the number of a command that was cut (`TornCut`), and
  since numbers are given once (`AllGiven`, `Own`) that is no other command's.
  `SessionNeverSwitched` by
  `SessionInv`: while the agent's session lasts, its earlier commands ran in the
  present shell, or it was told of a timeout, or a rebuild that ends the session
  is under way (`Continuous`).
- `ElasticPoolProofs!ExposedServersServePolicy` by `PoolInv`: who holds the lock
  determines what `desired` is (`LockInv`), and a server under repair is not
  exposed (`RepairInv`). `TypeCorrect` adds that outside a weight update at most
  one server is being synced.

The type invariants of the dispatcher, the barrier, the restart and the pool
are proved and therefore no longer part of a run.

`SlotInv`, `BatchInv` and `Whole` were first checked by TLC, on the instance of
`slots` and on one with steps that start at 0 or 1, empty batches, and a budget of
one sample (446408 states); `OnceInv` on one with two lives of each run, one
sample a batch and a budget of two (2582067 states).

`ShipInv` was first checked by TLC on the instance of `stops`.

Induction over the naturals is at hand: the library's theorem that the naturals
are well-founded has no operator parameter. It gives a finite set its largest
number (`MaxIn`, `LastStep`), induction for a set of numbers (`Climb`), and that a
recursive function over the naturals exists and equals its equation
(`RecursionExists`, `Follows`), by its least counterexample. `MainLoop` therefore
writes the totals of a batch and the kept members of a group as such functions.
The library's theorems on induction over data have an operator parameter and
stay out of reach.

Only model-checked:

- all liveness (`DispatchedReachSink`, `StaleGroupSettles`, `EvalCompletes`, the
  two `RunCompletes`, `DrainEnds`, `EpochsEvaluated`, `SentIsTrained`,
  `HealthyBecomesReady`, `EveryCommandAnswered`): the prover has no support for
  fairness and `ENABLED`.

Worth proving next: that a step the barrier counts and a step the main loop ships
are the same, as a refinement of one module by the other; and bounds on the
buffers of `MultiRun`, which nothing in the code limits.

## 5. Not modelled

- Scripts under `user/` (most of the repository's lines): each a one-off
  dispatcher or analysis over the files of its own campaign, not part of the
  system.
- Supervised fine-tuning (`trainer/sft`): one sequential loop over a dataset.
- Losses, advantages, optimizers and models: floating-point computation.
- The inference server: a wrapper of vLLM.
- `trainer/batch.py`: a sequential packing whose result depends on data alone.
- Configuration, entry points other than the launcher's clean-up and
  monitoring, metrics, logging, heartbeats.
- In modelled components: `trainer/multi_ckpt.py`, `keep_interval` and weight
  checkpoints; `skip_first_step` of evals; the pool's `router_url` mode and
  start-up wait; the shell's image building, uploads, scoring, the older session
  without FIFO, and the container's entry point; the transport of micro batches
  from the packer to the ranks, taken as a reliable hand-over; retries of admin
  requests, folded into a call that succeeds or fails; a load the client gave
  up on that takes effect late (how the server orders loads is not in this
  repository); a run directory that is deleted and made again between two
  statements of a broadcast.

`PROJECT.json` lists every component with its status, and every hazard with the
properties that address it or the reason none does.
