----------------------------- MODULE AsyncBarrier -----------------------------
(***************************************************************************)
(* The asynchronous barrier between the orchestrator and the trainer: the  *)
(* loop dispatcher -> train sink -> batch -> trainer -> weights -> watcher *)
(* -> dispatch gate -> dispatcher, for a single run started from scratch   *)
(* with max_steps set.                                                     *)
(*                                                                         *)
(*   orchestrator/orchestrator.py   main_loop, finalize_train_batch, the   *)
(*                                  gate, draining                         *)
(*   orchestrator/watcher.py        polling and installing weights         *)
(*   trainer/rl/train.py            the training loop                      *)
(*   trainer/rl/broadcast/*.py      publishing weights, and cleaning up    *)
(*                                                                         *)
(* A unit of work is one group of rollouts.  It is in flight from the look *)
(* at the gate that opens it until its last rollout is collected: it then  *)
(* gives its permit back at once and goes through out_q, in which it may   *)
(* have to wait for room, to the sink, where it reaches the pending batch  *)
(* as a whole or not at all (errored, cancelled or filtered).  Each group  *)
(* in flight has a permit or is the next to be given one.  The             *)
(* dispatcher's own interleavings are in module Dispatcher.                *)
(***************************************************************************)
EXTENDS Integers

CONSTANTS
    MaxSteps,       \* max_steps of both the orchestrator and the trainer
    BatchSize,      \* groups in a train batch
    MaxInflight,    \* max_inflight
    QueueSize,      \* room in out_q
    TargetLag,      \* TARGET_LAG
    KeepInterval,   \* ckpt.interval, 0 when checkpointing is off
    Transports,     \* the weight_broadcast.type a run may be configured with
    MaxLost         \* bound: groups and batches that yield nothing

ASSUME BarrierAssumption ==
    /\ MaxSteps \in Nat \ {0} /\ BatchSize \in Nat \ {0}
    /\ MaxInflight \in Nat \ {0} /\ QueueSize \in Nat \ {0}
    /\ TargetLag \in Nat /\ KeepInterval \in Nat /\ MaxLost \in Nat
    /\ Transports \subseteq {"filesystem", "nccl"}

VARIABLES
    \* orchestrator
    inflight,       \* train groups in flight in the dispatcher
    held,           \* finished groups the dispatch loop waits to put: 0 or 1
    queued,         \* finished or dropped groups in out_q
    pending,        \* groups in train_sink.pending_batch
    mpc,            \* main_loop: "recv", "add" (a group), "ship" or "sent"
    step,           \* orchestrator progress.step
    gate,           \* dispatcher.dispatch_allowed
    draining,       \* draining
    exited,         \* main_loop has returned or raised
    lost,           \* groups and batches that yielded nothing so far
    \* watcher
    wpc,            \* "poll", "pending", "load", or "failed" for good
    wnext,          \* next_step of the update in progress
    stale,          \* groups on_version_pending has still to drop
    dropping,       \* dropped groups it waits to put into out_q: 0 or 1
    ckptStep,       \* watcher.ckpt_step
    version,        \* policy.version
    \* trainer and what it shares with the orchestrator
    transport,      \* weight_broadcast.type of this run
    tpc,            \* "top", "ready", "check" or "done"
    tstep,          \* trainer progress.step
    sent,           \* batches 0 .. sent-1 are on the transport
    dirs,           \* steps with a STABLE directory under broadcasts/
    ready,          \* steps with an NCCL_READY marker
    received        \* last step the engines received over NCCL

workVars == <<inflight, held, queued>>
loopVars == <<pending, mpc, step, draining, exited, lost>>
sweepVars == <<stale, dropping>>
watchVars == <<wpc, wnext, ckptStep, version>>
trainVars == <<transport, tpc, tstep>>
sharedVars == <<sent, dirs, ready, received>>
dispatchVars == <<workVars, sweepVars>>
orchVars == <<dispatchVars, loopVars, gate, watchVars>>
vars == <<orchVars, trainVars, sharedVars>>

Nccl == transport = "nccl"

Init ==
    /\ transport \in Transports
    /\ inflight = 0 /\ held = 0 /\ queued = 0 /\ stale = 0 /\ dropping = 0
    /\ pending = 0 /\ mpc = "recv" /\ step = 0
    /\ gate = TRUE /\ draining = FALSE /\ exited = FALSE /\ lost = 0
    /\ wpc = "poll" /\ wnext = 0 /\ ckptStep = 0 /\ version = 0
    /\ tpc = "top" /\ tstep = 0
    /\ sent = 0 /\ dirs = {} /\ ready = {} /\ received = 0

-----------------------------------------------------------------------------
(* The dispatcher, up to out_q. *)

\* Mutant of MayDispatch: the gate is ignored.
MayDispatchUngated == ~exited /\ ~draining /\ inflight < MaxInflight /\ held = 0

\* fill_inflight's conditions for train work; the dispatch loop gets there
\* only when it does not wait for room in out_q.
MayDispatch == ~exited /\ ~draining /\ gate /\ inflight < MaxInflight /\ held = 0

\* fill_inflight opens one more group.
Dispatch ==
    /\ MayDispatch
    /\ inflight' = inflight + 1
    /\ UNCHANGED <<held, queued, sweepVars, loopVars, gate, watchVars, trainVars,
                   sharedVars>>

\* A group leaves: into out_q, or to the side while out_q is full.
Emit(waiting) ==
    IF queued < QueueSize THEN queued' = queued + 1 /\ UNCHANGED waiting
    ELSE waiting' = waiting + 1 /\ UNCHANGED queued

\* handle_completed_rollout collects the last rollout of a group: its permit
\* is free before the rollout is in out_q.
Finish ==
    /\ ~exited /\ inflight > 0 /\ held = 0
    /\ inflight' = inflight - 1
    /\ Emit(held)
    /\ UNCHANGED <<sweepVars, loopVars, gate, watchVars, trainVars, sharedVars>>

\* The dispatch loop's out_q.put ends.
PutHeld ==
    /\ ~exited /\ held = 1 /\ queued < QueueSize
    /\ held' = 0 /\ queued' = queued + 1
    /\ UNCHANGED <<inflight, sweepVars, loopVars, gate, watchVars, trainVars,
                   sharedVars>>

-----------------------------------------------------------------------------
(* The main loop. *)

\* update_dispatch_gate, evaluated with the given progress.step and version.
GateFor(s, v) == (s + 1) - v <= TargetLag

\* finalize_train_batch's check before anything is shipped.
AtMaxSteps == step >= MaxSteps

\* out_q.get; train_sink.add then suspends to tokenize.
TakeGroup ==
    /\ ~exited /\ mpc = "recv" /\ queued > 0
    /\ queued' = queued - 1 /\ mpc' = "add"
    /\ UNCHANGED <<inflight, held, sweepVars, pending, step, draining, exited, lost,
                   gate, watchVars, trainVars, sharedVars>>

\* The group survives the sink.  The one that fills the batch starts
\* finalize_train_batch, unless the loop drains: then the batch is dropped.
GroupKept ==
    /\ ~exited /\ mpc = "add"
    /\ \/ /\ pending + 1 < BatchSize
          /\ pending' = pending + 1 /\ mpc' = "recv"
          /\ UNCHANGED <<draining, inflight, lost>>
       \/ /\ pending + 1 = BatchSize /\ draining
          /\ pending' = 0 /\ mpc' = "recv"
          /\ UNCHANGED <<draining, inflight, lost>>
       \* at max_steps: begin_draining ends train scheduling and cancels the
       \* train work in flight (what a dispatch suspended in acquire still
       \* yields then comes too late for any batch, and is left out)
       \/ /\ pending + 1 = BatchSize /\ AtMaxSteps /\ ~draining
          /\ pending' = 0 /\ mpc' = "recv"
          /\ draining' = TRUE /\ inflight' = 0
          /\ UNCHANGED lost
       \* all its rollouts are filtered: the batch is not shipped
       \/ /\ pending + 1 = BatchSize /\ ~AtMaxSteps /\ lost < MaxLost
          /\ pending' = 0 /\ mpc' = "recv" /\ lost' = lost + 1
          /\ UNCHANGED <<draining, inflight>>
       \/ /\ pending + 1 = BatchSize /\ ~AtMaxSteps
          /\ pending' = 0 /\ mpc' = "ship"
          /\ UNCHANGED <<draining, inflight, lost>>
    /\ UNCHANGED <<held, queued, sweepVars, step, gate, exited, watchVars, trainVars,
                   sharedVars>>

\* The group leaves nothing for the batch.
GroupLost ==
    /\ ~exited /\ mpc = "add" /\ lost < MaxLost
    /\ mpc' = "recv" /\ lost' = lost + 1
    /\ UNCHANGED <<dispatchVars, pending, step, gate, draining, exited, watchVars,
                   trainVars, sharedVars>>

\* sender.send: the batch becomes visible to the trainer during the await.
SendBatch ==
    /\ ~exited /\ mpc = "ship"
    /\ sent' = sent + 1
    /\ mpc' = "sent"
    /\ UNCHANGED <<dispatchVars, pending, step, gate, draining, exited, lost,
                   watchVars, trainVars, dirs, ready, received>>

\* The rest of finalize_train_batch, free of awaits: the gate is updated
\* with the old step, then the step advances.
ShipDone ==
    /\ ~exited /\ mpc = "sent"
    /\ gate' = GateFor(step, version)
    /\ step' = step + 1
    /\ mpc' = "recv"
    /\ UNCHANGED <<dispatchVars, pending, draining, exited, lost, watchVars,
                   trainVars, sharedVars>>

\* main_loop leaves once it drains and the dispatcher is idle (is_idle sees
\* no group that waits for room in out_q), or raises when it finds the
\* watcher failed; the orchestrator then stops both.
ExitMainLoop ==
    /\ ~exited /\ mpc = "recv"
    /\ (draining /\ inflight = 0 /\ queued = 0) \/ wpc = "failed"
    /\ exited' = TRUE
    /\ UNCHANGED <<dispatchVars, pending, mpc, step, gate, draining, lost,
                   watchVars, trainVars, sharedVars>>

-----------------------------------------------------------------------------
(* The weight watcher. *)

\* get_latest_ckpt_step: the newest STABLE directory, if there is one.
LatestStable == {s \in dirs : \A t \in dirs : t <= s}

\* compute_next_ckpt_step found newer weights; on_version_pending picks the
\* groups in flight that have become too stale (which ones: Dispatcher).
StartUpdate ==
    /\ ~exited /\ wpc = "poll"
    /\ wnext' \in {s \in LatestStable : s > ckptStep}
    /\ wpc' = "pending"
    /\ stale' \in 0..inflight
    /\ UNCHANGED <<workVars, dropping, loopVars, gate, ckptStep, version, trainVars,
                   sharedVars>>

\* drop_group of the next of them: its permits are free at once, its markers
\* go through out_q.  It adds nothing of a group that has finished meanwhile,
\* or whose last rollout a suspended dispatch is still to start.
DropStale ==
    /\ ~exited /\ wpc = "pending" /\ stale > 0 /\ dropping = 0
    /\ stale' = stale - 1
    /\ \/ inflight > 0 /\ inflight' = inflight - 1 /\ Emit(dropping)
       \/ UNCHANGED <<inflight, queued, dropping>>
    /\ UNCHANGED <<held, loopVars, gate, watchVars, trainVars, sharedVars>>

\* drop_group's out_q.put ends.
PutDropped ==
    /\ ~exited /\ dropping = 1 /\ queued < QueueSize
    /\ dropping' = 0 /\ queued' = queued + 1
    /\ UNCHANGED <<inflight, held, stale, loopVars, gate, watchVars, trainVars,
                   sharedVars>>

\* The observers are done; update_weights pauses the engines, and with NCCL
\* tells the trainer that they are ready to receive.
StartLoad ==
    /\ ~exited /\ wpc = "pending" /\ stale = 0 /\ dropping = 0
    /\ wpc' = "load"
    /\ ready' = IF Nccl THEN ready \cup {wnext} ELSE ready
    /\ UNCHANGED <<dispatchVars, loopVars, gate, wnext, ckptStep, version, trainVars,
                   sent, dirs, received>>

\* The engines have the weights; on_new_version re-evaluates the gate.
FinishLoad ==
    /\ ~exited /\ wpc = "load"
    /\ IF Nccl THEN received >= wnext ELSE wnext \in dirs
    /\ ckptStep' = wnext /\ version' = wnext
    /\ gate' = GateFor(step, wnext)
    /\ wpc' = "poll"
    /\ UNCHANGED <<wnext, dispatchVars, loopVars, trainVars, sharedVars>>

\* The directory went away under the engines: update_weights raises, which
\* ends the watcher task.
FailLoad ==
    /\ ~exited /\ wpc = "load"
    /\ ~Nccl /\ wnext \notin dirs
    /\ wpc' = "failed"
    /\ UNCHANGED <<dispatchVars, loopVars, gate, wnext, ckptStep, version, trainVars,
                   sharedVars>>

-----------------------------------------------------------------------------
(* The trainer. *)

\* Mutant of SkipsBroadcast: the last two are skipped whatever the transport.
SkipsLastBroadcasts == tstep = 0 \/ tstep >= MaxSteps - 1

\* The broadcasts the training loop skips.
SkipsBroadcast == tstep = 0 \/ (Nccl /\ tstep >= MaxSteps - 1)

\* maybe_clean removes the directory of two steps ago, unless kept for a
\* checkpoint.
TwoAgo(s) == IF s > 2 THEN s - 2 ELSE 0
Cleaned(s) ==
    IF KeepInterval > 0 /\ TwoAgo(s) % KeepInterval = 0 THEN {} ELSE {TwoAgo(s)}

\* Top of the loop with nothing to broadcast.
SkipBroadcast ==
    /\ tpc = "top" /\ SkipsBroadcast
    /\ tpc' = "check"
    /\ UNCHANGED <<transport, tstep, orchVars, sharedVars>>

\* Filesystem broadcast: save, touch STABLE, clean up.
PublishFilesystem ==
    /\ tpc = "top" /\ ~SkipsBroadcast /\ ~Nccl
    /\ dirs' = (dirs \cup {tstep}) \ Cleaned(tstep)
    /\ tpc' = "check"
    /\ UNCHANGED <<transport, tstep, sent, ready, received, orchVars>>

\* NCCL broadcast: touch STABLE, then wait for the engines.
AnnounceNccl ==
    /\ tpc = "top" /\ ~SkipsBroadcast /\ Nccl
    /\ dirs' = dirs \cup {tstep}
    /\ tpc' = "ready"
    /\ UNCHANGED <<transport, tstep, sent, ready, received, orchVars>>

\* Mutant of EnginesReady: the trainer does not wait for the marker.
EnginesAssumedReady == TRUE

\* _wait_for_nccl_ready.
EnginesReady == tstep \in ready

\* The collective transfer to the paused engines.
TransferNccl ==
    /\ tpc = "ready" /\ EnginesReady
    /\ received' = tstep
    /\ tpc' = "check"
    /\ UNCHANGED <<transport, tstep, sent, dirs, ready, orchVars>>

\* Mutant of BatchReady: off by one.
BatchReadyEarly == tstep <= sent

\* wait_for_batch returns once the batch of this step is on the transport.
BatchReady == tstep < sent

\* Wait for the batch of this step and train on it.
TrainStep ==
    /\ tpc = "check" /\ tstep < MaxSteps
    /\ BatchReady
    /\ tstep' = tstep + 1
    /\ tpc' = "top"
    /\ UNCHANGED <<transport, orchVars, sharedVars>>

FinishTraining ==
    /\ tpc = "check" /\ tstep >= MaxSteps
    /\ tpc' = "done"
    /\ UNCHANGED <<transport, tstep, orchVars, sharedVars>>

-----------------------------------------------------------------------------
MainLoop == TakeGroup \/ GroupKept \/ SendBatch \/ ShipDone \/ ExitMainLoop
Watcher ==
    \/ StartUpdate \/ DropStale \/ PutDropped \/ StartLoad \/ FinishLoad \/ FailLoad
Trainer ==
    \/ SkipBroadcast \/ PublishFilesystem \/ AnnounceNccl \/ TransferNccl
    \/ TrainStep \/ FinishTraining

\* Both processes have ended.
Over == exited /\ tpc = "done" /\ UNCHANGED vars

Next == Dispatch \/ Finish \/ PutHeld \/ GroupLost \/ MainLoop \/ Watcher \/ Trainer \/ Over

Spec == Init /\ [][Next]_vars

\* Each coroutine and the trainer process keep running, the dispatcher keeps
\* scheduling while it may, and only finitely many groups are lost (MaxLost).
\* Rollouts end; but one group, some of whose rollouts are not scheduled yet,
\* may wait behind a closed gate.
FairSpec ==
    /\ Spec
    /\ WF_vars(Dispatch) /\ WF_vars((gate \/ inflight > 1) /\ Finish) /\ WF_vars(PutHeld)
    /\ WF_vars(MainLoop) /\ WF_vars(Watcher) /\ WF_vars(Trainer)

-----------------------------------------------------------------------------
FlagsOK ==
    /\ gate \in BOOLEAN /\ draining \in BOOLEAN
    /\ exited \in BOOLEAN /\ transport \in Transports

CountersOK ==
    /\ inflight \in 0..MaxInflight /\ held \in 0..1 /\ queued \in 0..QueueSize
    /\ stale \in Nat /\ dropping \in 0..1
    /\ pending \in 0..(BatchSize - 1)
    /\ mpc \in {"recv", "add", "ship", "sent"}
    /\ step \in 0..MaxSteps
    /\ lost \in 0..MaxLost
    /\ wpc \in {"poll", "pending", "load", "failed"}
    /\ wnext \in Nat /\ ckptStep \in Nat /\ version \in Nat
    /\ tpc \in {"top", "ready", "check", "done"}
    /\ tstep \in 0..MaxSteps
    /\ sent \in 0..MaxSteps
    /\ dirs \subseteq 1..MaxSteps /\ ready \subseteq 1..MaxSteps
    /\ received \in Nat

TypeOK == FlagsOK /\ CountersOK

\* The orchestrator never runs further ahead of the policy it samples from
\* than the lag, the batch that closes the gate, and the batches that can
\* still be filled behind the closed gate: by what is in flight, what is in
\* out_q (finished while the main loop was busy, its permits used again) and
\* the dropped group that waits for room there.  Neither TARGET_LAG nor
\* max_inflight bounds it without out_q.
LeadBounded ==
    step - version <= TargetLag + 1 + ((MaxInflight + QueueSize + 1) \div BatchSize)

\* While the gate is set, the next batch is at most TARGET_LAG ahead.
OpenMeansNear == gate => step - version <= TargetLag

\* Weights flow forward: the policy never goes back, is never newer than what
\* the trainer has trained, and the trainer never trains on a batch not sent.
Pipeline ==
    /\ version = ckptStep /\ version <= wnext /\ wnext <= tstep
    /\ tstep <= sent /\ step <= sent /\ sent <= step + 1

\* An NCCL transfer is a collective: the trainer only ever starts the one of
\* the very step the watcher is loading into the engines (while the
\* orchestrator lives).
NcclRendezvous ==
    [][received' # received => exited \/ (wpc = "load" /\ wnext = received')]_vars

\* Over the filesystem everything ends: all steps are trained and both
\* processes exit, whatever groups are lost, unless the engines were told to
\* load a deleted directory.  (Over NCCL see OrchestratorCompletes.)
RunCompletes ==
    ~Nccl ~> (wpc = "failed" \/ (exited /\ tpc = "done" /\ tstep = MaxSteps))

\* trainer/utils.py:657-659: the directory of two steps ago is safe to remove.
NeverCleanedInUse == wpc = "load" /\ ~Nccl => wnext \in dirs

\* train.py:264-266: the orchestrator needs no broadcast after the penultimate
\* one the NCCL trainer sends.
OrchestratorCompletes == <>exited
=============================================================================
