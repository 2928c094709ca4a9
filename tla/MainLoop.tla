------------------------------ MODULE MainLoop ------------------------------
(***************************************************************************)
(* The orchestrator's main loop and its two sinks                          *)
(* (orchestrator/orchestrator.py, train_sink.py, eval_sink.py,             *)
(* eval_source.py).                                                        *)
(*                                                                         *)
(* Rollouts come off the dispatcher's queue in any order; of the           *)
(* dispatcher only its promise is kept, that every group it opens yields   *)
(* group_size rollouts (module Dispatcher).  The train sink collects       *)
(* groups, then batches; the loop ships a batch per step, fires evals,     *)
(* saves checkpoints and drains when a stop condition is met.  The trainer *)
(* is there for the checkpoint the drain waits for.  Which stop condition  *)
(* and which kind of batch a run has is its configuration, chosen in Init. *)
(***************************************************************************)
EXTENDS Integers, Sequences, FiniteSets, SequencesExt

CONSTANTS
    Configs,        \* configurations, see ConfigType
    Group,          \* train groups, a set of naturals; opened in that order
    Size,           \* group_size
    Scored,         \* groups of an env that scores groups as a whole
    Example,        \* examples of the eval env
    EvalSize,       \* group_size of the eval env
    CkptInterval,   \* ckpt.interval, of both processes
    MaxEmpty,       \* max_consecutive_zero_trainable_batches
    MaxOpen,        \* bound: train groups the dispatcher has open at a time
    MaxOpenEval,    \* bound: eval examples it has open at a time
    MaxFaults(_)    \* bound: rollouts whose fate is not "ok", per configuration

\* 0 stands for None, in every field but target and minSteps; minGroups is not
\* 0 when there is a stop_when.
ConfigType ==
    [unit : {"rollouts", "tokens"}, target : Nat \ {0},
     maxSteps : Nat, maxGroups : Nat,
     minSteps : Nat, minGroups : Nat, multiple : Nat, evalInterval : Nat]

ASSUME MainLoopAssumption ==
    /\ Configs \subseteq ConfigType /\ Group \subseteq Nat
    /\ Scored \subseteq Group /\ Size \in Nat \ {0} /\ EvalSize \in Nat \ {0}
    /\ CkptInterval \in Nat \ {0} /\ MaxEmpty \in Nat \ {0} /\ IsFiniteSet(Example)
    \* configs/orchestrator.py: step_multiple is divisible by ckpt.interval
    /\ \A c \in Configs : c.multiple % CkptInterval = 0
    /\ \A c \in Configs : c.minGroups > 0 => c.multiple > 0

\* What becomes of a train rollout: "error" stands for a rollout that errored
\* or is over a length limit, both dropped before the advantages, "pre" and
\* "post" for one dropped by the pre- and post-batch filters.
Fate == {"ok", "error", "pre", "post"}

VARIABLES
    config,
    opened,         \* groups the dispatcher has opened
    arrived,        \* history: the fates of a group's rollouts, as they arrived
    pendingGroups,  \* pending_groups, per group
    pendingBatch,   \* pending_batch
    pendingTokens,  \* pending_tokens
    finalized,      \* the groups finalized (groups_finalized is their number)
    lpc,            \* where the main loop is
    batch,          \* the batch in hand
    step,           \* progress.step
    shipped,        \* history: the batches sent, one per step
    empties,        \* consecutive_empty_batches
    draining,
    drainStep,      \* drain_checkpoint_step
    saved,          \* steps checkpointed by the orchestrator
    trainerStep, stable,            \* the trainer, and its STABLE weights
    firstTrigger,   \* first_trigger
    evalQueue,      \* eval examples not yet dispatched, with their step
    evalLeft,       \* rollouts still to come, per opened eval example
    evalGroups,     \* eval_sink.pending_groups
    evalBatches,    \* eval_sink.pending_batches, per step
    epochs          \* history: eval steps fired, and batches finalized

None == -1

sink == <<arrived, pendingGroups, pendingBatch, pendingTokens, finalized>>
loop == <<lpc, batch, step, shipped, empties, draining, drainStep, saved>>
eval == <<firstTrigger, evalQueue, evalLeft, evalGroups, evalBatches, epochs>>
trainer == <<trainerStep, stable>>
vars == <<config, opened, sink, loop, eval, trainer>>

-----------------------------------------------------------------------------
(* EvalSource.trigger. *)

Fires(first, s) ==
    config.evalInterval > 0 /\ (first \/ s % config.evalInterval = 0)

\* Examples of a fired epoch, in the order they are queued.
Epoch(s) == [i \in 1..Cardinality(Example) |-> [ex |-> SetToSeq(Example)[i], step |-> s]]

Init ==
    /\ config \in Configs
    /\ opened = {} /\ arrived = [g \in Group |-> <<>>]
    /\ pendingGroups = [g \in Group |-> <<>>]
    /\ pendingBatch = <<>> /\ pendingTokens = 0 /\ finalized = {}
    /\ lpc = "get" /\ batch = <<>> /\ step = 0 /\ shipped = <<>> /\ empties = 0
    /\ draining = FALSE /\ drainStep = None /\ saved = {}
    /\ trainerStep = 0 /\ stable = {}
    \* the eval of the base model is fired before the loop starts
    /\ firstTrigger = FALSE
    /\ evalQueue = IF Fires(TRUE, 0) THEN Epoch(0) ELSE <<>>
    /\ evalLeft = [x \in {} |-> 0] /\ evalGroups = [x \in {} |-> 0]
    /\ evalBatches = [x \in {} |-> 0]
    /\ epochs = [fired |-> IF Fires(TRUE, 0) THEN {0} ELSE {}, done |-> <<>>]

-----------------------------------------------------------------------------
(* The dispatcher. *)

Due(g) == Size - Len(arrived[g])
Faults == Cardinality({gi \in Group \X (1..Size) :
               gi[2] \in DOMAIN arrived[gi[1]] /\ arrived[gi[1]][gi[2]] # "ok"})
Open == {g \in opened : Due(g) > 0}

OpenGroup ==
    /\ ~draining /\ lpc \notin {"ended", "failed"}
    /\ Cardinality(Open) < MaxOpen
    /\ \E g \in Group \ opened :
         /\ \A h \in Group \ opened : g <= h
         /\ opened' = opened \cup {g}
    /\ UNCHANGED <<config, sink, loop, eval, trainer>>

\* Eval examples some rollouts of which are still to come.
OpenExamples == {x \in DOMAIN evalLeft : evalLeft[x] > 0}

OpenExample ==
    /\ evalQueue # <<>> /\ lpc \notin {"ended", "failed"}
    /\ Cardinality(OpenExamples) < MaxOpenEval
    /\ evalLeft' = [x \in DOMAIN evalLeft \cup {Head(evalQueue)} |->
                        IF x = Head(evalQueue) THEN EvalSize ELSE evalLeft[x]]
    /\ evalQueue' = Tail(evalQueue)
    /\ UNCHANGED <<config, opened, sink, loop, trainer, firstTrigger, evalGroups,
                   evalBatches, epochs>>

\* Examples is_idle does not see, because the dispatch loop is suspended with
\* them: one whose finished rollout waits for room in out_q, and one that is
\* scheduled in part and has nothing in flight.
Unseen == 2

\* Mutant of DispatcherIdle: the queue of examples is not looked at.
DispatcherIdleQueued == Cardinality(OpenExamples) <= Unseen

\* RolloutDispatcher.is_idle: nothing in flight or in a queue.  What it does not
\* see never arrives if the loop leaves; train rollouts cancelled by the
\* drain never arrive either, and are not waited for.
DispatcherIdle == evalQueue = <<>> /\ Cardinality(OpenExamples) <= Unseen

-----------------------------------------------------------------------------
(* TrainSink. *)

\* The running totals of a walk over s.
Totals(s) ==
    LET total[i \in 0..Len(s)] == IF i = 0 THEN 0 ELSE total[i - 1] + s[i].tokens
    IN  total

Tokens(s) == Totals(s)[Len(s)]

\* The members neither dropped nor filtered before the batch, in their order.
Kept(group) ==
    LET kept[i \in 0..Len(group)] ==
            IF i = 0 THEN <<>>
            ELSE IF group[i].fate \in {"error", "pre"} THEN kept[i - 1]
            ELSE Append(kept[i - 1], group[i])
    IN  kept[Len(group)]

\* process_group: what of a full group goes into the batch.  A group that is
\* scored as a whole is lost with any of its members.
Survivors(g, group) ==
    IF g \in Scored /\ \E i \in DOMAIN group : group[i].fate = "error"
    THEN <<>>
    ELSE Kept(group)

\* process_batch: the first rollouts, by number or until the tokens suffice.
Cut(s) ==
    IF config.unit = "rollouts" THEN config.target
    ELSE CHOOSE n \in 1..Len(s) : /\ Totals(s)[n] >= config.target
                                  /\ Totals(s)[n - 1] < config.target

\* Mutant of Full: off by one.
FullLate(group) == Len(group) > Size

Full(group) == Len(group) >= Size

\* Whether add pops a batch.
Enough(pending, tokens) ==
    IF config.unit = "rollouts" THEN Len(pending) >= config.target
    ELSE tokens >= config.target

\* Mutant of Remaining: the running total is reset instead of reduced.
RemainingReset(tokens, cohort) == 0

\* The running total after a cohort has been popped.
Remaining(tokens, cohort) == tokens - Tokens(cohort)

\* Whether the post-batch filters leave anything to train on.
Trainable(s) == \E i \in DOMAIN s : s[i].fate # "post"

\* add: one arrival; the group is finalized on its last member, and a batch
\* is popped if there is enough, whether or not the arrival was the last.
AddTrain(r) ==
    LET g == r.g
        group == Append(pendingGroups[g], r)
        full == Full(group)
        kept == IF full THEN Survivors(g, group) ELSE <<>>
        pending == pendingBatch \o kept
        tokens == IF config.unit = "tokens" THEN pendingTokens + Tokens(kept) ELSE pendingTokens
    IN  /\ arrived' = [arrived EXCEPT ![g] = Append(@, r.fate)]
        /\ pendingGroups' = [pendingGroups EXCEPT ![g] = IF full THEN <<>> ELSE group]
        /\ finalized' = IF full THEN finalized \cup {g} ELSE finalized
        /\ IF Enough(pending, tokens)
           THEN LET n == Cut(pending) IN
                /\ batch' = SubSeq(pending, 1, n)
                /\ pendingBatch' = SubSeq(pending, n + 1, Len(pending))
                /\ pendingTokens' = IF config.unit = "tokens"
                                    THEN Remaining(tokens, SubSeq(pending, 1, n)) ELSE tokens
           ELSE /\ batch' = <<>>
                /\ pendingBatch' = pending /\ pendingTokens' = tokens

-----------------------------------------------------------------------------
(* The loop: stop conditions, shipping, checkpoints. *)

JointStop(s, n) ==
    /\ config.minGroups > 0
    /\ s >= config.minSteps /\ n >= config.minGroups
    /\ s % config.multiple = 0

GroupStop(n) == config.maxGroups > 0 /\ n >= config.maxGroups

\* maybe_save_ckpt.
Saved(s) ==
    IF s > 0 /\ ~(config.maxSteps > 0 /\ s >= config.maxSteps) /\ s % CkptInterval = 0
    THEN saved \cup {s} ELSE saved

\* start: however the loop ends, a final checkpoint is written.
FinalSave(already) == already \cup {step}

\* Mutant of MayShip: a batch popped while draining is shipped.
MayShipAlways(b, dr) == b # <<>>

MayShip(b, dr) == b # <<>> /\ ~dr

\* A train rollout: sink, stop conditions, and what becomes of the batch.
\* While the loop drains these are the ones that were in out_q: those in flight
\* have been cancelled and come no more.
GetTrain ==
    /\ lpc = "get"
    /\ \E g \in Open, fate \in Fate, t \in {1, 2} :
         /\ fate = "ok" \/ Faults < MaxFaults(config)
         /\ t = 2 => config.unit = "tokens" /\ fate = "ok"
         /\ AddTrain([g |-> g, n |-> Due(g), fate |-> fate, tokens |-> t])
    /\ LET n == Cardinality(finalized')
           stop == ~draining /\ (JointStop(step, n) \/ GroupStop(n))
       IN  /\ draining' = (draining \/ stop)
           /\ drainStep' = IF stop /\ JointStop(step, n) THEN step ELSE drainStep
           /\ saved' = IF stop THEN Saved(step) ELSE saved
           /\ lpc' = IF MayShip(batch', draining') THEN "finalize" ELSE "get"
    /\ UNCHANGED <<config, opened, step, shipped, empties, eval, trainer>>

\* finalize_train_batch, up to its early returns.
Finalize ==
    /\ lpc = "finalize"
    /\ IF config.maxSteps > 0 /\ step >= config.maxSteps
       THEN /\ draining' = TRUE /\ lpc' = "get" /\ UNCHANGED empties
       ELSE IF ~Trainable(batch)
       THEN /\ empties' = empties + 1
            /\ lpc' = IF empties + 1 >= MaxEmpty THEN "failed" ELSE "get"
            /\ UNCHANGED draining
       ELSE empties' = 0 /\ lpc' = "send" /\ UNCHANGED draining
    /\ saved' = IF lpc' = "failed" THEN FinalSave(Saved(step)) ELSE Saved(step)
    /\ UNCHANGED <<config, opened, sink, batch, step, shipped, drainStep, eval, trainer>>

Send ==
    /\ lpc = "send"
    /\ shipped' = Append(shipped, [step |-> step, rollouts |-> batch,
                                   groups |-> Cardinality(finalized)])
    /\ lpc' = "advance"
    /\ UNCHANGED <<config, opened, sink, batch, step, empties, draining, drainStep,
                   saved, eval, trainer>>

\* The step advances, and an eval may be fired.
Advance ==
    /\ lpc = "advance"
    /\ step' = step + 1
    /\ firstTrigger' = FALSE
    /\ LET fired == Fires(firstTrigger, step + 1) IN
         /\ evalQueue' = IF fired THEN evalQueue \o Epoch(step + 1) ELSE evalQueue
         /\ epochs' = IF fired THEN [epochs EXCEPT !.fired = @ \cup {step + 1}] ELSE epochs
    /\ lpc' = "get"
    /\ UNCHANGED <<config, opened, sink, batch, shipped, empties, draining,
                   drainStep, saved, evalLeft, evalGroups, evalBatches, trainer>>

-----------------------------------------------------------------------------
(* EvalSink: groups by id, batches by the step of their epoch. *)

At(f, x, default) == IF x \in DOMAIN f THEN f[x] ELSE default
Set(f, x, v) == [y \in DOMAIN f \cup {x} |-> IF y = x THEN v ELSE f[y]]
Drop(f, x) == [y \in DOMAIN f \ {x} |-> f[y]]

\* Mutant of BatchKey: the epochs of an env share a batch.
BatchKeyEnv(x) == 0

BatchKey(x) == x.step

GetEval ==
    /\ lpc = "get"
    /\ \E x \in DOMAIN evalLeft :
         /\ evalLeft[x] > 0
         /\ evalLeft' = [evalLeft EXCEPT ![x] = @ - 1]
         /\ LET n == At(evalGroups, x, 0) + 1
                key == BatchKey(x)
                bucket == At(evalBatches, key, {}) \cup (IF n >= EvalSize THEN {x} ELSE {})
                whole == Cardinality(bucket) >= Cardinality(Example)
            IN  /\ evalGroups' = IF n >= EvalSize THEN Drop(evalGroups, x)
                                 ELSE Set(evalGroups, x, n)
                /\ evalBatches' = IF whole THEN Drop(evalBatches, key)
                                  ELSE Set(evalBatches, key, bucket)
                /\ epochs' = IF whole
                             THEN [epochs EXCEPT !.done = Append(@, [key |-> key, groups |-> bucket])]
                             ELSE epochs
    /\ UNCHANGED <<config, opened, sink, loop, firstTrigger, evalQueue, trainer>>

-----------------------------------------------------------------------------
\* Mutant of CheckpointReady: the checkpoint is not waited for.
CheckpointReadyAlways == TRUE

\* drain_checkpoint_ready.
CheckpointReady == drainStep = None \/ drainStep \in stable

Exit ==
    /\ lpc = "get"
    /\ draining /\ DispatcherIdle /\ CheckpointReady
    /\ lpc' = "ended"
    /\ saved' = FinalSave(saved)
    /\ UNCHANGED <<config, opened, sink, batch, step, shipped, empties, draining,
                   drainStep, eval, trainer>>

\* Mutant of TrainerSaves: the trainer skips the checkpoint before its last.
TrainerSavesLate(s) == s > CkptInterval /\ s % CkptInterval = 0

\* train.py: a checkpoint at every interval but the first step, and at the end.
TrainerSaves(s) == s % CkptInterval = 0 \/ s = config.maxSteps

TrainerStep ==
    /\ trainerStep < Len(shipped)
    /\ trainerStep' = trainerStep + 1
    /\ stable' = IF TrainerSaves(trainerStep + 1) THEN stable \cup {trainerStep + 1} ELSE stable
    /\ UNCHANGED <<config, opened, sink, loop, eval>>

Dispatch == OpenGroup \/ OpenExample

Loop == GetTrain \/ GetEval \/ Finalize \/ Send \/ Advance \/ Exit

Next == Dispatch \/ Loop \/ TrainerStep

Spec == Init /\ [][Next]_vars

\* The loop, the dispatcher and the trainer each run.  The queue is FIFO, so
\* no rollout waits for ever behind the others.
Fairness ==
    /\ WF_vars(Dispatch) /\ WF_vars(Loop) /\ WF_vars(TrainerStep)
    /\ SF_vars(GetEval)

FairSpec == Spec /\ Fairness

-----------------------------------------------------------------------------
TypeOK ==
    /\ config \in Configs /\ opened \subseteq Group
    /\ lpc \in {"get", "finalize", "send", "advance", "ended", "failed"}
    /\ step \in Nat /\ empties \in 0..MaxEmpty /\ draining \in BOOLEAN
    /\ drainStep \in {None} \cup 0..step /\ saved \subseteq 0..step
    /\ trainerStep \in 0..Len(shipped) /\ stable \subseteq 0..trainerStep
    /\ \A g \in Group : Len(pendingGroups[g]) < Size
    /\ evalGroups \in [DOMAIN evalGroups -> 1..(EvalSize - 1)]
    /\ Len(shipped) \in {step, step + 1}

TokensCounted == config.unit = "tokens" => pendingTokens = Tokens(pendingBatch)

\* A rollout trains at most once, an advantage is never computed against a
\* missing member of a group scored as a whole, and a shipped batch has a
\* trainable rollout and is as large as it has to be, no larger; to that end the
\* running token total is what a walk over pending_batch would give.
ShippedSound ==
    /\ \A i, j \in DOMAIN shipped :
         \A k \in DOMAIN shipped[i].rollouts, l \in DOMAIN shipped[j].rollouts :
            shipped[i].rollouts[k] = shipped[j].rollouts[l] => i = j /\ k = l
    /\ \A i \in DOMAIN shipped :
         /\ \A r \in ToSet(shipped[i].rollouts) :
              /\ r.fate \in {"ok", "post"}
              /\ r.g \in Scored => "error" \notin ToSet(arrived[r.g])
         /\ shipped[i].step = i - 1
         /\ Trainable(shipped[i].rollouts)
         /\ Len(shipped[i].rollouts) = Cut(shipped[i].rollouts)
    /\ TokensCounted

\* The stop conditions are hard: nothing is shipped once max_finalized_groups
\* groups have finalized, at most max_steps batches are shipped, and a joint
\* stop is not passed by: the step it is reached at is the last.
StopsAreHard ==
    /\ config.maxSteps > 0 => step <= config.maxSteps
    /\ \A i \in DOMAIN shipped :
         /\ config.maxGroups > 0 => shipped[i].groups < config.maxGroups
         /\ ~JointStop(shipped[i].step, shipped[i].groups)

\* A joint stop ends at a step that the orchestrator has checkpointed and
\* whose weights are STABLE, and nothing has been shipped beyond it.
JointStopKept ==
    lpc = "ended" /\ drainStep # None =>
        drainStep \in saved /\ drainStep \in stable /\ Len(shipped) = drainStep

\* An eval batch holds the whole of one epoch, however epochs overlap, and an
\* epoch yields one batch.
EpochsWhole ==
    /\ \A i \in DOMAIN epochs.done :
         epochs.done[i].groups = {[ex |-> x, step |-> epochs.done[i].key] : x \in Example}
    /\ \A i, j \in DOMAIN epochs.done : epochs.done[i].key = epochs.done[j].key => i = j

\* A drain ends, although in-flight evals complete first and a joint stop
\* waits for the trainer's checkpoint of its step.
DrainEnds == draining ~> lpc = "ended"

\* Every epoch that is fired is evaluated, unless training fails or an example
\* of that very epoch is lost; and what is lost is lost by the end of a drain,
\* and no more than what is_idle does not see: no example is left in the queue,
\* and no epoch suffers from what another one lost.
Lost == OpenExamples \cup ToSet(evalQueue)
EpochsEvaluated ==
    <>[](\/ lpc = "failed"
         \/ /\ \A s \in epochs.fired :
                  \/ \E i \in DOMAIN epochs.done : epochs.done[i].key = s
                  \/ lpc = "ended" /\ \E x \in Lost : x.step = s
            /\ Cardinality(Lost) <= Unseen)
=============================================================================
