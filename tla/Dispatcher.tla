------------------------------ MODULE Dispatcher ------------------------------
(***************************************************************************)
(* The rollout dispatcher of the orchestrator                              *)
(* (orchestrator/dispatcher.py), as three coroutines of one event loop:    *)
(*                                                                         *)
(*   - the dispatch loop: fill_inflight, wait for a task, emit its         *)
(*     rollouts into the bounded queue out_q;                              *)
(*   - the weight watcher's call of on_version_pending, which ages the     *)
(*     rollouts in flight and drops the groups that became too old;        *)
(*   - the orchestrator's main loop, which takes rollouts off out_q,       *)
(*     triggers evals, toggles the dispatch gate and drains at the end.    *)
(*                                                                         *)
(* The loop is cooperative: a coroutine runs until it suspends at an await *)
(* that really waits, so an action of one coroutine needs the others to be *)
(* at such a point (DispatchAwaits, WatcherAwaits).  A rollout is a member *)
(* <<g, i>> of the group g of rollouts of one example.                     *)
(***************************************************************************)
EXTENDS Integers, Sequences, FiniteSets

CONSTANTS
    TrainGroups,    \* train groups the run may open, one per example drawn
    EvalGroups,     \* eval groups the run may open, one per queued example
    Scored,         \* groups whose env has requires_group_scoring
    GroupSize,      \* env.config.group_size, per group
    MaxInflight,    \* max_inflight_rollouts
    QueueSize,      \* maxsize of out_q
    MaxOffPolicy,   \* max_off_policy_steps
    MaxVersion,     \* bound: weight updates in a behaviour
    MaxToggles,     \* bound: times the orchestrator closes the dispatch gate
    ClientWaits,    \* TRUE: selecting a client may suspend (elastic pool)
    LimiterWaits,   \* TRUE: a rate limiter is configured and may suspend
    EnvCancels,     \* TRUE: a rollout task may end cancelled by itself
    MayStop         \* TRUE: the orchestrator may drain and stop

Group == TrainGroups \cup EvalGroups
Member == UNION {{g} \X (1..GroupSize[g]) : g \in Group}

ASSUME GroupsAssumption ==
    /\ IsFiniteSet(TrainGroups) /\ IsFiniteSet(EvalGroups)
    /\ TrainGroups \cap EvalGroups = {}
    /\ Scored \subseteq Group
    /\ GroupSize \in [Group -> Nat \ {0}]

\* max_inflight_rollouts is validated to hold a whole group of any train env.
ASSUME LimitsAssumption ==
    /\ MaxInflight \in Nat /\ \A g \in Group : GroupSize[g] <= MaxInflight
    /\ QueueSize \in Nat \ {0}
    /\ MaxOffPolicy \in Nat /\ MaxVersion \in Nat /\ MaxToggles \in Nat

ASSUME SwitchesAssumption ==
    {ClientWaits, LimiterWaits, EnvCancels, MayStop} \subseteq BOOLEAN

VARIABLES
    groups,         \* self.groups: ids of the live groups
    opened,         \* groups popped from their source so far
    evalQueue,      \* eval_source: examples queued by a trigger
    toSchedule,     \* group.rollouts_to_schedule
    emitted,        \* group.emitted
    pinned,         \* groups with a pinned_client
    inflight,       \* members of the tasks in self.inflight
    finished,       \* inflight members whose task is done
    aborted,        \* finished members whose task ended cancelled
    offPolicy,      \* meta.off_policy_steps of the member's task
    permits,        \* self.inflight_permits
    outQ,           \* out_q: entries [member, kind]
    delivered,      \* members the main loop has taken off out_q
    discarded,      \* members the code gives up on purpose
    mode,           \* self.mode
    gate,           \* self.dispatch_allowed
    trainDisabled,  \* self.train_scheduling_disabled
    stopped         \* self.stopped

\* Local state of the dispatch loop.
VARIABLES
    dpc,            \* where the loop is
    picked,         \* the group being scheduled
    acquiring,      \* members of the task whose permits are being acquired
    acquired,       \* permits acquired so far for it
    todo,           \* `done` of the last asyncio.wait, still to handle
    hold,           \* members of the handled task, still to be put
    holdGroup       \* TRUE: handle_completed_rollout found the group live

\* Local state of the watcher inside on_version_pending.
VARIABLES
    wpc,            \* where the watcher is
    stale,          \* stale_groups not yet dropped
    dropping,       \* members of the dropped group still to be marked
    dropGroup,      \* the group being dropped
    dropFound,      \* TRUE: drop_group found the group live
    dropPass,       \* which of the two emit passes of drop_group runs
    dropTasks,      \* TRUE: drop_group has tasks to cancel
    version,        \* weight updates seen
    toggles         \* times the gate was closed

groupVars == <<groups, opened, evalQueue, toSchedule, emitted, pinned>>
taskVars == <<inflight, finished, aborted, offPolicy, permits>>
queueVars == <<outQ, delivered, discarded>>
controlVars == <<mode, gate, trainDisabled, stopped, toggles>>
loopVars == <<dpc, picked, acquiring, acquired, todo, hold, holdGroup>>
watchVars == <<wpc, stale, dropping, dropGroup, dropFound, dropPass, dropTasks,
               version>>
vars == <<groupVars, taskVars, queueVars, controlVars, loopVars, watchVars>>

Init ==
    /\ groups = {} /\ opened = {} /\ evalQueue = {} /\ pinned = {}
    /\ toSchedule = GroupSize
    /\ emitted = [g \in Group |-> 0]
    /\ inflight = {} /\ finished = {} /\ aborted = {}
    /\ offPolicy = [m \in Member |-> 0]
    /\ permits = 0
    /\ outQ = <<>> /\ delivered = {} /\ discarded = {}
    /\ mode = "PREFER_TRAIN" /\ gate = TRUE
    /\ trainDisabled = FALSE /\ stopped = FALSE /\ toggles = 0
    /\ dpc = "fill" /\ picked = {} /\ acquiring = {} /\ acquired = 0
    /\ todo = {} /\ hold = {} /\ holdGroup = FALSE
    /\ wpc = "idle" /\ stale = {} /\ dropping = {} /\ dropGroup = {}
    /\ dropFound = FALSE /\ dropPass = "claimed" /\ dropTasks = FALSE
    /\ version = 0

\* The await points at which a coroutine gives up the event loop.
DispatchAwaits ==
    \/ dpc \in {"wait", "put", "dead"}
    \/ ClientWaits /\ dpc = "client"
    \/ LimiterWaits /\ dpc = "acquire"
WatcherAwaits == wpc \in {"idle", "put", "cancel", "update"}
AllAwait == DispatchAwaits /\ WatcherAwaits

Available == MaxInflight - permits
Entry == [member : Member, kind : {"result", "cancelled"}]
Queued == {outQ[i].member : i \in DOMAIN outQ}

IsIdle == inflight = {} /\ evalQueue = {} /\ outQ = <<>>

\* Members of m's task among S: a group-scoring task runs the whole group.
TaskIn(S, m) == IF m[1] \in Scored THEN {n \in S : n[1] = m[1]} ELSE {m}

\* Not-yet-scheduled members: the highest index is scheduled first.
Unscheduled(g) == {g} \X (1..toSchedule[g])

\* Mutant of Release: one permit per call, whatever the rollout count.
ReleaseOne(S) == IF S = {} THEN permits ELSE permits - 1

\* release of the permits of the tasks of the members in S.
Release(S) == permits - Cardinality(S)

-----------------------------------------------------------------------------
(* fill_inflight and what it calls. *)

Preferred == IF mode = "PREFER_EVAL" THEN EvalGroups ELSE TrainGroups

\* Mutant of EvalHasWork: the queue is forgotten.
EvalGroupHasWork == \E g \in groups \cap EvalGroups : toSchedule[g] > 0

EvalHasWork ==
    \/ evalQueue # {}
    \/ \E g \in groups \cap EvalGroups : toSchedule[g] > 0

Cost(g) == IF g \in Scored THEN toSchedule[g] ELSE 1

\* Live groups try_schedule would continue with the permits that are left.
Continuable ==
    {g \in groups \cap Preferred : toSchedule[g] > 0 /\ Cost(g) <= Available}

\* Examples next_fresh_group may pop.
Sources == IF mode = "PREFER_EVAL" THEN evalQueue ELSE TrainGroups \ opened
Poppable == {g \in Sources : Cost(g) <= Available}

MaySchedule ==
    /\ Available > 0
    /\ mode = "PREFER_TRAIN" => gate /\ ~trainDisabled

\* Entry of schedule_group_rollout's second half: the task's members leave
\* the group's budget before the first permit is acquired.
Reserve(g) ==
    LET k == toSchedule[g]
        task == IF g \in Scored THEN Unscheduled(g) ELSE {<<g, k>>}
    IN  /\ acquiring' = task
        /\ toSchedule' = [toSchedule EXCEPT ![g] = IF g \in Scored THEN 0 ELSE k - 1]
        /\ acquired' = 0
        /\ dpc' = "acquire"

\* try_schedule continues a live group that fits.
ContinueGroup(g) ==
    /\ dpc = "fill" /\ WatcherAwaits
    /\ MaySchedule /\ g \in Continuable
    /\ picked' = {g}
    /\ IF g \in pinned
       THEN Reserve(g)
       ELSE dpc' = "client" /\ UNCHANGED <<acquiring, toSchedule, acquired>>
    /\ UNCHANGED <<groups, opened, evalQueue, emitted, pinned, todo, hold,
                   holdGroup, taskVars, queueVars, controlVars, watchVars>>

\* try_schedule opens a fresh group when no live one fits.
OpenGroup(g) ==
    /\ dpc = "fill" /\ WatcherAwaits
    /\ MaySchedule /\ Continuable = {} /\ g \in Poppable
    /\ groups' = groups \cup {g}
    /\ opened' = opened \cup {g}
    /\ evalQueue' = evalQueue \ {g}
    /\ picked' = {g}
    /\ dpc' = "client"
    /\ UNCHANGED <<toSchedule, emitted, pinned, acquiring, acquired, todo,
                   hold, holdGroup, taskVars, queueVars, controlVars, watchVars>>

\* The eval queue drained: flip to PREFER_TRAIN and go round again.
SwitchToTrain ==
    /\ dpc = "fill" /\ WatcherAwaits
    /\ Available > 0 /\ mode = "PREFER_EVAL" /\ ~EvalHasWork
    /\ mode' = "PREFER_TRAIN"
    /\ UNCHANGED <<gate, trainDisabled, stopped, toggles, groupVars, taskVars,
                   queueVars, loopVars, watchVars>>

\* fill_inflight returns: no permits, gate closed, or nothing could be
\* scheduled.  next_example may draw an example that does not fit.
FillReturns ==
    /\ dpc = "fill" /\ WatcherAwaits
    /\ \/ ~MaySchedule
       \/ Continuable = {} /\ (Poppable = {} \/ Poppable # Sources)
    /\ ~(Available > 0 /\ mode = "PREFER_EVAL" /\ ~EvalHasWork)
    /\ dpc' = "wait"
    /\ UNCHANGED <<picked, acquiring, acquired, todo, hold, holdGroup,
                   groupVars, taskVars, queueVars, controlVars, watchVars>>

\* schedule_group_rollout resumes with a client: it pins it if the group is
\* still live, and gives up otherwise (fill_inflight then returns).
SelectClient ==
    /\ dpc = "client" /\ WatcherAwaits
    /\ \E g \in picked :
         IF g \in groups
         THEN pinned' = pinned \cup {g} /\ Reserve(g)
         ELSE dpc' = "wait" /\ UNCHANGED <<pinned, acquiring, toSchedule, acquired>>
    /\ UNCHANGED <<groups, opened, evalQueue, emitted, picked, todo, hold,
                   holdGroup, taskVars, queueVars, controlVars, watchVars>>

\* acquire takes one of several permits.
AcquirePermit ==
    /\ dpc = "acquire" /\ WatcherAwaits
    /\ acquired + 1 < Cardinality(acquiring)
    /\ permits' = permits + 1
    /\ acquired' = acquired + 1
    /\ UNCHANGED <<inflight, finished, aborted, offPolicy, dpc, picked,
                   acquiring, todo, hold, holdGroup, groupVars, queueVars,
                   controlVars, watchVars>>

\* acquire takes the last permit; the task is created and registered in
\* inflight without another await, whatever became of its group.
LaunchTask ==
    /\ dpc = "acquire" /\ WatcherAwaits
    /\ acquired + 1 = Cardinality(acquiring)
    /\ permits' = permits + 1
    /\ inflight' = inflight \cup acquiring
    /\ offPolicy' = [m \in Member |-> IF m \in acquiring THEN 0 ELSE offPolicy[m]]
    /\ acquiring' = {} /\ acquired' = 0
    /\ picked' = {}
    /\ dpc' = "fill"
    /\ UNCHANGED <<finished, aborted, todo, hold, holdGroup, groupVars,
                   queueVars, controlVars, watchVars>>

-----------------------------------------------------------------------------
(* The rest of the dispatch loop. *)

\* asyncio.wait returns (a task is done, or its timeout) or the empty-loop
\* sleep ends; after stop() the loop leaves instead.
Wake ==
    /\ dpc = "wait" /\ WatcherAwaits
    /\ todo' = finished
    /\ dpc' = IF finished # {} THEN "handle" ELSE IF stopped THEN "dead" ELSE "fill"
    /\ UNCHANGED <<picked, acquiring, acquired, hold, holdGroup, groupVars,
                   taskVars, queueVars, controlVars, watchVars>>

\* The `for task in done` loop ends.
HandledAll ==
    /\ dpc = "handle" /\ WatcherAwaits
    /\ todo = {}
    /\ dpc' = IF stopped THEN "dead" ELSE "fill"
    /\ UNCHANGED <<picked, acquiring, acquired, todo, hold, holdGroup,
                   groupVars, taskVars, queueVars, controlVars, watchVars>>

\* Mutant of Claimable: the None-guard of handle_completed_rollout is gone.
ClaimableUnguarded == todo

\* Done tasks that drop_group or a cancellation has not claimed meanwhile.
Claimable == todo \cap inflight

\* handle_completed_rollout on a task someone else already claimed.
SkipClaimed(m) ==
    /\ dpc = "handle" /\ WatcherAwaits
    /\ m \in todo \ Claimable
    /\ todo' = todo \ {m}
    /\ UNCHANGED <<dpc, picked, acquiring, acquired, hold, holdGroup,
                   groupVars, taskVars, queueVars, controlVars, watchVars>>

\* handle_completed_rollout pops the task and releases its permits.  A task
\* that ended cancelled is discarded without a marker.
HandleTask(m) ==
    /\ dpc = "handle" /\ WatcherAwaits
    /\ m \in Claimable
    /\ LET task == TaskIn(inflight, m) IN
         /\ inflight' = inflight \ task
         /\ finished' = finished \ task
         /\ aborted' = aborted \ task
         /\ todo' = todo \ task
         /\ permits' = Release(task)
         /\ holdGroup' = (m[1] \in groups)
         /\ IF m \in aborted
            THEN discarded' = discarded \cup task /\ UNCHANGED <<hold, dpc>>
            ELSE hold' = task /\ dpc' = "emit" /\ UNCHANGED discarded
    /\ UNCHANGED <<offPolicy, picked, acquiring, acquired, outQ, delivered,
                   groupVars, controlVars, watchVars>>

\* Mutant of Whole: off by one.
WholeLate(g) == emitted[g] + 1 > GroupSize[g]

\* group.emitted >= group.target_rollouts after one more.
Whole(g) == emitted[g] + 1 >= GroupSize[g]

\* emit_rollout's bookkeeping: count the member, drop the group when whole.
CountEmitted(g, found) ==
    IF found
    THEN /\ emitted' = [emitted EXCEPT ![g] = @ + 1]
         /\ groups' = IF Whole(g) THEN groups \ {g} ELSE groups
    ELSE UNCHANGED <<emitted, groups>>

\* Mutant of Put: Cancelled rollouts are not reported to the sink.
PutResults(m, kind) ==
    outQ' = IF kind = "result" THEN Append(outQ, [member |-> m, kind |-> kind]) ELSE outQ

\* out_q.put: append when there is room.
HasRoom == Len(outQ) < QueueSize
Put(m, kind) == outQ' = Append(outQ, [member |-> m, kind |-> kind])

\* emit_rollout for one rollout of the handled task; put() suspends on a
\* full queue after the bookkeeping is done.
EmitResult(m) ==
    /\ dpc = "emit" /\ WatcherAwaits
    /\ m \in hold
    /\ CountEmitted(m[1], holdGroup)
    /\ IF HasRoom
       THEN Put(m, "result") /\ hold' = hold \ {m} /\ UNCHANGED dpc
       ELSE dpc' = "put" /\ UNCHANGED <<outQ, hold>>
    /\ UNCHANGED <<opened, evalQueue, toSchedule, pinned, delivered, discarded,
                   picked, acquiring, acquired, todo, holdGroup, taskVars,
                   controlVars, watchVars>>

\* A suspended put finds room.
ResumePut(m) ==
    /\ dpc = "put" /\ WatcherAwaits
    /\ m \in hold /\ HasRoom
    /\ Put(m, "result")
    /\ hold' = hold \ {m}
    /\ dpc' = "emit"
    /\ UNCHANGED <<delivered, discarded, picked, acquiring, acquired, todo,
                   holdGroup, groupVars, taskVars, controlVars, watchVars>>

EmittedAll ==
    /\ dpc = "emit" /\ WatcherAwaits
    /\ hold = {}
    /\ dpc' = "handle"
    /\ UNCHANGED <<picked, acquiring, acquired, todo, hold, holdGroup,
                   groupVars, taskVars, queueVars, controlVars, watchVars>>

-----------------------------------------------------------------------------
(* The env side: a rollout task finishes, with a result (an error included) *)
(* or cancelled from within.                                               *)

FinishTask(m) ==
    /\ AllAwait
    /\ m \in inflight \ finished
    /\ finished' = finished \cup TaskIn(inflight, m)
    /\ UNCHANGED <<inflight, aborted, offPolicy, permits, groupVars, queueVars,
                   controlVars, loopVars, watchVars>>

AbortTask(m) ==
    /\ EnvCancels
    /\ AllAwait
    /\ m \in inflight \ finished
    /\ finished' = finished \cup TaskIn(inflight, m)
    /\ aborted' = aborted \cup TaskIn(inflight, m)
    /\ UNCHANGED <<inflight, offPolicy, permits, groupVars, queueVars,
                   controlVars, loopVars, watchVars>>

-----------------------------------------------------------------------------
(* The watcher: on_version_pending, drop_group, and the weight update.     *)

\* Mutant of TooOld: one version too lenient.
TooOldLate(m) == offPolicy[m] > MaxOffPolicy

\* A rollout that the next version would put past max_off_policy_steps.
TooOld(m) == offPolicy[m] + 1 > MaxOffPolicy

\* on_version_pending ages the train tasks and collects the stale groups in
\* one sweep without an await.
VersionPending ==
    /\ wpc = "idle" /\ DispatchAwaits
    /\ version < MaxVersion
    /\ offPolicy' = [m \in Member |->
           IF m \in inflight /\ m[1] \in TrainGroups
           THEN offPolicy[m] + 1 ELSE offPolicy[m]]
    /\ stale' = {g \in TrainGroups : \E m \in inflight : m[1] = g /\ TooOld(m)}
    /\ wpc' = "drop"
    /\ UNCHANGED <<inflight, finished, aborted, permits, dropping, dropGroup,
                   dropFound, dropPass, dropTasks, version, groupVars,
                   queueVars, controlVars, loopVars>>

\* Mutant of Unclaimed: drop_group leaves its tasks in self.inflight.
UnclaimedNone(g) == inflight

\* What drop_group leaves in self.inflight.
Unclaimed(g) == {m \in inflight : m[1] # g}

\* drop_group's synchronous claim: pop the group and its tasks, release the
\* permits, and go on to mark what was claimed.
DropGroup(g) ==
    /\ wpc = "drop" /\ DispatchAwaits
    /\ g \in stale
    /\ LET claimed == {m \in inflight : m[1] = g} IN
         /\ stale' = stale \ {g}
         /\ groups' = groups \ {g}
         /\ inflight' = Unclaimed(g)
         /\ finished' = finished \ claimed
         /\ aborted' = aborted \ claimed
         /\ permits' = Release(claimed)
         /\ dropping' = claimed
         /\ dropTasks' = (claimed # {})
    /\ dropGroup' = {g} /\ dropFound' = (g \in groups)
    /\ dropPass' = "claimed"
    /\ wpc' = "emit"
    /\ UNCHANGED <<opened, evalQueue, toSchedule, emitted, pinned, offPolicy,
                   version, queueVars, controlVars, loopVars>>

\* drop_group emits one Cancelled marker.
EmitMarker(m) ==
    /\ wpc = "emit" /\ DispatchAwaits
    /\ m \in dropping
    /\ CountEmitted(m[1], dropFound)
    /\ IF HasRoom
       THEN Put(m, "cancelled") /\ dropping' = dropping \ {m} /\ UNCHANGED wpc
       ELSE wpc' = "put" /\ UNCHANGED <<outQ, dropping>>
    /\ UNCHANGED <<opened, evalQueue, toSchedule, pinned, delivered, discarded,
                   stale, dropGroup, dropFound, dropPass, dropTasks, version,
                   taskVars, controlVars, loopVars>>

ResumeMarker(m) ==
    /\ wpc = "put" /\ DispatchAwaits
    /\ m \in dropping /\ HasRoom
    /\ Put(m, "cancelled")
    /\ dropping' = dropping \ {m}
    /\ wpc' = "emit"
    /\ UNCHANGED <<delivered, discarded, stale, dropGroup, dropFound, dropPass,
                   dropTasks, version, groupVars, taskVars, controlVars,
                   loopVars>>

\* Mutant of SecondPass: the never-scheduled members get no marker.
SecondPassNone == {}

\* The members the second pass marks: drop_group re-reads the budget.
SecondPass == UNION {IF dropFound THEN Unscheduled(g) ELSE {} : g \in dropGroup}

\* The first pass is over: rollouts_to_schedule is read now, after the awaits
\* of the first pass, and marked in a second one.
MarkUnscheduled ==
    /\ wpc = "emit" /\ DispatchAwaits
    /\ dropping = {} /\ dropPass = "claimed"
    /\ dropPass' = "unscheduled"
    /\ dropping' = SecondPass
    /\ UNCHANGED <<wpc, stale, dropGroup, dropFound, dropTasks, version,
                   groupVars, taskVars, queueVars, controlVars, loopVars>>

\* drop_group awaits the tasks it cancelled, if any, and returns.
FinishDrop ==
    /\ wpc = "emit" /\ DispatchAwaits
    /\ dropping = {} /\ dropPass = "unscheduled"
    /\ wpc' = IF dropTasks THEN "cancel" ELSE "drop"
    /\ UNCHANGED <<stale, dropping, dropGroup, dropFound, dropPass, dropTasks,
                   version, groupVars, taskVars, queueVars, controlVars,
                   loopVars>>

CancelsSettled ==
    /\ wpc = "cancel" /\ DispatchAwaits
    /\ wpc' = "drop"
    /\ UNCHANGED <<stale, dropping, dropGroup, dropFound, dropPass, dropTasks,
                   version, groupVars, taskVars, queueVars, controlVars,
                   loopVars>>

\* on_version_pending returns; the engines are paused and updated.
DropsDone ==
    /\ wpc = "drop" /\ DispatchAwaits
    /\ stale = {}
    /\ wpc' = "update"
    /\ UNCHANGED <<stale, dropping, dropGroup, dropFound, dropPass, dropTasks,
                   version, groupVars, taskVars, queueVars, controlVars,
                   loopVars>>

\* The weights are live; on_new_version does nothing in the dispatcher.
VersionInstalled ==
    /\ wpc = "update" /\ DispatchAwaits
    /\ version' = version + 1
    /\ wpc' = "idle"
    /\ UNCHANGED <<stale, dropping, dropGroup, dropFound, dropPass, dropTasks,
                   groupVars, taskVars, queueVars, controlVars, loopVars>>

-----------------------------------------------------------------------------
(* The orchestrator's main loop, as far as the dispatcher sees it.         *)

\* out_q.get() and the hand-over to a sink.
TakeRollout ==
    /\ AllAwait /\ ~stopped
    /\ outQ # <<>>
    /\ delivered' = delivered \cup {Head(outQ).member}
    /\ outQ' = Tail(outQ)
    /\ UNCHANGED <<discarded, groupVars, taskVars, controlVars, loopVars, watchVars>>

\* maybe_trigger_eval: queue the examples of the fired envs, prefer eval.
TriggerEval(fired) ==
    /\ AllAwait /\ ~stopped /\ ~trainDisabled
    /\ fired # {} /\ fired \cap (evalQueue \cup opened) = {}
    /\ evalQueue' = evalQueue \cup fired
    /\ mode' = "PREFER_EVAL"
    /\ UNCHANGED <<groups, opened, toSchedule, emitted, pinned, gate,
                   trainDisabled, stopped, toggles, taskVars, queueVars,
                   loopVars, watchVars>>

\* update_dispatch_gate: the orchestrator owns the gate; why it closes and
\* opens is the subject of module AsyncBarrier.
CloseGate ==
    /\ AllAwait /\ gate /\ toggles < MaxToggles
    /\ gate' = FALSE /\ toggles' = toggles + 1
    /\ UNCHANGED <<mode, trainDisabled, stopped, groupVars, taskVars,
                   queueVars, loopVars, watchVars>>

OpenGate ==
    /\ AllAwait /\ ~gate
    /\ gate' = TRUE
    /\ UNCHANGED <<mode, trainDisabled, stopped, toggles, groupVars, taskVars,
                   queueVars, loopVars, watchVars>>

\* begin_draining: disable_train_scheduling, then
\* cancel_inflight_train_rollouts, which drops train work without markers.
BeginDraining ==
    /\ MayStop /\ AllAwait /\ ~trainDisabled /\ ~stopped
    /\ LET doomed == {m \in inflight : m[1] \in TrainGroups} IN
         /\ inflight' = inflight \ doomed
         /\ finished' = finished \ doomed
         /\ aborted' = aborted \ doomed
         /\ permits' = Release(doomed)
         /\ discarded' = discarded \cup doomed
         /\ groups' = groups \ {m[1] : m \in doomed}
    /\ trainDisabled' = TRUE
    /\ UNCHANGED <<opened, evalQueue, toSchedule, emitted, pinned, offPolicy,
                   outQ, delivered, mode, gate, stopped, toggles, loopVars,
                   watchVars>>

\* stop() at the end of main_loop, or when it raises: the flag, then
\* cancel_inflight_rollouts in one sweep.
Stop ==
    /\ MayStop /\ AllAwait /\ ~stopped
    /\ stopped' = TRUE
    /\ inflight' = {} /\ finished' = {} /\ aborted' = {}
    /\ permits' = Release(inflight)
    /\ discarded' = discarded \cup inflight
    /\ groups' = {}
    /\ UNCHANGED <<opened, evalQueue, toSchedule, emitted, pinned, offPolicy,
                   outQ, delivered, mode, gate, trainDisabled, toggles,
                   loopVars, watchVars>>

\* stop() then cancels the dispatch loop at whatever await it is in.
KillLoop ==
    /\ stopped /\ AllAwait /\ dpc # "dead"
    /\ dpc' = "dead"
    /\ UNCHANGED <<picked, acquiring, acquired, todo, hold, holdGroup,
                   groupVars, taskVars, queueVars, controlVars, watchVars>>

-----------------------------------------------------------------------------
DispatchLoop ==
    \/ \E g \in Group : ContinueGroup(g) \/ OpenGroup(g)
    \/ SwitchToTrain \/ FillReturns \/ SelectClient
    \/ AcquirePermit \/ LaunchTask
    \/ Wake \/ HandledAll \/ EmittedAll
    \/ \E m \in Member : SkipClaimed(m) \/ HandleTask(m)
                         \/ EmitResult(m) \/ ResumePut(m)

Watcher ==
    \/ \E g \in Group : DropGroup(g)
    \/ \E m \in Member : EmitMarker(m) \/ ResumeMarker(m)
    \/ MarkUnscheduled \/ FinishDrop \/ CancelsSettled \/ DropsDone
    \/ VersionInstalled

MainLoop ==
    \/ TakeRollout
    \/ \E fired \in SUBSET EvalGroups : TriggerEval(fired)
    \/ CloseGate \/ OpenGate \/ BeginDraining \/ Stop \/ KillLoop

Env == \E m \in Member : FinishTask(m) \/ AbortTask(m)

Next == DispatchLoop \/ Watcher \/ VersionPending \/ MainLoop \/ Env

Spec == Init /\ [][Next]_vars

\* What the event loop and the env guarantee: its ready queue is FIFO, so a
\* coroutine that is ready again and again at the others' awaits gets its turn
\* (strong fairness: "ready" flickers with the polling dispatch loop); the
\* main loop keeps consuming, every task ends, and a client or a rate-limit
\* slot becomes available.
Fairness ==
    /\ WF_vars(DispatchLoop) /\ SF_vars(Watcher) /\ SF_vars(TakeRollout)
    /\ \A m \in Member : SF_vars(FinishTask(m))

FairSpec == Spec /\ Fairness

-----------------------------------------------------------------------------
FlagsOK ==
    /\ gate \in BOOLEAN /\ trainDisabled \in BOOLEAN /\ stopped \in BOOLEAN
    /\ holdGroup \in BOOLEAN /\ dropFound \in BOOLEAN /\ dropTasks \in BOOLEAN

StateOK ==
    /\ groups \subseteq Group /\ opened \subseteq Group
    /\ evalQueue \subseteq EvalGroups /\ pinned \subseteq Group
    /\ toSchedule \in [Group -> Nat] /\ emitted \in [Group -> Nat]
    /\ \A g \in Group : toSchedule[g] <= GroupSize[g]
    /\ inflight \subseteq Member /\ finished \subseteq inflight
    /\ aborted \subseteq finished
    /\ offPolicy \in [Member -> Nat]
    /\ permits \in Int
    /\ outQ \in Seq(Entry)
    /\ delivered \subseteq Member /\ discarded \subseteq Member
    /\ mode \in {"PREFER_TRAIN", "PREFER_EVAL"}
    /\ toggles \in Nat /\ version \in Nat
    /\ dpc \in {"fill", "client", "acquire", "wait", "handle", "emit", "put", "dead"}
    /\ picked \subseteq Group /\ acquiring \subseteq Member
    /\ acquired \in Nat
    /\ todo \subseteq Member /\ hold \subseteq Member
    /\ wpc \in {"idle", "drop", "emit", "put", "cancel", "update"}
    /\ stale \subseteq TrainGroups /\ dropGroup \subseteq Group
    /\ dropping \subseteq Member
    /\ dropPass \in {"claimed", "unscheduled"}

TypeOK == FlagsOK /\ StateOK

\* The permit counter is exactly the members of the running tasks plus those
\* acquired for the task about to start, and never exceeds
\* max_inflight_rollouts, although acquire() does not re-check after its
\* awaits and drop_group, draining and stop() release in between.
PermitsAccounted ==
    /\ permits = Cardinality(inflight) + acquired
    /\ permits <= MaxInflight

\* Once on_version_pending has returned, and until the next version, no task
\* in flight is older than max_off_policy_steps, although dispatch resumes in
\* the middle of the drops.
NoStaleSurvivor ==
    wpc \in {"idle", "update"} => \A m \in inflight : offPolicy[m] <= MaxOffPolicy

\* A rollout is in one place only: scheduled, in flight, held by the loop,
\* held by drop_group, queued once, or delivered.  So out_q never carries a
\* rollout twice: not a result and its Cancelled marker, not two markers.
AtMostOnce ==
    /\ \A i, j \in DOMAIN outQ : outQ[i].member = outQ[j].member => i = j
    /\ Queued \cap (acquiring \cup inflight \cup hold \cup dropping \cup delivered) = {}
    /\ inflight \cap (acquiring \cup hold \cup dropping) = {}
    /\ hold \cap dropping = {} /\ acquiring \cap (hold \cup dropping) = {}
    /\ delivered \cap (acquiring \cup inflight \cup hold \cup dropping) = {}

\* The dispatcher implements EmitOnce: whatever the order of completions,
\* off-policy drops, drains and shutdown, a member of an opened group reaches
\* out_q at most once, and only while the sinks have not heard of it and it has
\* not been given up.
Fresh == {m \in Member : m[1] \notin opened}
Owed == Member \ (Fresh \cup Queued \cup delivered \cup discarded)

Promise == INSTANCE EmitOnce
    WITH Kind <- {"result", "cancelled"}, Capacity <- QueueSize,
         fresh <- Fresh, owed <- Owed, queue <- outQ,
         taken <- delivered, given <- discarded
EmitsOnce == Promise!Spec

\* Members that still have a way to out_q: in a live group's budget, in the
\* budget of the group being dropped, or somewhere in the pipeline.
Reachable ==
    (UNION {Unscheduled(g) : g \in groups})
    \cup (IF wpc \in {"emit", "put"} /\ dropPass = "claimed" /\ dropFound
          THEN UNION {Unscheduled(g) : g \in dropGroup} ELSE {})
    \cup acquiring \cup inflight \cup hold \cup dropping \cup Queued

\* Emit-everything: no rollout of an opened group gets lost between the loop,
\* drop_group and the queue.  Draining and stopping give train groups up.
NothingLost ==
    ~trainDisabled /\ ~stopped =>
        \A m \in Member : m[1] \in opened => m \in Reachable \cup delivered \cup discarded

\* A live group still owes the sink a rollout, or it lost one to a task that
\* ended cancelled by itself: self.groups leaks a group for no other reason,
\* and never one whose members have all been emitted.
GroupOwes ==
    \A g \in groups :
        \E m \in Unscheduled(g) \cup acquiring \cup inflight \cup hold \cup discarded :
            m[1] = g

\* Every dispatched rollout reaches the sink, unless it was given up on purpose
\* or the dispatcher was stopped with the rollout in hand.
DispatchedReachSink ==
    \A m \in Member : m \in inflight ~> (stopped \/ m \in delivered \cup discarded)

\* Every member of a stale group reaches the sink, the never-scheduled ones
\* included, so that its count-to-group_size finalization fires.  A drain
\* gives all train groups up.
StaleGroupSettles ==
    \A g \in TrainGroups : g \in stale ~>
        \/ trainDisabled \/ stopped
        \/ \A m \in Member : m[1] = g => m \in delivered \cup discarded

\* Once an eval is triggered all of its rollouts reach the eval sink.
EvalCompletes ==
    \A g \in EvalGroups : g \in evalQueue ~>
        (stopped \/ \A m \in Member : m[1] = g => m \in delivered)

\* A rollout handed over as a result exceeds max_off_policy_steps by one
\* update at most: a finished task of a stale group may be emitted while the
\* sweep still waits on another group, but none outlives the sweep.
ResultsNearFresh ==
    \A i \in DOMAIN outQ : outQ[i].kind = "result" =>
        offPolicy[outQ[i].member] <= MaxOffPolicy + 1

\* dispatcher.py:209-214: is_idle is true once the pipeline has fully drained;
\* main_loop leaves on it, so no eval rollout may still be on its way.
IdleMeansDrained ==
    trainDisabled /\ ~stopped /\ AllAwait /\ IsIdle =>
        \A m \in Member : m[1] \in opened \cap EvalGroups => m \in delivered
=============================================================================
