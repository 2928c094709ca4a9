--------------------------- MODULE DispatcherProofs ---------------------------
(***************************************************************************)
(* What the dispatcher guarantees for any number of groups, group sizes,   *)
(* permits, queue size and off-policy limit, and for any of its            *)
(* configurations.                                                         *)
(***************************************************************************)
EXTENDS Dispatcher, FiniteSetTheorems, TLAPS

USE GroupsAssumption, LimitsAssumption DEF GroupsAssumption, LimitsAssumption

-----------------------------------------------------------------------------
(* Members and cardinalities. *)

LEMMA MemberParts ==
  ASSUME NEW m \in Member
  PROVE /\ m[1] \in Group /\ m[2] \in 1..GroupSize[m[1]]
        /\ m = <<m[1], m[2]>>
BY DEF Member

LEMMA MemberMade ==
  ASSUME NEW g \in Group, NEW i \in 1..GroupSize[g]
  PROVE <<g, i>> \in Member
BY DEF Member

LEMMA MemberFinite == IsFiniteSet(Member)
<1>1. IsFiniteSet(Group)
  BY FS_Union DEF Group
<1>2. IsFiniteSet(1..MaxInflight)
  BY FS_Interval
<1>3. IsFiniteSet(Group \X (1..MaxInflight))
  BY <1>1, <1>2, FS_Product
<1>4. Member \subseteq Group \X (1..MaxInflight)
  <2> SUFFICES ASSUME NEW m \in Member PROVE m \in Group \X (1..MaxInflight)
    OBVIOUS
  <2>1. GroupSize[m[1]] \in Nat /\ GroupSize[m[1]] <= MaxInflight
    BY MemberParts
  <2> QED
    BY <2>1, MemberParts
<1> QED
  BY <1>3, <1>4, FS_Subset

LEMMA SubsetCounted ==
  ASSUME NEW S, S \subseteq Member
  PROVE IsFiniteSet(S) /\ Cardinality(S) \in Nat
BY MemberFinite, FS_Subset, FS_CardinalityType

LEMMA UnscheduledMembers ==
  ASSUME NEW g \in Group, StateOK
  PROVE Unscheduled(g) \subseteq Member
<1>1. toSchedule[g] \in Nat /\ GroupSize[g] \in Nat /\ toSchedule[g] <= GroupSize[g]
  BY DEF StateOK
<1> QED
  BY <1>1 DEF Unscheduled, Member

LEMMA ColumnCounted ==
  ASSUME NEW g, NEW n \in Nat
  PROVE Cardinality({g} \X (1..n)) = n
<1>1. IsFiniteSet(1..n) /\ Cardinality(1..n) = n
  BY FS_Interval
<1>2. IsFiniteSet({g}) /\ Cardinality({g}) = 1
  BY FS_Singleton
<1>3. Cardinality({g} \X (1..n)) = 1 * n
  BY <1>1, <1>2, FS_Product, ZenonT(30)
<1> QED
  BY <1>3

LEMMA UnscheduledCounted ==
  ASSUME NEW g \in Group, StateOK
  PROVE Cardinality(Unscheduled(g)) = toSchedule[g]
<1>1. toSchedule[g] \in Nat
  BY DEF StateOK
<1> QED
  BY <1>1, ColumnCounted DEF Unscheduled

LEMMA ReleaseInt ==
  ASSUME NEW S, S \subseteq Member, permits \in Int
  PROVE Release(S) \in Int
BY SubsetCounted DEF Release

-----------------------------------------------------------------------------
(* Types.  They are inductive once a group whose client is being selected  *)
(* is known to have a budget left.                                         *)

FreshGroups ==
    /\ groups \subseteq opened /\ evalQueue \cap opened = {}
    /\ \A g \in Group \ opened : toSchedule[g] = GroupSize[g]

PickedBudget == dpc = "client" => \A g \in picked : toSchedule[g] > 0

StateInv == StateOK /\ FreshGroups /\ PickedBudget

\* Reserving a task's members keeps the types of what it writes.
LEMMA ReserveTypes ==
  ASSUME StateOK, NEW g \in Group, toSchedule[g] > 0, Reserve(g)
  PROVE /\ acquiring' \subseteq Unscheduled(g) /\ acquiring' # {}
        /\ toSchedule' \in [Group -> Nat]
        /\ \A h \in Group : toSchedule'[h] <= toSchedule[h]
        /\ \A h \in Group \ {g} : toSchedule'[h] = toSchedule[h]
        /\ acquired' = 0 /\ dpc' = "acquire"
<1>1. toSchedule \in [Group -> Nat] /\ toSchedule[g] \in Nat \ {0}
  BY DEF StateOK
<1>2. <<g, toSchedule[g]>> \in Unscheduled(g)
  BY <1>1 DEF Unscheduled
<1> QED
  BY <1>1, <1>2 DEF Reserve

\* So does emit_rollout's bookkeeping.
LEMMA CountTypes ==
  ASSUME StateOK, NEW g \in Group, NEW found, CountEmitted(g, found)
  PROVE groups' \subseteq groups /\ emitted' \in [Group -> Nat]
<1>1. emitted \in [Group -> Nat]
  BY DEF StateOK
<1>2. CASE found
  <2>1. /\ emitted' = [emitted EXCEPT ![g] = @ + 1]
        /\ groups' = IF Whole(g) THEN groups \ {g} ELSE groups
    BY <1>2, Zenon DEF CountEmitted
  <2> QED
    BY <1>1, <2>1
<1>3. CASE ~found
  <2>1. UNCHANGED <<emitted, groups>>
    BY <1>3, Zenon DEF CountEmitted
  <2> QED
    BY <1>1, <2>1
<1> QED
  BY <1>2, <1>3

\* And so does a put.
LEMMA PutTypes ==
  ASSUME StateOK, NEW m \in Member, NEW kind \in {"result", "cancelled"}, Put(m, kind)
  PROVE outQ' \in Seq(Entry)
<1>1. [member |-> m, kind |-> kind] \in Entry
  BY DEF Entry
<1> QED
  BY <1>1 DEF Put, StateOK

LEMMA StateStep == ASSUME StateInv, [Next]_vars PROVE StateInv'
<1> USE DEF StateInv, StateOK, FreshGroups, PickedBudget, groupVars, taskVars, queueVars, controlVars, loopVars, watchVars
<1>1. ASSUME NEW g \in Group, ContinueGroup(g) PROVE StateInv'
  <2>1. CASE g \in pinned
    <3>1. toSchedule[g] > 0 /\ g \in groups /\ Reserve(g)
      BY <1>1, <2>1 DEF ContinueGroup, Continuable
    <3>2. /\ toSchedule' \in [Group -> Nat] /\ acquired' = 0 /\ dpc' = "acquire"
          /\ \A h \in Group : toSchedule'[h] <= toSchedule[h]
          /\ \A h \in Group \ {g} : toSchedule'[h] = toSchedule[h]
      BY <3>1, ReserveTypes
    <3>3. acquiring' \subseteq Member
      BY <3>1, ReserveTypes, UnscheduledMembers
    <3>4. FreshGroups' /\ PickedBudget'
      BY <1>1, <3>1, <3>2 DEF ContinueGroup
    <3>5. \A h \in Group : toSchedule'[h] <= GroupSize[h]
      BY <3>2
    <3> QED
      BY <1>1, <3>2, <3>3, <3>4, <3>5 DEF ContinueGroup
  <2>2. CASE g \notin pinned
    BY <1>1, <2>2 DEF ContinueGroup, Continuable
  <2> QED
    BY <2>1, <2>2
<1>2. ASSUME NEW g \in Group, OpenGroup(g) PROVE StateInv'
  BY <1>2 DEF OpenGroup, Poppable, Sources, Group
<1>3. CASE SwitchToTrain
  BY <1>3 DEF SwitchToTrain
<1>4. CASE FillReturns
  BY <1>4 DEF FillReturns
<1>5. CASE SelectClient
  <2> PICK g \in picked : IF g \in groups
         THEN pinned' = pinned \cup {g} /\ Reserve(g)
         ELSE dpc' = "wait" /\ UNCHANGED <<pinned, acquiring, toSchedule, acquired>>
    BY <1>5 DEF SelectClient
  <2>1. CASE g \in groups
    <3>1. toSchedule[g] > 0 /\ Reserve(g)
      BY <1>5, <2>1 DEF SelectClient
    <3>2. pinned' = pinned \cup {g}
      BY <2>1
    <3>3. /\ toSchedule' \in [Group -> Nat] /\ acquired' = 0 /\ dpc' = "acquire"
          /\ \A h \in Group : toSchedule'[h] <= toSchedule[h]
          /\ \A h \in Group \ {g} : toSchedule'[h] = toSchedule[h]
      BY <3>1, ReserveTypes
    <3>4. acquiring' \subseteq Member
      BY <3>1, ReserveTypes, UnscheduledMembers
    <3>5. FreshGroups' /\ PickedBudget'
      BY <1>5, <2>1, <3>3 DEF SelectClient
    <3>6. \A h \in Group : toSchedule'[h] <= GroupSize[h]
      BY <3>3
    <3> QED
      BY <1>5, <3>2, <3>3, <3>4, <3>5, <3>6 DEF SelectClient
  <2>2. CASE g \notin groups
    BY <1>5, <2>2 DEF SelectClient
  <2> QED
    BY <2>1, <2>2
<1>6. CASE AcquirePermit
  BY <1>6 DEF AcquirePermit
<1>7. CASE LaunchTask
  BY <1>7 DEF LaunchTask
<1>8. CASE Wake
  BY <1>8 DEF Wake
<1>9. CASE HandledAll \/ EmittedAll
  BY <1>9 DEF HandledAll, EmittedAll
<1>10. ASSUME NEW m \in Member, SkipClaimed(m) PROVE StateInv'
  BY <1>10 DEF SkipClaimed
<1>11. ASSUME NEW m \in Member, HandleTask(m) PROVE StateInv'
  <2>1. m[1] \in Group /\ TaskIn(inflight, m) \subseteq inflight /\ Release(TaskIn(inflight, m)) \in Int
    BY <1>11, MemberParts, ReleaseInt DEF HandleTask, Claimable, TaskIn
  <2> QED
    BY <1>11, <2>1 DEF HandleTask
<1>12. ASSUME NEW m \in Member, EmitResult(m) PROVE StateInv'
  <2>1. groups' \subseteq groups /\ emitted' \in [Group -> Nat]
    BY <1>12, MemberParts, CountTypes DEF EmitResult
  <2>2. outQ' \in Seq(Entry) /\ hold' \subseteq Member
    <3>1. CASE HasRoom
      <4>1. Put(m, "result") /\ hold' = hold \ {m}
        BY <1>12, <3>1 DEF EmitResult
      <4> QED
        BY <4>1, PutTypes
    <3>2. CASE ~HasRoom
      BY <1>12, <3>2 DEF EmitResult
    <3> QED
      BY <3>1, <3>2
  <2>3. dpc' \in {"emit", "put"}
    BY <1>12 DEF EmitResult
  <2> QED
    BY <1>12, <2>1, <2>2, <2>3 DEF EmitResult
<1>13. ASSUME NEW m \in Member, ResumePut(m) PROVE StateInv'
  BY <1>13 DEF ResumePut, Put, Entry
<1>14. ASSUME NEW m \in Member, FinishTask(m) PROVE StateInv'
  BY <1>14 DEF FinishTask, TaskIn
<1>15. ASSUME NEW m \in Member, AbortTask(m) PROVE StateInv'
  BY <1>15 DEF AbortTask, TaskIn
<1>16. CASE VersionPending
  BY <1>16 DEF VersionPending
<1>17. ASSUME NEW g \in Group, DropGroup(g) PROVE StateInv'
  BY <1>17, ReleaseInt DEF DropGroup, Unclaimed
<1>18. ASSUME NEW m \in Member, EmitMarker(m) PROVE StateInv'
  <2>1. groups' \subseteq groups /\ emitted' \in [Group -> Nat]
    BY <1>18, MemberParts, CountTypes DEF EmitMarker
  <2>2. outQ' \in Seq(Entry) /\ dropping' \subseteq Member
    <3>1. CASE HasRoom
      <4>1. Put(m, "cancelled") /\ dropping' = dropping \ {m}
        BY <1>18, <3>1 DEF EmitMarker
      <4> QED
        BY <4>1, PutTypes
    <3>2. CASE ~HasRoom
      BY <1>18, <3>2 DEF EmitMarker
    <3> QED
      BY <3>1, <3>2
  <2>3. wpc' \in {"emit", "put"}
    BY <1>18 DEF EmitMarker
  <2> QED
    BY <1>18, <2>1, <2>2, <2>3 DEF EmitMarker
<1>19. ASSUME NEW m \in Member, ResumeMarker(m) PROVE StateInv'
  BY <1>19 DEF ResumeMarker, Put, Entry
<1>20. CASE MarkUnscheduled
  <2>1. SecondPass \subseteq Member
    <3> SUFFICES ASSUME NEW g \in dropGroup PROVE Unscheduled(g) \subseteq Member
      BY DEF SecondPass
    <3> QED
      BY UnscheduledMembers
  <2> QED
    BY <1>20, <2>1 DEF MarkUnscheduled
<1>21. CASE FinishDrop
  BY <1>21 DEF FinishDrop
<1>22. CASE CancelsSettled \/ DropsDone
  BY <1>22 DEF CancelsSettled, DropsDone
<1>23. CASE VersionInstalled
  BY <1>23 DEF VersionInstalled
<1>24. CASE TakeRollout
  <2>1. Head(outQ) \in Entry /\ Tail(outQ) \in Seq(Entry)
    BY <1>24 DEF TakeRollout
  <2> QED
    BY <1>24, <2>1 DEF TakeRollout, Entry
<1>25. ASSUME NEW fired \in SUBSET EvalGroups, TriggerEval(fired) PROVE StateInv'
  BY <1>25 DEF TriggerEval
<1>26. CASE CloseGate \/ OpenGate
  BY <1>26 DEF CloseGate, OpenGate
<1>27. CASE BeginDraining
  BY <1>27, ReleaseInt DEF BeginDraining
<1>28. CASE Stop
  BY <1>28, ReleaseInt DEF Stop
<1>29. CASE KillLoop
  BY <1>29 DEF KillLoop
<1>30. CASE UNCHANGED vars
  BY <1>30 DEF vars
<1> QED
  BY <1>1, <1>2, <1>3, <1>4, <1>5, <1>6, <1>7, <1>8, <1>9, <1>10, <1>11,
     <1>12, <1>13, <1>14, <1>15, <1>16, <1>17, <1>18, <1>19, <1>20, <1>21,
     <1>22, <1>23, <1>24, <1>25, <1>26, <1>27, <1>28, <1>29, <1>30
     DEF Next, DispatchLoop, Watcher, MainLoop, Env

LEMMA TestIsFlag ==
  ASSUME NEW x, NEW S PROVE (x \in S) \in BOOLEAN /\ (S # {}) \in BOOLEAN
OBVIOUS

LEMMA FlagsStep == ASSUME FlagsOK, [Next]_vars PROVE FlagsOK'
<1> USE DEF FlagsOK, groupVars, taskVars, queueVars, controlVars, loopVars, watchVars
<1>1. CASE DispatchLoop
  <2>1. CASE \E m \in Member : HandleTask(m)
    <3> PICK m \in Member : HandleTask(m)
      BY <2>1
    <3>1. holdGroup' = (m[1] \in groups)
      BY Zenon DEF HandleTask
    <3>2. UNCHANGED <<gate, trainDisabled, stopped, dropFound, dropTasks>>
      BY Zenon DEF HandleTask
    <3> QED
      BY <3>1, <3>2, TestIsFlag, Zenon
  <2>2. UNCHANGED <<gate, trainDisabled, stopped, dropFound, dropTasks>>
    BY <1>1, Zenon DEF DispatchLoop, ContinueGroup, OpenGroup, SwitchToTrain, FillReturns,
       SelectClient, AcquirePermit, LaunchTask, Wake, HandledAll, EmittedAll,
       SkipClaimed, HandleTask, EmitResult, ResumePut
  <2>3. (\E m \in Member : HandleTask(m)) \/ UNCHANGED holdGroup
    BY <1>1, Zenon DEF DispatchLoop, ContinueGroup, OpenGroup, SwitchToTrain, FillReturns,
       SelectClient, AcquirePermit, LaunchTask, Wake, HandledAll, EmittedAll,
       SkipClaimed, EmitResult, ResumePut
  <2> QED
    BY <2>1, <2>2, <2>3, Zenon
<1>2. CASE Watcher
  <2>1. CASE \E g \in Group : DropGroup(g)
    <3> PICK g \in Group : DropGroup(g)
      BY <2>1
    <3>1. dropFound' = (g \in groups) /\ dropTasks' = ({m \in inflight : m[1] = g} # {})
      BY Zenon DEF DropGroup
    <3>2. UNCHANGED <<gate, trainDisabled, stopped, holdGroup>>
      BY Zenon DEF DropGroup
    <3> QED
      BY <3>1, <3>2, TestIsFlag, Zenon
  <2>2. CASE ~ \E g \in Group : DropGroup(g)
    BY <1>2, <2>2, ZenonT(30) DEF Watcher, EmitMarker, ResumeMarker, MarkUnscheduled, FinishDrop,
                             CancelsSettled, DropsDone, VersionInstalled
  <2> QED
    BY <2>1, <2>2
<1>3. CASE VersionPending
  BY <1>3, Zenon DEF VersionPending
<1>4. CASE MainLoop
  BY <1>4, ZenonT(30) DEF MainLoop, TakeRollout, TriggerEval, CloseGate, OpenGate, BeginDraining,
                     Stop, KillLoop
<1>5. CASE Env
  BY <1>5, Zenon DEF Env, FinishTask, AbortTask
<1>6. CASE UNCHANGED vars
  BY <1>6, Zenon DEF vars
<1> QED
  BY <1>1, <1>2, <1>3, <1>4, <1>5, <1>6 DEF Next

LEMMA InitTypes == Init => FlagsOK /\ StateInv
<1> SUFFICES ASSUME Init PROVE FlagsOK /\ StateInv
  OBVIOUS
<1>1. FlagsOK
  BY Zenon DEF Init, FlagsOK
<1>2. StateOK
  BY DEF Init, StateOK
<1>3. FreshGroups /\ PickedBudget
  BY DEF Init, FreshGroups, PickedBudget
<1> QED
  BY <1>1, <1>2, <1>3 DEF StateInv

THEOREM StateInvariant == Spec => [](FlagsOK /\ StateInv)
<1>1. FlagsOK /\ [Next]_vars => FlagsOK'
  BY FlagsStep
<1>2. StateInv /\ [Next]_vars => StateInv'
  BY StateStep
<1> QED
  BY <1>1, <1>2, InitTypes, PTL DEF Spec

\* Every variable keeps its type; in particular a group's remaining budget
\* never goes below zero.
THEOREM TypeCorrect == Spec => []TypeOK
<1>1. FlagsOK /\ StateInv => TypeOK
  BY DEF StateInv, TypeOK
<1> QED
  BY <1>1, StateInvariant, PTL

-----------------------------------------------------------------------------
(* Staleness.  Between the sweep of on_version_pending and its return, the *)
(* rollouts that became too old belong to groups still to be dropped.      *)

StaleOwned ==
    \A m \in inflight :
        offPolicy[m] > MaxOffPolicy => wpc \notin {"idle", "update"} /\ m[1] \in stale

LEMMA StaleStep == ASSUME StateInv, StaleOwned, [Next]_vars PROVE StaleOwned'
<1> USE DEF StateInv, StateOK, StaleOwned, groupVars, taskVars, queueVars, controlVars, loopVars,
            watchVars
<1>1. CASE UNCHANGED <<offPolicy, wpc, stale>> /\ inflight' \subseteq inflight
  BY <1>1
<1>2. CASE LaunchTask
  BY <1>2 DEF LaunchTask
<1>3. CASE VersionPending
  <2> SUFFICES ASSUME NEW m \in inflight, offPolicy'[m] > MaxOffPolicy
               PROVE m[1] \in stale'
    BY <1>3 DEF VersionPending
  <2>1. m \in Member /\ offPolicy[m] \in Nat /\ offPolicy[m] <= MaxOffPolicy
    BY <1>3 DEF VersionPending
  <2>2. m[1] \in TrainGroups /\ offPolicy'[m] = offPolicy[m] + 1
    BY <1>3, <2>1 DEF VersionPending
  <2> QED
    BY <1>3, <2>1, <2>2 DEF VersionPending, TooOld
<1>4. ASSUME NEW g \in Group, DropGroup(g) PROVE StaleOwned'
  BY <1>4 DEF DropGroup, Unclaimed
<1>5. ASSUME NEW m \in Member, EmitMarker(m) \/ ResumeMarker(m) PROVE StaleOwned'
  BY <1>5 DEF EmitMarker, ResumeMarker
<1>6. CASE MarkUnscheduled \/ FinishDrop \/ CancelsSettled
  BY <1>6 DEF MarkUnscheduled, FinishDrop, CancelsSettled
<1>7. CASE DropsDone
  BY <1>7 DEF DropsDone
<1>8. CASE VersionInstalled
  BY <1>8 DEF VersionInstalled
<1>9. CASE DispatchLoop
  <2>1. LaunchTask \/ (UNCHANGED <<offPolicy, wpc, stale>> /\ inflight' \subseteq inflight)
    BY <1>9 DEF DispatchLoop, ContinueGroup, OpenGroup, SwitchToTrain, FillReturns, SelectClient,
           AcquirePermit, Wake, HandledAll, EmittedAll, SkipClaimed, HandleTask, EmitResult,
           ResumePut
  <2> QED
    BY <1>1, <1>2, <2>1
<1>10. CASE MainLoop
  BY <1>1, <1>10 DEF MainLoop, TakeRollout, TriggerEval, CloseGate, OpenGate, BeginDraining,
                     Stop, KillLoop
<1>11. CASE Env
  BY <1>1, <1>11 DEF Env, FinishTask, AbortTask
<1>12. CASE UNCHANGED vars
  BY <1>1, <1>12 DEF vars
<1> QED
  BY <1>3, <1>4, <1>5, <1>6, <1>7, <1>8, <1>9, <1>10, <1>11, <1>12 DEF Next, Watcher

\* Whatever is dispatched while on_version_pending waits in the middle of its
\* drops, no task past max_off_policy_steps is in flight once it has returned.
THEOREM NoStaleTaskSurvives == Spec => []NoStaleSurvivor
<1>1. Init => StaleOwned
  BY DEF Init, StaleOwned
<1>2. StateInv /\ StaleOwned /\ [Next]_vars => StaleOwned'
  BY StaleStep
<1>3. StateInv /\ StaleOwned => NoStaleSurvivor
  BY DEF StaleOwned, NoStaleSurvivor, StateInv, StateOK
<1> QED
  BY <1>1, <1>2, <1>3, StateInvariant, PTL DEF Spec

\* No task is ever more than one update past the limit, in flight or after.
AgesBounded == \A m \in Member : offPolicy[m] <= MaxOffPolicy + 1

LEMMA AgesStep ==
  ASSUME StateInv, StaleOwned, AgesBounded, [Next]_vars PROVE AgesBounded'
<1> USE DEF StateInv, StateOK, AgesBounded, groupVars, taskVars, queueVars, controlVars,
            loopVars, watchVars
<1> USE LimitsAssumption DEF LimitsAssumption
<1>1. CASE UNCHANGED offPolicy
  BY <1>1
<1>2. CASE LaunchTask
  BY <1>2 DEF LaunchTask
<1>3. CASE VersionPending
  <2> SUFFICES ASSUME NEW m \in Member PROVE offPolicy'[m] <= MaxOffPolicy + 1
    OBVIOUS
  <2>1. CASE m \in inflight /\ m[1] \in TrainGroups
    <3>1. offPolicy[m] \in Nat /\ offPolicy[m] <= MaxOffPolicy
      BY <1>3, <2>1 DEF VersionPending, StaleOwned
    <3>2. offPolicy'[m] = offPolicy[m] + 1
      BY <1>3, <2>1 DEF VersionPending
    <3> QED
      BY <3>1, <3>2
  <2>2. CASE ~(m \in inflight /\ m[1] \in TrainGroups)
    <3>1. offPolicy'[m] = offPolicy[m]
      BY <1>3, <2>2 DEF VersionPending
    <3> QED
      BY <3>1
  <2> QED
    BY <2>1, <2>2
<1>4. CASE DispatchLoop
  <2>1. LaunchTask \/ UNCHANGED offPolicy
    BY <1>4 DEF DispatchLoop, ContinueGroup, OpenGroup, SwitchToTrain, FillReturns, SelectClient,
           AcquirePermit, Wake, HandledAll, EmittedAll, SkipClaimed, HandleTask, EmitResult,
           ResumePut
  <2> QED
    BY <1>1, <1>2, <2>1
<1>5. CASE Watcher
  <2>1. UNCHANGED offPolicy
    BY <1>5 DEF Watcher, DropGroup, EmitMarker, ResumeMarker, MarkUnscheduled, FinishDrop,
                CancelsSettled, DropsDone, VersionInstalled
  <2> QED
    BY <1>1, <2>1
<1>6. CASE MainLoop
  BY <1>1, <1>6 DEF MainLoop, TakeRollout, TriggerEval, CloseGate, OpenGate, BeginDraining,
                    Stop, KillLoop
<1>7. CASE Env
  BY <1>1, <1>7 DEF Env, FinishTask, AbortTask
<1>8. CASE UNCHANGED vars
  BY <1>1, <1>8 DEF vars
<1> QED
  BY <1>2, <1>3, <1>4, <1>5, <1>6, <1>7, <1>8 DEF Next

\* A result handed to the sink is at most one update past
\* max_off_policy_steps, although a finished task of a stale group may be
\* emitted while on_version_pending still waits on another group.
THEOREM ResultsAreNearFresh == Spec => []ResultsNearFresh
<1>1. Init => AgesBounded
  <2> SUFFICES ASSUME Init, NEW m \in Member PROVE offPolicy[m] <= MaxOffPolicy + 1
    BY DEF AgesBounded
  <2>1. offPolicy[m] = 0
    BY DEF Init
  <2> QED
    BY <2>1, LimitsAssumption DEF LimitsAssumption
<1>2. StateInv /\ StaleOwned /\ AgesBounded /\ [Next]_vars => AgesBounded'
  BY AgesStep
<1>3. StateInv /\ AgesBounded => ResultsNearFresh
  <2> SUFFICES ASSUME StateInv, AgesBounded, NEW i \in DOMAIN outQ
               PROVE offPolicy[outQ[i].member] <= MaxOffPolicy + 1
    BY DEF ResultsNearFresh
  <2>1. outQ \in Seq(Entry)
    BY DEF StateInv, StateOK
  <2>2. outQ[i] \in Entry
    BY <2>1
  <2>3. outQ[i].member \in Member
    BY <2>2 DEF Entry
  <2> QED
    BY <2>3 DEF AgesBounded
<1>4. Init => StaleOwned
  BY DEF Init, StaleOwned
<1>5. StateInv /\ StaleOwned /\ [Next]_vars => StaleOwned'
  BY StaleStep
<1> QED
  BY <1>1, <1>2, <1>3, <1>4, <1>5, StateInvariant, PTL DEF Spec

-----------------------------------------------------------------------------
(* Permits.  acquire() never checks the limit: what keeps the counter      *)
(* within it is the check made before the client was selected and before   *)
(* the first permit was taken, and that nobody else takes permits.         *)

Promised == IF dpc = "acquire" THEN Cardinality(acquiring) - acquired ELSE 0

\* Members of a task are out of their group's budget for good.
OutOfBudget == \A m \in inflight \cup acquiring : m[2] > toSchedule[m[1]]

Counted ==
    /\ permits = Cardinality(inflight) + acquired
    /\ permits + Promised <= MaxInflight

Acquiring ==
    /\ dpc = "acquire" => acquiring \cap inflight = {} /\ acquired < Cardinality(acquiring)
    /\ dpc \notin {"acquire", "dead"} => acquired = 0
    /\ dpc = "client" => \A g \in picked : Cost(g) <= Available

PermitInv == OutOfBudget /\ Counted /\ Acquiring

LEMMA CountedWithout ==
  ASSUME NEW T, NEW S, T \subseteq Member, S \subseteq T
  PROVE Cardinality(T \ S) = Cardinality(T) - Cardinality(S)
<1>1. IsFiniteSet(T) /\ T \cap S = S
  BY SubsetCounted
<1> QED
  BY <1>1, FS_Difference

LEMMA CountedTogether ==
  ASSUME NEW S, NEW T, S \subseteq Member, T \subseteq Member, S \cap T = {}
  PROVE Cardinality(S \cup T) = Cardinality(S) + Cardinality(T)
<1>1. IsFiniteSet(S) /\ IsFiniteSet(T) /\ Cardinality(S \cap T) = 0
  BY SubsetCounted, FS_EmptySet
<1>2. Cardinality(S) \in Nat /\ Cardinality(T) \in Nat
  BY SubsetCounted
<1>3. Cardinality(S \cup T) = Cardinality(S) + Cardinality(T) - Cardinality(S \cap T)
  BY <1>1, FS_Union
<1> QED
  BY <1>1, <1>2, <1>3

\* The members reserved for a task are new to inflight, and as many as the
\* permits that were checked.
LEMMA ReserveFits ==
  ASSUME StateInv, PermitInv, dpc # "acquire", dpc # "dead",
         NEW g \in Group, toSchedule[g] > 0, Cost(g) <= Available,
         Reserve(g), UNCHANGED <<inflight, permits>>, picked' = picked \/ dpc # "client"
  PROVE PermitInv'
<1> USE DEF StateInv, StateOK
<1> DEFINE k == toSchedule[g]
<1>1. toSchedule \in [Group -> Nat] /\ k \in Nat \ {0} /\ permits \in Int
  OBVIOUS
<1>2. /\ acquiring' \subseteq Unscheduled(g) /\ acquiring' \subseteq Member
      /\ acquired' = 0 /\ dpc' = "acquire"
      /\ \A h \in Group : toSchedule'[h] <= toSchedule[h]
      /\ toSchedule' \in [Group -> Nat]
  BY ReserveTypes, UnscheduledMembers
<1>3. Cardinality(acquiring') = Cost(g)
  <2>1. CASE g \in Scored
    BY <2>1, UnscheduledCounted DEF Reserve, Cost
  <2>2. CASE g \notin Scored
    BY <2>2, FS_Singleton DEF Reserve, Cost
  <2> QED
    BY <2>1, <2>2
<1>4. Cost(g) \in Nat \ {0}
  BY <1>1 DEF Cost
<1>5. \A m \in acquiring' : m[1] = g /\ m[2] <= k /\ m[2] > toSchedule'[g]
  <2>1. CASE g \in Scored
    BY <1>1, <2>1 DEF Reserve, Unscheduled
  <2>2. CASE g \notin Scored
    BY <1>1, <2>2 DEF Reserve
  <2> QED
    BY <2>1, <2>2
<1>6. acquiring' \cap inflight = {}
  <2> SUFFICES ASSUME NEW m \in inflight, m \in acquiring' PROVE FALSE
    OBVIOUS
  <2>1. m[1] = g /\ m[2] <= k
    BY <1>5
  <2>2. m[2] \in Int /\ m[2] > toSchedule[m[1]]
    BY MemberParts DEF PermitInv, OutOfBudget
  <2> QED
    BY <1>1, <2>1, <2>2
<1>7. OutOfBudget'
  <2>1. ASSUME NEW m \in inflight PROVE m[2] > toSchedule'[m[1]]
    <3>1. m[1] \in Group /\ m[2] \in Int /\ m[2] > toSchedule[m[1]]
      BY MemberParts DEF PermitInv, OutOfBudget
    <3> QED
      BY <1>2, <3>1
  <2> QED
    BY <1>5, <2>1 DEF OutOfBudget
<1>8. acquired = 0 /\ Promised' = Cost(g)
  BY <1>2, <1>3, <1>4 DEF PermitInv, Acquiring, Promised
<1>9. Counted'
  BY <1>1, <1>2, <1>4, <1>8 DEF PermitInv, Counted, Available
<1>10. Acquiring'
  BY <1>2, <1>3, <1>4, <1>6 DEF Acquiring
<1> QED
  BY <1>7, <1>9, <1>10 DEF PermitInv

\* Releasing tasks, by whoever claims them.
LEMMA ReleaseFits ==
  ASSUME StateInv, PermitInv,
         NEW S, S \subseteq inflight, inflight' = inflight \ S, permits' = Release(S),
         UNCHANGED <<acquiring, acquired, toSchedule, picked>>,
         dpc' = dpc \/ (dpc \notin {"acquire", "dead"} /\ dpc' \notin {"acquire", "client"})
  PROVE PermitInv'
<1> USE DEF StateInv, StateOK
<1>1. Cardinality(S) \in Nat /\ Cardinality(inflight) \in Nat
  BY SubsetCounted
<1>2. Cardinality(inflight') = Cardinality(inflight) - Cardinality(S)
  BY CountedWithout
<1>3. permits' \in Int /\ permits' <= permits
  BY <1>1 DEF Release
<1>4. Cardinality(acquiring) \in Nat
  BY SubsetCounted
<1>5. Promised' <= Promised /\ Promised' \in Int /\ Promised \in Int
  BY <1>4 DEF Promised, PermitInv, Acquiring
<1>6. Counted'
  <2>1. permits' = Cardinality(inflight') + acquired'
    BY <1>1, <1>2 DEF PermitInv, Counted, Release
  <2>2. permits' + Promised' <= MaxInflight
    BY <1>3, <1>5 DEF PermitInv, Counted
  <2> QED
    BY <2>1, <2>2 DEF Counted
<1>7. ASSUME NEW g \in picked, Cost(g) <= Available PROVE Cost(g)' <= Available'
  <2>1. Cost(g) \in Int /\ Cost(g)' = Cost(g)
    BY <1>7 DEF Cost
  <2> QED
    BY <1>3, <1>7, <2>1 DEF Available
<1>8. Acquiring'
  BY <1>7 DEF PermitInv, Acquiring
<1>9. OutOfBudget'
  BY DEF PermitInv, OutOfBudget
<1> QED
  BY <1>6, <1>8, <1>9 DEF PermitInv

\* Steps that touch neither tasks nor permits.
LEMMA IdleFits ==
  ASSUME StateInv, PermitInv, UNCHANGED <<inflight, permits, acquiring, acquired, toSchedule>>,
         \/ UNCHANGED <<dpc, picked>>
         \/ dpc \notin {"acquire", "dead"} /\ dpc' \notin {"acquire", "client"}
         \/ dpc' = "dead"
         \/ /\ dpc = "fill" /\ dpc' = "client"
            /\ picked' \subseteq Group /\ \A g \in picked' : Cost(g) <= Available
  PROVE PermitInv'
<1> USE DEF StateInv, StateOK
<1>1. Available' = Available /\ \A g \in Group : Cost(g)' = Cost(g)
  BY DEF Available, Cost
<1>2. Cardinality(acquiring) \in Nat
  BY SubsetCounted
<1>3. Promised' \in Int /\ Promised \in Int /\ Promised' <= Promised
  BY <1>2 DEF Promised, PermitInv, Acquiring
<1>4. Counted'
  BY <1>3 DEF PermitInv, Counted
<1>5. Acquiring'
  <2>1. /\ dpc' = "acquire" => acquiring \cap inflight = {} /\ acquired < Cardinality(acquiring)
        /\ dpc' \notin {"acquire", "dead"} => acquired = 0
    BY DEF PermitInv, Acquiring
  <2>2. ASSUME dpc' = "client", NEW g \in picked' PROVE g \in Group /\ Cost(g) <= Available
    BY <2>2 DEF PermitInv, Acquiring
  <2> QED
    BY <1>1, <2>1, <2>2 DEF Acquiring
<1>6. OutOfBudget'
  BY DEF PermitInv, OutOfBudget
<1> QED
  BY <1>4, <1>5, <1>6 DEF PermitInv

LEMMA PermitStep == ASSUME StateInv, PermitInv, [Next]_vars PROVE PermitInv'
<1> USE DEF groupVars, taskVars, queueVars, controlVars, loopVars, watchVars
<1>1. ASSUME NEW g \in Group, ContinueGroup(g) PROVE PermitInv'
  <2>1. toSchedule[g] > 0 /\ Cost(g) <= Available /\ dpc = "fill"
    BY <1>1 DEF ContinueGroup, Continuable
  <2>2. CASE g \in pinned
    BY <1>1, <2>1, <2>2, ReserveFits DEF ContinueGroup
  <2>3. CASE g \notin pinned
    BY <1>1, <2>1, <2>3, IdleFits DEF ContinueGroup
  <2> QED
    BY <2>2, <2>3
<1>2. ASSUME NEW g \in Group, OpenGroup(g) PROVE PermitInv'
  BY <1>2, IdleFits DEF OpenGroup, Poppable
<1>3. CASE SelectClient
  <2> PICK g \in picked : IF g \in groups
         THEN pinned' = pinned \cup {g} /\ Reserve(g)
         ELSE dpc' = "wait" /\ UNCHANGED <<pinned, acquiring, toSchedule, acquired>>
    BY <1>3 DEF SelectClient
  <2>1. CASE g \in groups
    <3>1. g \in Group /\ toSchedule[g] > 0 /\ Cost(g) <= Available
      BY <1>3 DEF SelectClient, StateInv, StateOK, PickedBudget, PermitInv, Acquiring
    <3>2. UNCHANGED <<inflight, permits, picked>> /\ dpc = "client" /\ Reserve(g)
      BY <1>3, <2>1 DEF SelectClient
    <3> QED
      BY <3>1, <3>2, ReserveFits
  <2>2. CASE g \notin groups
    BY <1>3, <2>2, IdleFits DEF SelectClient
  <2> QED
    BY <2>1, <2>2
<1>4. CASE AcquirePermit
  <2>1. Cardinality(acquiring) \in Nat
    BY SubsetCounted DEF StateInv, StateOK
  <2>2. acquired \in Nat /\ permits \in Int
    BY DEF StateInv, StateOK
  <2>3. /\ UNCHANGED <<inflight, acquiring, toSchedule, picked, dpc>> /\ dpc = "acquire"
        /\ permits' = permits + 1 /\ acquired' = acquired + 1
        /\ acquired + 1 < Cardinality(acquiring)
    BY <1>4 DEF AcquirePermit
  <2>4. Counted'
    <3>1. permits' + Promised' = permits + Promised
      BY <2>1, <2>2, <2>3 DEF Promised
    <3>2. Cardinality(inflight) \in Nat
      BY SubsetCounted DEF StateInv, StateOK
    <3> QED
      BY <2>2, <2>3, <3>1, <3>2 DEF PermitInv, Counted
  <2>5. Acquiring' /\ OutOfBudget'
    BY <2>3 DEF PermitInv, Acquiring, OutOfBudget
  <2> QED
    BY <2>4, <2>5 DEF PermitInv
<1>5. CASE LaunchTask
  <2> USE <1>5 DEF LaunchTask, StateInv, StateOK
  <2>1. Cardinality(acquiring) \in Nat /\ Cardinality(inflight) \in Nat
    BY SubsetCounted
  <2>2. Cardinality(inflight') = Cardinality(inflight) + Cardinality(acquiring)
    BY CountedTogether DEF PermitInv, Acquiring
  <2>3. Counted'
    BY <2>1, <2>2, SMTT(30) DEF PermitInv, Counted, Promised
  <2>4. OutOfBudget' /\ Acquiring'
    BY DEF PermitInv, OutOfBudget, Acquiring
  <2> QED
    BY <2>3, <2>4 DEF PermitInv
<1>6. ASSUME NEW m \in Member, HandleTask(m) PROVE PermitInv'
  <2>1. TaskIn(inflight, m) \subseteq inflight
    BY <1>6 DEF HandleTask, Claimable, TaskIn
  <2>2. dpc = "handle" /\ dpc' \in {"handle", "emit"}
    BY <1>6 DEF HandleTask
  <2> QED
    BY <1>6, <2>1, <2>2, ReleaseFits DEF HandleTask
<1>7. ASSUME NEW g \in Group, DropGroup(g) PROVE PermitInv'
  <2> DEFINE S == {m \in inflight : m[1] = g}
  <2>1. S \subseteq inflight /\ inflight' = inflight \ S /\ permits' = Release(S)
    BY <1>7 DEF DropGroup, Unclaimed
  <2> QED
    BY <1>7, <2>1, ReleaseFits DEF DropGroup
<1>8. CASE BeginDraining
  <2> DEFINE S == {m \in inflight : m[1] \in TrainGroups}
  <2>1. S \subseteq inflight /\ inflight' = inflight \ S /\ permits' = Release(S)
    BY <1>8 DEF BeginDraining
  <2> QED
    BY <1>8, <2>1, ReleaseFits DEF BeginDraining
<1>9. CASE Stop
  <2>1. inflight' = inflight \ inflight /\ permits' = Release(inflight)
    BY <1>9 DEF Stop
  <2> QED
    BY <1>9, <2>1, ReleaseFits DEF Stop
<1>10. CASE KillLoop
  BY <1>10, IdleFits DEF KillLoop
<1>11. CASE SwitchToTrain \/ FillReturns \/ Wake \/ HandledAll \/ EmittedAll
  BY <1>11, IdleFits DEF SwitchToTrain, FillReturns, Wake, HandledAll, EmittedAll
<1>12. ASSUME NEW m \in Member, SkipClaimed(m) \/ EmitResult(m) \/ ResumePut(m) PROVE PermitInv'
  BY <1>12, IdleFits DEF SkipClaimed, EmitResult, ResumePut
<1>13. CASE Env
  BY <1>13, IdleFits DEF Env, FinishTask, AbortTask
<1>14. CASE VersionPending
  BY <1>14, IdleFits DEF VersionPending
<1>15. CASE Watcher /\ ~ \E g \in Group : DropGroup(g)
  BY <1>15, IdleFits DEF Watcher, EmitMarker, ResumeMarker, MarkUnscheduled, FinishDrop,
                         CancelsSettled, DropsDone, VersionInstalled
<1>16. CASE MainLoop /\ ~BeginDraining /\ ~Stop /\ ~KillLoop
  BY <1>16, IdleFits DEF MainLoop, TakeRollout, TriggerEval, CloseGate, OpenGate
<1>17. CASE UNCHANGED vars
  BY <1>17, IdleFits DEF vars
<1> QED
  BY <1>1, <1>2, <1>3, <1>4, <1>5, <1>6, <1>7, <1>8, <1>9, <1>10, <1>11, <1>12, <1>13,
     <1>14, <1>15, <1>16, <1>17 DEF Next, DispatchLoop, Watcher, MainLoop

\* The permit counter is exact and within max_inflight_rollouts, whoever
\* acquires and releases while acquire() waits.
THEOREM PermitsCorrect == Spec => []PermitsAccounted
<1>1. Init => PermitInv
  BY FS_EmptySet DEF Init, PermitInv, OutOfBudget, Counted, Acquiring, Promised
<1>2. StateInv /\ PermitInv /\ [Next]_vars => PermitInv'
  BY PermitStep
<1>3. StateInv /\ PermitInv => PermitsAccounted
  <2> SUFFICES ASSUME StateInv, PermitInv PROVE PermitsAccounted
    OBVIOUS
  <2>1. Cardinality(acquiring) \in Nat
    BY SubsetCounted DEF StateInv, StateOK
  <2>2. Promised \in Nat /\ permits \in Int
    BY <2>1 DEF Promised, PermitInv, Acquiring, StateInv, StateOK
  <2> QED
    BY <2>2 DEF PermitInv, Counted, PermitsAccounted
<1> QED
  BY <1>1, <1>2, <1>3, StateInvariant, PTL DEF Spec
=============================================================================
