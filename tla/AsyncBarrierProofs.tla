-------------------------- MODULE AsyncBarrierProofs --------------------------
(***************************************************************************)
(* The bounds of the asynchronous barrier, for every batch size, number of *)
(* rollouts in flight, lag and number of steps, and both transports.       *)
(***************************************************************************)
EXTENDS AsyncBarrier, TLAPS

USE BarrierAssumption DEF BarrierAssumption

\* A batch is numbered by the step it was cut at, and is on the transport
\* from SendBatch on.
BatchesNumbered ==
    /\ sent = IF mpc = "sent" THEN step + 1 ELSE step
    /\ mpc \in {"ship", "sent"} => step < MaxSteps /\ pending = 0

\* Weights come from the trainer's past, and the initial ones are not loaded.
WeightsFromPast ==
    /\ dirs \subseteq 1..tstep
    /\ wpc # "poll" => wnext >= 1

\* A group the dispatch loop holds frees no place until it is put.
PlacesLeft == inflight + held <= MaxInflight

\* The inductive invariant of the message flow.
FlowInv == CountersOK /\ BatchesNumbered /\ WeightsFromPast /\ PlacesLeft /\ Pipeline

LEMMA FlowStep == ASSUME FlowInv, [Next]_vars PROVE FlowInv'
<1> USE DEF FlowInv, CountersOK, BatchesNumbered, WeightsFromPast, PlacesLeft, Pipeline,
            workVars, sweepVars, dispatchVars, loopVars, orchVars, watchVars, trainVars,
            sharedVars
<1>1. CASE Dispatch
  BY <1>1 DEF Dispatch, MayDispatch
<1>2. CASE GroupLost
  BY <1>2 DEF GroupLost
<1>3. CASE GroupKept
  <2>1. CASE pending + 1 < BatchSize
    BY <1>3, <2>1 DEF GroupKept
  <2>2. CASE pending + 1 = BatchSize
    BY <1>3, <2>2 DEF GroupKept, AtMaxSteps
  <2> QED
    BY <1>3, <2>1, <2>2 DEF GroupKept
<1>4. CASE SendBatch
  BY <1>4 DEF SendBatch
<1>5. CASE ShipDone
  BY <1>5 DEF ShipDone
<1>6. CASE ExitMainLoop
  BY <1>6 DEF ExitMainLoop
<1>7. CASE StartUpdate
  BY <1>7 DEF StartUpdate, LatestStable
<1>8. CASE StartLoad
  BY <1>8 DEF StartLoad
<1>9. CASE FinishLoad
  BY <1>9 DEF FinishLoad
<1>10. CASE FailLoad
  BY <1>10 DEF FailLoad
<1>11. CASE SkipBroadcast
  BY <1>11 DEF SkipBroadcast
<1>12. CASE PublishFilesystem
  <2>1. tstep \in 1..tstep
    BY <1>12 DEF PublishFilesystem, SkipsBroadcast
  <2>2. dirs' \subseteq 1..tstep
    BY <1>12, <2>1 DEF PublishFilesystem
  <2> QED
    BY <1>12, <2>2 DEF PublishFilesystem
<1>13. CASE AnnounceNccl
  BY <1>13 DEF AnnounceNccl, SkipsBroadcast
<1>14. CASE TransferNccl
  BY <1>14 DEF TransferNccl
<1>15. CASE TrainStep
  BY <1>15 DEF TrainStep, BatchReady
<1>16. CASE FinishTraining
  BY <1>16 DEF FinishTraining
<1>17. CASE UNCHANGED vars
  BY <1>17 DEF vars
<1>18. CASE Finish
  BY <1>18 DEF Finish, Emit
<1>19. CASE PutHeld
  BY <1>19 DEF PutHeld
<1>22. CASE PutDropped
  BY <1>22 DEF PutDropped
<1>20. CASE TakeGroup
  BY <1>20 DEF TakeGroup
<1>21. CASE DropStale
  BY <1>21 DEF DropStale, Emit
<1> QED
  BY <1>1, <1>2, <1>3, <1>4, <1>5, <1>6, <1>7, <1>8, <1>9, <1>10, <1>11,
     <1>12, <1>13, <1>14, <1>15, <1>16, <1>17, <1>18, <1>19, <1>20, <1>21, <1>22
     DEF Next, MainLoop, Watcher, Trainer, Over

THEOREM FlowInvariant == Spec => []FlowInv
<1>1. Init => FlowInv
  BY DEF Init, FlowInv, CountersOK, BatchesNumbered, WeightsFromPast, PlacesLeft, Pipeline
<1>2. FlowInv /\ [Next]_vars => FlowInv'
  BY FlowStep
<1> QED
  BY <1>1, <1>2, PTL DEF Spec

-----------------------------------------------------------------------------
LEMMA GateIsFlag == ASSUME NEW s, NEW v PROVE GateFor(s, v) \in BOOLEAN
BY SMT DEF GateFor

LEMMA FlagsStep == ASSUME FlagsOK, [Next]_vars PROVE FlagsOK'
<1> USE DEF FlagsOK, workVars, sweepVars, dispatchVars, loopVars, orchVars, watchVars,
            trainVars, sharedVars
<1>1. CASE Dispatch \/ Finish \/ PutHeld
  BY <1>1, Zenon DEF Dispatch, Finish, PutHeld
<1>2. CASE GroupLost
  BY <1>2, Zenon DEF GroupLost
<1>3. CASE TakeGroup \/ GroupKept
  BY <1>3, Zenon DEF TakeGroup, GroupKept
<1>4. CASE SendBatch
  BY <1>4, Zenon DEF SendBatch
<1>5. CASE ShipDone
  BY <1>5, GateIsFlag, Zenon DEF ShipDone
<1>6. CASE ExitMainLoop
  BY <1>6, Zenon DEF ExitMainLoop
<1>7. CASE StartUpdate \/ DropStale \/ PutDropped \/ StartLoad
  BY <1>7, Zenon DEF StartUpdate, DropStale, PutDropped, StartLoad
<1>8. CASE FinishLoad
  BY <1>8, GateIsFlag, Zenon DEF FinishLoad
<1>9. CASE FailLoad
  BY <1>9, Zenon DEF FailLoad
<1>10. CASE Trainer
  BY <1>10, Zenon DEF Trainer, SkipBroadcast, PublishFilesystem, AnnounceNccl,
                      TransferNccl, TrainStep, FinishTraining
<1>11. CASE UNCHANGED vars
  BY <1>11, Zenon DEF vars
<1> QED
  BY <1>1, <1>2, <1>3, <1>4, <1>5, <1>6, <1>7, <1>8, <1>9, <1>10, <1>11
     DEF Next, MainLoop, Watcher, Over

\* Every variable keeps its type.
THEOREM TypeCorrect == Spec => []TypeOK
<1>1. Init => FlagsOK
  BY Zenon DEF Init, FlagsOK
<1>2. FlagsOK /\ [Next]_vars => FlagsOK'
  BY FlagsStep
<1>3. FlowInv /\ FlagsOK => TypeOK
  BY DEF FlowInv, TypeOK
<1> QED
  BY <1>1, <1>2, <1>3, FlowInvariant, PTL DEF Spec

\* The policy never overtakes the trainer, and the trainer never overtakes
\* the batches that were sent.
THEOREM PipelineCorrect == Spec => []Pipeline
<1>1. FlowInv => Pipeline
  BY DEF FlowInv
<1> QED
  BY <1>1, FlowInvariant, PTL

-----------------------------------------------------------------------------
LEMMA OpenStep == ASSUME FlowInv, OpenMeansNear, [Next]_vars PROVE OpenMeansNear'
<1> USE DEF OpenMeansNear, FlowInv, CountersOK, workVars, sweepVars, dispatchVars,
            loopVars, orchVars, watchVars, trainVars, sharedVars
<1>1. CASE ShipDone
  BY <1>1 DEF ShipDone, GateFor
<1>2. CASE FinishLoad
  <2>1. gate' = GateFor(step, wnext)
    BY <1>2, Zenon DEF FinishLoad
  <2>2. step' = step /\ version' = wnext
    BY <1>2 DEF FinishLoad
  <2>3. gate' => GateFor(step, wnext)
    BY <2>1, Zenon
  <2> QED
    BY <2>2, <2>3 DEF GateFor
<1>3. CASE UNCHANGED <<gate, step, version>>
  BY <1>3
<1>4. ShipDone \/ FinishLoad \/ UNCHANGED <<gate, step, version>>
  BY DEF Next, MainLoop, Watcher, Trainer, Over, vars, Dispatch, Finish, PutHeld,
         TakeGroup, GroupLost, GroupKept, SendBatch, ExitMainLoop, StartUpdate, DropStale,
         PutDropped, StartLoad, FailLoad, SkipBroadcast, PublishFilesystem, AnnounceNccl,
         TransferNccl, TrainStep, FinishTraining
<1> QED
  BY <1>1, <1>2, <1>3, <1>4

\* While the dispatch gate is set, the next batch is at most TARGET_LAG ahead
\* of the policy.
THEOREM OpenGateIsNear == Spec => []OpenMeansNear
<1>1. Init => OpenMeansNear
  BY DEF Init, OpenMeansNear
<1>2. FlowInv /\ OpenMeansNear /\ [Next]_vars => OpenMeansNear'
  BY OpenStep
<1> QED
  BY <1>1, <1>2, FlowInvariant, PTL DEF Spec

-----------------------------------------------------------------------------
(* The lead of the orchestrator.  While the gate is closed nothing new is  *)
(* dispatched, so the batches still to come are paid for by the groups in  *)
(* flight, on their way to the sink, in the sink, or in the batch being    *)
(* shipped.  Places are given back before the sink has what left them, so  *)
(* a full out_q and both groups that wait for it come on top of them.      *)

Capacity == MaxInflight + QueueSize + 1

InHand == IF mpc = "recv" THEN 0 ELSE IF mpc = "add" THEN 1 ELSE BatchSize
Work == pending + inflight + held + dropping + queued + InHand
Beyond == step - version - TargetLag - 1

PaidFor == ~gate => Beyond * BatchSize + Work <= Capacity
LeadInv == FlowInv /\ OpenMeansNear /\ PaidFor

LEMMA ProductSuccessor ==
  ASSUME NEW a \in Int PROVE (a + 1) * BatchSize = a * BatchSize + BatchSize
OBVIOUS

LEMMA ProductMonotone ==
  ASSUME NEW a \in Int, NEW b \in Int, a <= b
  PROVE a * BatchSize <= b * BatchSize
OBVIOUS

LEMMA QuotientBound ==
  ASSUME NEW a \in Int, a * BatchSize <= Capacity
  PROVE a <= Capacity \div BatchSize
BY DEF Capacity

LEMMA LeadStep == ASSUME LeadInv, [Next]_vars PROVE PaidFor'
<1> USE DEF LeadInv, FlowInv, CountersOK, BatchesNumbered, PlacesLeft, Capacity, InHand, Work,
            Beyond, PaidFor, workVars, sweepVars, dispatchVars, loopVars, orchVars,
            watchVars, trainVars, sharedVars
<1>1. Beyond \in Int /\ Work \in Int
  OBVIOUS
<1>2. CASE Dispatch
  BY <1>2 DEF Dispatch, MayDispatch
<1>3. CASE GroupLost
  BY <1>3 DEF GroupLost
<1>4. CASE GroupKept
  <2>1. gate' = gate /\ Beyond' = Beyond /\ Work' <= Work
    BY <1>4 DEF GroupKept, AtMaxSteps
  <2>2. Work' \in Int
    BY <1>4 DEF GroupKept, AtMaxSteps
  <2> QED
    BY <1>1, <2>1, <2>2
<1>5. CASE ShipDone
  <2>1. Beyond' = Beyond + 1 /\ Work' = Work - BatchSize
    BY <1>5 DEF ShipDone
  <2>2. CASE gate
    <3>1. Beyond' <= 0
      BY <2>1, <2>2 DEF OpenMeansNear
    <3>2. Beyond' * BatchSize <= 0 * BatchSize
      BY <1>1, <2>1, <3>1, ProductMonotone
    <3>3. Work' <= Capacity
      BY <1>5 DEF ShipDone
    <3> QED
      BY <1>1, <2>1, <3>2, <3>3
  <2>3. CASE ~gate
    <3>1. Beyond' * BatchSize = Beyond * BatchSize + BatchSize
      BY <1>1, <2>1, ProductSuccessor
    <3> QED
      BY <1>1, <2>1, <2>3, <3>1
  <2> QED
    BY <2>2, <2>3
<1>6. CASE FinishLoad
  <2>1. Beyond' \in Int /\ Beyond' <= Beyond /\ Work' = Work
    BY <1>6 DEF FinishLoad, Pipeline
  <2>2. CASE gate
    <3>1. Beyond' <= -1
      BY <2>1, <2>2 DEF OpenMeansNear
    <3>2. Beyond' * BatchSize <= (-1) * BatchSize
      BY <1>1, <2>1, <3>1, ProductMonotone
    <3>3. Work <= Capacity + BatchSize
      OBVIOUS
    <3> QED
      BY <1>1, <2>1, <3>2, <3>3
  <2>3. CASE ~gate
    <3>1. Beyond' * BatchSize <= Beyond * BatchSize
      BY <1>1, <2>1, ProductMonotone
    <3> QED
      BY <1>1, <2>1, <2>3, <3>1
  <2> QED
    BY <2>2, <2>3
<1>7. CASE UNCHANGED <<gate, step, version, pending>> /\ Work' = Work
  BY <1>7
<1>8. CASE Finish \/ PutHeld \/ TakeGroup \/ PutDropped
  <2>1. UNCHANGED <<gate, step, version, pending>>
    BY <1>8 DEF Finish, PutHeld, TakeGroup, PutDropped
  <2>2. Work' = Work
    BY <1>8 DEF Finish, Emit, PutHeld, TakeGroup, PutDropped
  <2> QED
    BY <1>7, <2>1, <2>2
<1>9. CASE DropStale
  <2>1. UNCHANGED <<gate, step, version, pending>>
    BY <1>9 DEF DropStale
  <2>2. Work' = Work
    BY <1>9 DEF DropStale, Emit
  <2> QED
    BY <1>7, <2>1, <2>2
<1>10. Dispatch \/ GroupLost \/ GroupKept \/ ShipDone \/ FinishLoad \/ DropStale
       \/ (Finish \/ PutHeld \/ TakeGroup \/ PutDropped)
       \/ (UNCHANGED <<gate, step, version, pending>> /\ Work' = Work)
  BY DEF Next, MainLoop, Watcher, Trainer, Over, vars,
         SendBatch, ExitMainLoop, StartUpdate, StartLoad, FailLoad, SkipBroadcast,
         PublishFilesystem, AnnounceNccl, TransferNccl, TrainStep, FinishTraining
<1> QED
  BY <1>2, <1>3, <1>4, <1>5, <1>6, <1>7, <1>8, <1>9, <1>10

LEMMA PaidForBounds == ASSUME LeadInv PROVE LeadBounded
<1> USE DEF LeadInv, FlowInv, CountersOK
<1>1. Capacity \div BatchSize \in Nat
  BY DEF Capacity
<1>2. CASE gate
  BY <1>1, <1>2 DEF OpenMeansNear, LeadBounded, Capacity
<1>3. CASE ~gate
  <2>1. Beyond \in Int /\ Work \in Nat
    BY DEF Beyond, Work, InHand
  <2>2. Beyond * BatchSize <= Capacity
    BY <1>3, <2>1 DEF PaidFor, Capacity
  <2>3. Beyond <= Capacity \div BatchSize
    BY <2>1, <2>2, QuotientBound
  <2> QED
    BY <1>1, <2>3 DEF LeadBounded, Beyond, Capacity
<1> QED
  BY <1>2, <1>3

\* The orchestrator's lead over the policy is bounded by TARGET_LAG, the batch
\* that closes the gate, and what its work in flight, in out_q and waiting for
\* room in out_q can still fill.
THEOREM LeadIsBounded == Spec => []LeadBounded
<1>1. Init => PaidFor
  BY DEF Init, PaidFor
<1>2. FlowInv /\ OpenMeansNear /\ PaidFor /\ [Next]_vars => PaidFor'
  BY LeadStep DEF LeadInv
<1>3. FlowInv /\ OpenMeansNear /\ PaidFor => LeadBounded
  BY PaidForBounds DEF LeadInv
<1> QED
  BY <1>1, <1>2, <1>3, FlowInvariant, OpenGateIsNear, PTL DEF Spec

-----------------------------------------------------------------------------
(* The NCCL collective.  The trainer waits with the step it announced, and *)
(* only the watcher's load of that step writes the marker it waits for.    *)

RendezvousInv ==
    /\ ready \subseteq 1..wnext
    /\ wpc = "poll" => wnext = ckptStep
    /\ received <= tstep
    /\ tpc = "top" /\ tstep > 0 => received < tstep /\ wnext < tstep /\ tstep \notin dirs
    /\ tpc = "ready" => Nccl /\ received < tstep
    /\ tpc = "ready" /\ tstep \in ready => wpc = "load"

LEMMA RendezvousStep ==
  ASSUME FlowInv, RendezvousInv, [Next]_vars PROVE RendezvousInv'
<1> USE DEF RendezvousInv, FlowInv, CountersOK, WeightsFromPast, Pipeline, Nccl, workVars,
            sweepVars, dispatchVars, loopVars, orchVars, watchVars, trainVars, sharedVars
<1>1. CASE StartUpdate
  <2>1. wnext' \in dirs /\ wnext' > wnext
    BY <1>1 DEF StartUpdate, LatestStable
  <2>2. wnext' \in 1..tstep /\ (tpc = "top" => wnext' < tstep)
    BY <1>1, <2>1 DEF StartUpdate
  <2>3. wnext' \notin ready /\ ready \subseteq 1..wnext'
    BY <2>1
  <2> QED
    BY <1>1, <2>1, <2>2, <2>3 DEF StartUpdate
<1>2. CASE StartLoad
  <2>1. ready' \subseteq ready \cup {wnext} /\ wnext >= 1
    BY <1>2 DEF StartLoad
  <2> QED
    BY <1>2, <2>1 DEF StartLoad
<1>3. CASE FinishLoad
  <2>1. ~(tpc = "ready" /\ tstep \in ready)
    BY <1>3 DEF FinishLoad
  <2> QED
    BY <1>3, <2>1 DEF FinishLoad
<1>4. CASE FailLoad
  BY <1>4 DEF FailLoad
<1>5. CASE SkipBroadcast \/ FinishTraining
  BY <1>5 DEF SkipBroadcast, FinishTraining
<1>6. CASE PublishFilesystem
  BY <1>6 DEF PublishFilesystem
<1>7. CASE AnnounceNccl
  BY <1>7 DEF AnnounceNccl, SkipsBroadcast
<1>8. CASE TransferNccl
  BY <1>8 DEF TransferNccl
<1>9. CASE TrainStep
  BY <1>9 DEF TrainStep, BatchReady
<1>10. CASE UNCHANGED <<watchVars, trainVars, dirs, ready, received>>
  BY <1>10
<1>11. CASE Dispatch \/ Finish \/ PutHeld \/ GroupLost \/ MainLoop \/ DropStale
            \/ PutDropped \/ Over \/ UNCHANGED vars
  <2>1. UNCHANGED <<watchVars, trainVars, dirs, ready, received>>
    BY <1>11 DEF Dispatch, Finish, PutHeld, GroupLost, MainLoop, TakeGroup, GroupKept,
                 SendBatch, ShipDone, ExitMainLoop, DropStale, PutDropped, Over, vars
  <2> QED
    BY <1>10, <2>1
<1> QED
  BY <1>1, <1>2, <1>3, <1>4, <1>5, <1>6, <1>7, <1>8, <1>9, <1>11 DEF Next, Watcher, Trainer

LEMMA RendezvousTransfer ==
  ASSUME FlowInv, RendezvousInv, [Next]_vars, received' # received
  PROVE wpc = "load" /\ wnext = received'
<1> USE DEF FlowInv, CountersOK, Pipeline, workVars, sweepVars, dispatchVars, loopVars,
            orchVars, watchVars, trainVars, sharedVars
<1>1. TransferNccl
  BY DEF Next, MainLoop, Watcher, Trainer, Over, vars, Dispatch, Finish, PutHeld, TakeGroup,
         GroupLost, GroupKept, SendBatch, ShipDone, ExitMainLoop, StartUpdate, DropStale,
         PutDropped, StartLoad, FinishLoad, FailLoad, SkipBroadcast, PublishFilesystem,
         AnnounceNccl, TrainStep, FinishTraining
<1>2. tpc = "ready" /\ tstep \in ready /\ received' = tstep
  BY <1>1 DEF TransferNccl, EnginesReady
<1>3. wnext = tstep
  BY <1>2 DEF RendezvousInv
<1> QED
  BY <1>2, <1>3 DEF RendezvousInv

\* Whatever the interleaving of trainer and watcher, the trainer enters the
\* collective (broadcast/nccl.py) only for the step whose load the engines are
\* paused for.
THEOREM TransfersMeetLoads == Spec => NcclRendezvous
<1>1. Init => RendezvousInv
  BY DEF Init, RendezvousInv
<1>2. FlowInv /\ RendezvousInv /\ [Next]_vars => RendezvousInv'
  BY RendezvousStep
<1>3. FlowInv /\ RendezvousInv /\ [Next]_vars
      => [received' # received => exited \/ (wpc = "load" /\ wnext = received')]_vars
  BY RendezvousTransfer
<1> QED
  BY <1>1, <1>2, <1>3, FlowInvariant, PTL DEF Spec, NcclRendezvous

=============================================================================
