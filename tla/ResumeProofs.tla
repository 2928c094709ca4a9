---------------------------- MODULE ResumeProofs ----------------------------
(***************************************************************************)
(* What a run with a given resume step keeps across kills, for every       *)
(* number of steps, checkpoint interval, keep_last, lead and lives:        *)
(*   - the trainer's step counts the batches its weights learnt from, in   *)
(*     order and each once (Lined);                                        *)
(*   - what both sides saved can be loaded by both (PointInv);             *)
(*   - past the resume step only this life's batches are learnt from       *)
(*     (FreshInv);                                                         *)
(*   - the engines serve an earlier state of the trainer's model (LineInv);*)
(*   - clean-up leaves keep_last newer steps for each it deletes (KeepInv).*)
(***************************************************************************)
EXTENDS Resume, SequenceTheorems, FiniteSetTheorems, TLAPS

USE ResumeAssumption DEF ResumeAssumption, Step

Batches == [step : Nat, life : Nat]

\* m learnt from batches 0 to n - 1.
LinesUp(m, n) ==
    /\ m \in Seq(Batches) /\ Len(m) = n
    /\ \A i \in 1..n : m[i].step = i - 1

StartStep == IF resume = None THEN 0 ELSE resume

NumbersOK ==
    /\ life \in Nat /\ resume \in Step \cup {None} /\ tSaved \subseteq Step
    /\ tstep \in Step /\ received \in Nat \cup {None}
    /\ batches \in [Step -> Nat]
    /\ tpc \in {"saving", "wait"} => tstep < MaxSteps

\* Every whole checkpoint of the trainer lines up with its step.
CheckpointsLineUp ==
    \A s \in Step : tckpts[s].state = "whole" => LinesUp(tckpts[s].model, s)

ModelLinesUp == TrainerUp => LinesUp(model, tstep)

\* The batch waited for is the one of the trainer's step: before the run is
\* discovered, that is the step resumed from.
WaitsForOwn ==
    TrainerUp => IF received = None THEN tstep = StartStep ELSE received = tstep

Lined ==
    /\ NumbersOK /\ DOMAIN tckpts = Step
    /\ CheckpointsLineUp /\ ModelLinesUp /\ WaitsForOwn

\* No batch learnt from: step 0.
LEMMA EmptyLinesUp == LinesUp(NoModel, 0)
BY DEF LinesUp, NoModel

\* Training on the batch of the next step keeps the count.
LEMMA AppendLinesUp ==
    ASSUME NEW m, NEW n \in Nat, NEW l \in Nat, LinesUp(m, n)
    PROVE  LinesUp(Append(m, [step |-> n, life |-> l]), n + 1)
<1> DEFINE b == [step |-> n, life |-> l]
           longer == Append(m, b)
<1>1. m \in Seq(Batches) /\ Len(m) = n
  BY DEF LinesUp
<1>2. b \in Batches /\ b.step = n
  BY DEF Batches
<1>3. longer \in Seq(Batches) /\ Len(longer) = n + 1
  BY <1>1, <1>2
<1>4. \A i \in 1..n + 1 : longer[i].step = i - 1
  <2> TAKE i \in 1..n + 1
  <2>1. CASE i = n + 1
    <3>1. longer[i] = b
      BY <2>1, <1>1
    <3>2. n = i - 1
      BY <2>1
    <3> HIDE DEF longer, b
    <3> QED
      BY <3>1, <3>2, <1>2
  <2>2. CASE i # n + 1
    <3>1. i \in 1..n /\ longer[i] = m[i]
      BY <2>2, <1>1
    <3> QED
      BY <3>1 DEF LinesUp
  <2> QED
    BY <2>1, <2>2
<1> QED
  BY <1>3, <1>4 DEF LinesUp

LEMMA InitLined == Init => Lined
BY DEF Init, Lined, NumbersOK, CheckpointsLineUp, ModelLinesUp, WaitsForOwn,
       TrainerUp, Missing, None

\* A launch starts a trainer that has nothing in memory, on a disk whose
\* trainer checkpoints are all kept or all wiped.
LEMMA LaunchLined ==
    ASSUME Lined, NEW from \in Step \cup {None}, NEW wipe, Start(from, wipe)
    PROVE  Lined'
<1>1. tpc' = "load"
  BY DEF Start
<1>2. CheckpointsLineUp' /\ (DOMAIN tckpts = Step)'
  <2>1. CASE wipe
    BY <2>1 DEF Start, CheckpointsLineUp, Missing
  <2>2. CASE ~wipe
    BY <2>2 DEF Start, CheckpointsLineUp, Lined
  <2> QED
    BY <2>1, <2>2
<1>3. NumbersOK'
  <2>1. tpc' = "load" /\ UNCHANGED <<tstep, received>>
    BY DEF Start
  <2>2. life' \in Nat /\ resume' \in Step \cup {None} /\ tSaved' \subseteq Step
    <3>1. life' = life + 1 /\ resume' = from /\ tSaved' \subseteq tSaved
      BY DEF Start
    <3> QED
      BY <3>1 DEF NumbersOK, Lined
  <2>3. batches' \in [Step -> Nat]
    BY DEF Start, NumbersOK, Lined, Stale
  <2> QED
    BY <2>1, <2>2, <2>3 DEF NumbersOK, Lined
<1> QED
  BY <1>1, <1>2, <1>3 DEF Lined, ModelLinesUp, WaitsForOwn, TrainerUp

\* What leaves the trainer, its checkpoints and the batches alone.
LEMMA OthersLined ==
    ASSUME Lined, UNCHANGED <<life, resume, tSaved, trainer, tckpts, batches>>
    PROVE  Lined'
BY DEF Lined, NumbersOK, CheckpointsLineUp, ModelLinesUp, WaitsForOwn,
       TrainerUp, StartStep, trainer

LEMMA OrchestratorLined ==
    ASSUME Lined, Orchestrator
    PROVE  Lined'
<1>1. CASE Ship
  <2>1. NumbersOK'
    BY <1>1 DEF Ship, Lined, NumbersOK, trainer, launch
  <2> QED
    BY <1>1, <2>1 DEF Ship, Lined, CheckpointsLineUp, ModelLinesUp, WaitsForOwn,
       TrainerUp, StartStep, trainer, launch
<1>2. CASE OrchLoad \/ Update
  BY <1>2, OthersLined DEF OrchLoad, Update, launch, disk
<1>3. CASE BatchReady \/ FinalSave
  BY <1>3, OthersLined DEF BatchReady, FinalSave, OrchOpens, launch, disk
<1>4. CASE OrchSaved
  BY <1>4, OthersLined DEF OrchSaved
<1> QED
  BY <1>1, <1>2, <1>3, <1>4 DEF Orchestrator

\* A trainer that loads a checkpoint starts at that checkpoint's step.
LEMMA LoadLined ==
    ASSUME Lined, TrainerLoad, ResumeMode = "given"
    PROVE  Lined'
<1>1. NumbersOK'
  BY DEF TrainerLoad, TrainerResume, Lined, NumbersOK, None, launch, disk
<1>2. ModelLinesUp' /\ WaitsForOwn'
  <2>1. CASE resume = None
    BY <2>1, EmptyLinesUp DEF TrainerLoad, TrainerResume, ModelLinesUp,
       WaitsForOwn, StartStep, launch
  <2>2. CASE resume # None
    BY <2>2 DEF TrainerLoad, TrainerResume, ModelLinesUp, WaitsForOwn, TrainerUp,
       StartStep, launch, Lined, NumbersOK, CheckpointsLineUp
  <2> QED
    BY <2>1, <2>2
<1> QED
  BY <1>1, <1>2 DEF Lined, TrainerLoad, CheckpointsLineUp, disk

\* Checkpoints are of the model being trained.
LEMMA SaveLined ==
    ASSUME Lined, Checkpoint \/ TrainerSaved
    PROVE  Lined'
<1>1. CASE Checkpoint
  <2>1. TrainerUp /\ TrainerUp'
    BY <1>1 DEF Checkpoint, TrainerOpens, TrainerUp
  <2>2. CASE (tstep < MaxSteps /\ TrainerOpens("saving")) \/ TrainerOpens("closing")
    <3>1. CheckpointsLineUp'
      BY <2>2 DEF TrainerOpens, Lined, CheckpointsLineUp, Partial
    <3>2. NumbersOK'
      BY <2>2 DEF TrainerOpens, Lined, NumbersOK
    <3> QED
      BY <2>1, <2>2, <3>1, <3>2 DEF TrainerOpens, Lined, ModelLinesUp,
         WaitsForOwn, StartStep
  <2>3. CASE /\ tpc' = "wait" /\ tstep < MaxSteps
             /\ UNCHANGED <<launch, orch, tstep, first, received, kept, model, disk>>
    BY <2>1, <2>3 DEF Lined, NumbersOK, CheckpointsLineUp, ModelLinesUp,
       WaitsForOwn, StartStep, launch, disk
  <2> QED
    BY <1>1, <2>2, <2>3 DEF Checkpoint
<1>2. CASE TrainerSaved
  <2>1. TrainerUp
    BY <1>2 DEF TrainerSaved, TrainerUp
  <2>2. CheckpointsLineUp' /\ (DOMAIN tckpts = Step)'
    BY <1>2, <2>1 DEF TrainerSaved, Lined, CheckpointsLineUp, ModelLinesUp,
       Whole, Missing
  <2>3. NumbersOK'
    BY <1>2 DEF TrainerSaved, Lined, NumbersOK
  <2> QED
    BY <1>2, <2>1, <2>2, <2>3 DEF TrainerSaved, Lined, ModelLinesUp, WaitsForOwn,
       StartStep
<1> QED
  BY <1>1, <1>2

\* The batch received is the one the trainer's step asks for.
LEMMA TrainLined ==
    ASSUME Lined, Train
    PROVE  Lined'
<1>1. TrainerUp /\ received \in Nat
  BY DEF Train, TrainerUp, Step
<1>2. received = tstep /\ received # None
  BY <1>1 DEF Lined, WaitsForOwn, None
<1>3. batches[received] \in Nat
  BY DEF Train, Lined, NumbersOK
<1>4. LinesUp(model, tstep) /\ tstep \in Nat
  BY <1>1 DEF Lined, ModelLinesUp, NumbersOK
<1>5. LinesUp(model', tstep')
  BY <1>2, <1>3, <1>4, AppendLinesUp DEF Train
<1>6. NumbersOK'
  BY <1>1, <1>4 DEF Train, Lined, NumbersOK, launch, disk
<1>7. received' = tstep' /\ received' # None
  BY <1>1, <1>2, <1>4 DEF Train, None
<1> QED
  BY <1>5, <1>6, <1>7 DEF Train, Lined, CheckpointsLineUp, ModelLinesUp,
     WaitsForOwn, disk

LEMMA TrainerLined ==
    ASSUME Lined, Trainer, ResumeMode = "given"
    PROVE  Lined'
<1>1. CASE TrainerLoad
  BY <1>1, LoadLined
<1>2. CASE BroadcastBegins \/ BroadcastEnds
  <2>1. TrainerUp
    BY <1>2 DEF BroadcastBegins, BroadcastEnds, TrainerUp
  <2> QED
    BY <1>2, <2>1 DEF BroadcastBegins, BroadcastEnds, Lined, NumbersOK,
       CheckpointsLineUp, ModelLinesUp, WaitsForOwn, StartStep, launch
<1>3. CASE Checkpoint \/ TrainerSaved
  BY <1>3, SaveLined
<1>4. CASE Discover
  <2>1. TrainerUp /\ received = None
    BY <1>4 DEF Discover, TrainerUp
  <2>2. received' = tstep /\ received' # None /\ received' \in Nat
    BY <1>4, <2>1 DEF Discover, FirstBatch, Lined, WaitsForOwn, StartStep,
       NumbersOK, None
  <2> QED
    BY <1>4, <2>1, <2>2 DEF Discover, Lined, NumbersOK, CheckpointsLineUp,
       ModelLinesUp, WaitsForOwn, launch, disk
<1>5. CASE Train
  BY <1>5, TrainLined
<1> QED
  BY <1>1, <1>2, <1>3, <1>4, <1>5 DEF Trainer

LEMMA NextLined ==
    ASSUME Lined, [Next]_vars, ResumeMode = "given"
    PROVE  Lined'
<1>1. CASE LaunchFresh
  BY <1>1, LaunchLined DEF LaunchFresh
<1>2. CASE LaunchResumed
  <2>1. PICK from \in Known : Start(from, FALSE)
    BY <1>2 DEF LaunchResumed
  <2>2. from \in Step
    BY DEF Known, Lined, NumbersOK
  <2> QED
    BY <2>1, <2>2, LaunchLined
<1>3. CASE Kill \/ TerminateAll
  <2>1. Gone
    BY <1>3 DEF Kill, TerminateAll
  <2>2. NumbersOK'
    BY <2>1 DEF Gone, Lined, NumbersOK, launch, disk
  <2>3. ~TrainerUp'
    BY <2>1 DEF Gone, TrainerUp
  <2> QED
    BY <2>1, <2>2, <2>3 DEF Gone, Lined, CheckpointsLineUp, ModelLinesUp,
       WaitsForOwn, launch, disk
<1>4. CASE Orchestrator
  BY <1>4, OrchestratorLined
<1>5. CASE Trainer
  BY <1>5, TrainerLined
<1>6. CASE UNCHANGED vars
  BY <1>6, OthersLined DEF vars, launch, disk
<1> QED
  BY <1>1, <1>2, <1>3, <1>4, <1>5, <1>6 DEF Next, Launcher

\* Resumed from a step it is given, however often and wherever it is killed,
\* the trainer learns from batch 0, 1, 2 ... each exactly once: its step and
\* its weights never drift apart (trainer/runs.py _create_run_data,
\* trainer/ckpt.py load, transport/filesystem.py _get_received_step).
THEOREM ResumedStepsLineUp ==
    ASSUME ResumeMode = "given"
    PROVE  Spec => []StepsLineUp
<1>1. Init => Lined
  BY InitLined
<1>2. Lined /\ [Next]_vars => Lined'
  BY NextLined
<1>3. Lined => StepsLineUp
  BY DEF Lined, ModelLinesUp, StepsLineUp, LinesUp
<1> QED
  BY <1>1, <1>2, <1>3, PTL DEF Spec

-----------------------------------------------------------------------------
(* Types. *)

\* A step below MaxSteps is what the orchestrator ships and what it saves on
\* the way to shipping.
ShipsBelow == opc \in {"saving", "ship"} => ostep < MaxSteps

TypeInv == Lined /\ TypeOK /\ ShipsBelow

LEMMA InitTypes == Init => TypeOK /\ ShipsBelow
BY DEF Init, TypeOK, LaunchOK, OrchOK, TrainerOK, DiskOK, FilesOK, ShipsBelow,
       Missing, NoModel, None, AfterSave

\* Replacing one file by another of the kind.
LEMMA FilesUpdated ==
    ASSUME NEW files, FilesOK(files), NEW s \in Step, NEW file,
           file.state \in {"none", "part", "whole"}, file.model \in Seq(Batch)
    PROVE  FilesOK([files EXCEPT ![s] = file])
BY DEF FilesOK

LEMMA LaunchTypes ==
    ASSUME TypeInv, NEW from \in Step \cup {None}, NEW wipe, Start(from, wipe),
           life < MaxLives
    PROVE  TypeOK' /\ ShipsBelow'
<1>1. LaunchOK'
  <2>1. life' = life + 1 /\ life \in 0..MaxLives /\ resume' = from
    BY DEF Start, TypeInv, TypeOK, LaunchOK
  <2>2. life' \in 0..MaxLives
    BY <2>1
  <2>3. oSaved' \subseteq oSaved /\ tSaved' \subseteq tSaved
    BY DEF Start
  <2>4. oSaved \subseteq Step /\ tSaved \subseteq Step
    BY DEF TypeInv, TypeOK, LaunchOK
  <2> QED
    BY <2>1, <2>2, <2>3, <2>4 DEF LaunchOK
<1>2. OrchOK' /\ TrainerOK' /\ ShipsBelow'
  BY DEF Start, TypeInv, TypeOK, OrchOK, TrainerOK, ShipsBelow
<1>3. FilesOK(ockpts') /\ FilesOK(tckpts')
  <2>1. CASE wipe
    <3>1. /\ ockpts' = [s \in Step |-> Missing]
          /\ tckpts' = [s \in Step |-> Missing]
      BY <2>1 DEF Start
    <3>2. Missing.state = "none" /\ Missing.model \in Seq(Batch)
      BY DEF Missing, NoModel
    <3>3. FilesOK([s \in Step |-> Missing])
      BY <3>2 DEF FilesOK
    <3> QED
      BY <3>1, <3>3
  <2>2. CASE ~wipe
    BY <2>2 DEF Start, TypeInv, TypeOK, DiskOK
  <2> QED
    BY <2>1, <2>2
<1>4. FilesOK(casts')
  BY DEF Start, TypeInv, TypeOK, DiskOK, FilesOK, Missing, NoModel
<1>5. batches' \in [Step -> 0..MaxLives]
  BY DEF Start, TypeInv, TypeOK, DiskOK
<1> QED
  BY <1>1, <1>2, <1>3, <1>4, <1>5 DEF TypeOK, DiskOK

LEMMA OrchestratorTypes ==
    ASSUME TypeInv, Orchestrator, ResumeMode = "given"
    PROVE  TypeOK' /\ ShipsBelow'
<1>1. TrainerOK' /\ FilesOK(tckpts') /\ FilesOK(casts')
  BY DEF Orchestrator, OrchLoad, BatchReady, FinalSave, OrchOpens, OrchSaved, Ship,
     Update, TypeInv, TypeOK, TrainerOK, DiskOK, trainer, disk
<1>2. CASE OrchLoad
  <2>1. OrchResume \in Step \cup {None}
    BY DEF OrchResume, TypeInv, TypeOK, LaunchOK
  <2>2. /\ ostep' \in Step /\ version' \in Step /\ policy' \in Seq(Batch)
        /\ opc' \in {"run", "noload"}
    <3>1. CASE opc' = "run" /\ ostep' = 0 /\ version' = 0 /\ policy' = NoModel
      BY <3>1 DEF NoModel
    <3>2. CASE /\ OrchResume # None /\ opc' = "run"
               /\ ostep' = OrchResume /\ version' = OrchResume
               /\ policy' = casts[OrchResume].model
      BY <3>2, <2>1 DEF TypeInv, TypeOK, DiskOK, FilesOK
    <3>3. CASE opc' = "noload" /\ UNCHANGED <<ostep, version, policy>>
      BY <3>3 DEF TypeInv, TypeOK, OrchOK
    <3> QED
      BY <1>2, <3>1, <3>2, <3>3 DEF OrchLoad
  <2>3. OrchOK' /\ ShipsBelow'
    BY <2>2 DEF OrchOK, ShipsBelow
  <2> QED
    BY <1>1, <1>2, <2>3 DEF OrchLoad, TypeInv, TypeOK, LaunchOK, DiskOK, launch, disk
<1>3. CASE Update
  <2>1. OrchOK' /\ ShipsBelow'
    BY <1>3 DEF Update, TypeInv, TypeOK, OrchOK, DiskOK, FilesOK, ShipsBelow
  <2> QED
    BY <1>1, <1>3, <2>1 DEF Update, TypeInv, TypeOK, LaunchOK, DiskOK, launch, disk
<1>4. CASE Ship
  <2>1. ostep < MaxSteps /\ ostep \in Step /\ life \in 0..MaxLives
    BY <1>4 DEF Ship, TypeInv, ShipsBelow, TypeOK, OrchOK, LaunchOK
  <2>2. OrchOK' /\ ShipsBelow'
    BY <1>4, <2>1 DEF Ship, TypeInv, TypeOK, OrchOK, ShipsBelow
  <2>3. batches' \in [Step -> 0..MaxLives]
    BY <1>4, <2>1 DEF Ship, TypeInv, TypeOK, DiskOK
  <2> QED
    BY <1>1, <1>4, <2>2, <2>3 DEF Ship, TypeInv, TypeOK, LaunchOK, DiskOK, launch
<1>5. CASE BatchReady \/ FinalSave \/ OrchSaved
  <2>1. /\ ostep' = ostep /\ ostep \in Step /\ UNCHANGED <<version, policy>>
        /\ UNCHANGED <<life, resume, tSaved, batches>>
        /\ oSaved' \in {oSaved, oSaved \ {ostep}, oSaved \cup {ostep}}
    BY <1>5 DEF BatchReady, FinalSave, OrchOpens, OrchSaved, TypeInv, TypeOK,
       OrchOK, launch, disk
  <2>2. /\ opc' \in {"ship", "done", "failed", "saving", "closing", "failing"}
        /\ ShipsBelow'
    BY <1>5 DEF BatchReady, FinalSave, OrchOpens, OrchSaved, AfterSave, MoreSteps,
       TypeInv, ShipsBelow
  <2>3. FilesOK(ockpts')
    <3>1. ockpts' \in {ockpts, [ockpts EXCEPT ![ostep] = Partial],
                       [ockpts EXCEPT ![ostep] = Whole(NoModel)]}
      BY <1>5 DEF BatchReady, FinalSave, OrchOpens, OrchSaved, disk
    <3>2. FilesOK(ockpts)
      BY DEF TypeInv, TypeOK, DiskOK
    <3>3. Partial.state = "part" /\ Partial.model \in Seq(Batch)
      BY DEF Partial, NoModel
    <3>4. Whole(NoModel).state = "whole" /\ Whole(NoModel).model \in Seq(Batch)
      BY DEF Whole, NoModel
    <3>5. FilesOK([ockpts EXCEPT ![ostep] = Partial])
      BY <2>1, <3>2, <3>3, FilesUpdated
    <3>6. FilesOK([ockpts EXCEPT ![ostep] = Whole(NoModel)])
      BY <2>1, <3>2, <3>4, FilesUpdated
    <3> QED
      BY <3>1, <3>2, <3>5, <3>6
  <2>4. OrchOK'
    BY <2>1, <2>2 DEF TypeInv, TypeOK, OrchOK, AfterSave
  <2> QED
    BY <1>1, <2>1, <2>2, <2>3, <2>4 DEF TypeInv, TypeOK, LaunchOK, DiskOK
<1> QED
  BY <1>2, <1>3, <1>4, <1>5 DEF Orchestrator

LEMMA TrainerLoadTypes ==
    ASSUME TypeInv, TrainerLoad, ResumeMode = "given"
    PROVE  TypeOK' /\ ShipsBelow'
<1>1. TrainerResume = resume /\ resume \in Step \cup {None}
  BY DEF TrainerResume, TypeInv, TypeOK, LaunchOK
<1>2. tstep' \in Step /\ model' \in Seq(Batch) /\ tpc' \in {"top", "noload"}
  <2>1. CASE tpc' = "top" /\ tstep' = 0 /\ model' = NoModel
    BY <2>1 DEF NoModel
  <2>2. CASE /\ TrainerResume # None /\ tpc' = "top" /\ tstep' = TrainerResume
             /\ model' = tckpts[TrainerResume].model
    BY <2>2, <1>1 DEF TypeInv, TypeOK, DiskOK, FilesOK
  <2>3. CASE tpc' = "noload" /\ UNCHANGED <<tstep, model>>
    BY <2>3 DEF TypeInv, TypeOK, TrainerOK
  <2> QED
    BY <2>1, <2>2, <2>3 DEF TrainerLoad
<1>3. first' = TRUE /\ received' = None /\ kept' \subseteq Step
  BY DEF TrainerLoad, Inherited, Dirs
<1>4. TrainerOK'
  BY <1>2, <1>3 DEF TrainerOK
<1> QED
  BY <1>4 DEF TrainerLoad, TypeInv, TypeOK, LaunchOK, OrchOK, DiskOK, ShipsBelow,
     launch, orch, disk

LEMMA BroadcastTypes ==
    ASSUME TypeInv, BroadcastBegins \/ BroadcastEnds
    PROVE  TypeOK' /\ ShipsBelow'
<1>1. /\ UNCHANGED <<launch, orch, tstep, first, received, kept, model, ockpts,
                     tckpts, batches>>
      /\ tpc' \in {"cast", "ckpt"}
  BY DEF BroadcastBegins, BroadcastEnds
<1>2. /\ tstep \in Step /\ model \in Seq(Batch) /\ FilesOK(casts)
  BY DEF TypeInv, TypeOK, TrainerOK, DiskOK
<1>3. FilesOK(casts')
  <2>1. CASE BroadcastBegins
    <3>1. Partial.state = "part" /\ Partial.model \in Seq(Batch)
      BY DEF Partial, NoModel
    <3>2. FilesOK([casts EXCEPT ![tstep] = Partial])
      BY <1>2, <3>1, FilesUpdated
    <3> QED
      BY <2>1, <3>2, <1>2 DEF BroadcastBegins
  <2>2. CASE BroadcastEnds
    <3> DEFINE written == [casts EXCEPT ![tstep] = Whole(model)]
               old == Max({tstep - 2, 0})
    <3>1. Whole(model).state = "whole" /\ Whole(model).model \in Seq(Batch)
      BY <1>2 DEF Whole
    <3>2. FilesOK(written)
      BY <1>2, <3>1, FilesUpdated
    <3>3. FilesOK([written EXCEPT ![old] = Missing])
      <4> HIDE DEF written, old
      <4>1. Missing.state = "none" /\ Missing.model \in Seq(Batch)
        BY DEF Missing, NoModel
      <4> QED
        BY <3>2, <4>1 DEF FilesOK
    <3> QED
      BY <2>2, <3>2, <3>3 DEF BroadcastEnds
  <2> QED
    BY <2>1, <2>2 DEF BroadcastBegins, BroadcastEnds
<1> QED
  BY <1>1, <1>3 DEF TypeInv, TypeOK, LaunchOK, OrchOK, TrainerOK, DiskOK, ShipsBelow,
     launch, orch

LEMMA SaveTypes ==
    ASSUME TypeInv, Checkpoint \/ TrainerSaved
    PROVE  TypeOK' /\ ShipsBelow'
<1>1. /\ UNCHANGED <<life, resume, oSaved, orch, tstep, first, received, model,
                     ockpts, casts, batches>>
      /\ tpc' \in {"saving", "closing", "wait", "done"}
  BY DEF Checkpoint, TrainerOpens, TrainerSaved, launch, disk
<1>2. tstep \in Step /\ model \in Seq(Batch) /\ FilesOK(tckpts)
      /\ kept \subseteq Step /\ tSaved \subseteq Step
  BY DEF TypeInv, TypeOK, LaunchOK, TrainerOK, DiskOK
<1>3. kept' \subseteq Step /\ tSaved' \subseteq Step
  BY <1>2 DEF Checkpoint, TrainerOpens, TrainerSaved, Newest, launch
<1>4. FilesOK(tckpts')
  <2>1. Partial.state = "part" /\ Partial.model \in Seq(Batch)
    BY DEF Partial, NoModel
  <2>2. FilesOK([tckpts EXCEPT ![tstep] = Partial])
    BY <1>2, <2>1, FilesUpdated
  <2>3. CASE Checkpoint
    BY <1>2, <2>2, <2>3 DEF Checkpoint, TrainerOpens, disk
  <2>4. CASE TrainerSaved
    BY <1>2, <2>4 DEF TrainerSaved, FilesOK, Missing, Whole, NoModel
  <2> QED
    BY <2>3, <2>4
<1> QED
  BY <1>1, <1>3, <1>4 DEF TypeInv, TypeOK, LaunchOK, OrchOK, TrainerOK, DiskOK,
     ShipsBelow, orch

LEMMA TrainTypes ==
    ASSUME TypeInv, Train
    PROVE  TypeOK' /\ ShipsBelow'
<1>1. received \in Step /\ batches[received] \in 1..MaxLives
  BY DEF Train, TypeInv, TypeOK, DiskOK
<1>2. model' \in Seq(Batch)
  <2>1. [step |-> received, life |-> batches[received]] \in Batch
    BY <1>1 DEF Batch
  <2> QED
    BY <2>1 DEF Train, TypeInv, TypeOK, TrainerOK
<1>3. tstep' \in Step
  BY DEF Train, TypeInv, Lined, NumbersOK
<1>4. received' \in 0..MaxSteps + 1 /\ first' = FALSE /\ tpc' = "top"
  BY <1>1, ResumeAssumption DEF Train, Step
<1>5. kept' = kept /\ kept \subseteq Step
  BY DEF Train, TypeInv, TypeOK, TrainerOK
<1>6. TrainerOK'
  BY <1>2, <1>3, <1>4, <1>5 DEF TrainerOK
<1> QED
  BY <1>6 DEF Train, TypeInv, TypeOK, LaunchOK, OrchOK, DiskOK, ShipsBelow,
     launch, orch, disk

LEMMA NextTypes ==
    ASSUME TypeInv, [Next]_vars, ResumeMode = "given"
    PROVE  TypeInv'
<1>1. Lined'
  BY NextLined DEF TypeInv
<1>2. CASE LaunchFresh \/ LaunchResumed
  <2>1. PICK from \in Step \cup {None}, wipe \in BOOLEAN : Start(from, wipe)
    BY <1>2 DEF LaunchFresh, LaunchResumed, Known, TypeInv, TypeOK, LaunchOK
  <2> QED
    BY <1>1, <1>2, <2>1, LaunchTypes
    DEF LaunchFresh, LaunchResumed, Down, TypeInv
<1>3. CASE Kill \/ TerminateAll
  <2>1. Gone
    BY <1>3 DEF Kill, TerminateAll
  <2> QED
    BY <1>1, <2>1 DEF Gone, TypeInv, TypeOK, LaunchOK, OrchOK, TrainerOK, DiskOK,
       ShipsBelow, NoModel, launch, disk
<1>4. CASE Orchestrator
  BY <1>1, <1>4, OrchestratorTypes DEF TypeInv
<1>5. CASE Trainer
  <2>1. CASE Discover
    <3>1. received' \in Step
      BY <2>1 DEF Discover, FirstBatch, TypeInv, TypeOK, LaunchOK
    <3> QED
      BY <1>1, <2>1, <3>1 DEF Discover, TypeInv, TypeOK, LaunchOK, OrchOK, TrainerOK,
         DiskOK, ShipsBelow, launch, orch, disk
  <2> QED
    BY <1>1, <1>5, <2>1, TrainerLoadTypes, BroadcastTypes, SaveTypes, TrainTypes
    DEF Trainer, TypeInv
<1>6. CASE UNCHANGED vars
  BY <1>1, <1>6 DEF vars, TypeInv, TypeOK, LaunchOK, OrchOK, TrainerOK, DiskOK,
     ShipsBelow, launch, orch, trainer, disk
<1> QED
  BY <1>2, <1>3, <1>4, <1>5, <1>6 DEF Next, Launcher

\* With a given resume step the state keeps its types: no step passes
\* max_steps, on either side, in any life (orchestrator.py
\* finalize_train_batch, trainer/rl/train.py).
THEOREM TypeCorrect ==
    ASSUME ResumeMode = "given"
    PROVE  Spec => []TypeOK
<1>1. Init => TypeInv
  BY InitLined, InitTypes DEF TypeInv
<1>2. TypeInv /\ [Next]_vars => TypeInv'
  BY NextTypes
<1>3. TypeInv => TypeOK
  BY DEF TypeInv
<1> QED
  BY <1>1, <1>2, <1>3, PTL DEF Spec
-----------------------------------------------------------------------------
(* What a step to resume from consists of. *)

\* The trainer checkpoints the interval steps and the last one.
SavedStep(s) == OnInterval(s) \/ s = MaxSteps

\* What the logs say of the orchestrator is on its disk.
OrchRecord == \A s \in oSaved : ockpts[s].state = "whole"

\* What the logs say of the trainer is on its disk, and the broadcast of that
\* step with it: no clean-up deletes it.
TrainerRecord ==
    \A s \in tSaved :
        SavedStep(s) /\ tckpts[s].state = "whole" /\ casts[s].state = "whole"

UpTogether == opc = "off" <=> tpc = "off"

\* The weights of the step resumed from outlive the whole life.
ResumeWeights ==
    tpc # "off" /\ resume # None =>
        SavedStep(resume) /\ casts[resume].state = "whole"

\* A process that loads finds the step it resumes from, the newest saved.
Loadable ==
    /\ opc # "noload" /\ tpc # "noload"
    /\ opc = "load" /\ resume # None => ockpts[resume].state = "whole"
    /\ tpc = "load" =>
        /\ resume # None => resume \in tSaved
        /\ \A s \in tSaved : s <= resume

\* tstep is written: its checkpoint is not among those saved before.
Writing == tpc \in {"saving", "closing"}
Ahead == Writing \/ (~first /\ tpc \in {"top", "cast", "ckpt"})

\* The trainer checkpoints what it has broadcast, or resumed from, and has
\* nothing saved past its step.
Progress ==
    TrainerUp =>
        /\ IF first THEN tstep = StartStep ELSE StartStep < tstep
        /\ \A s \in tSaved : s <= tstep
        /\ Ahead => tstep \notin tSaved
        /\ tpc \in {"cast", "saving"} => ~first
        /\ Writing => SavedStep(tstep)
        /\ Writing \/ (~first /\ tpc = "ckpt") => casts[tstep].state = "whole"

PointInv ==
    /\ TypeInv /\ UpTogether /\ OrchRecord /\ TrainerRecord
    /\ ResumeWeights /\ Loadable /\ Progress

\* What the types say, in one place.
LEMMA Typed ==
    ASSUME PointInv
    PROVE  /\ tstep \in Step /\ ostep \in Step /\ resume \in Step \cup {None}
           /\ oSaved \subseteq Step /\ tSaved \subseteq Step
           /\ DOMAIN ockpts = Step /\ DOMAIN tckpts = Step /\ DOMAIN casts = Step
           /\ first \in BOOLEAN
BY DEF PointInv, TypeInv, TypeOK, LaunchOK, OrchOK, TrainerOK, DiskOK, FilesOK

LEMMA InitPoint == Init => PointInv
BY InitLined, InitTypes DEF Init, PointInv, TypeInv, UpTogether, OrchRecord,
   TrainerRecord, ResumeWeights, Loadable, Progress, TrainerUp

\* A launch deletes no broadcast up to the step it resumes from.
LEMMA LaunchPoint ==
    ASSUME PointInv, Down, NEW from \in Known \cup {None}, NEW wipe,
           wipe => from = None, Start(from, wipe), TypeInv'
    PROVE  PointInv'
<1>0. from \in Step \cup {None} /\ from \in Int
  <2>1. Known \subseteq Step
    BY Typed DEF Known
  <2> QED
    BY <2>1 DEF None
<1>1. opc' = "load" /\ tpc' = "load" /\ resume' = from
  BY DEF Start
<1>2. /\ oSaved' \subseteq oSaved /\ tSaved' \subseteq tSaved
      /\ \A s \in oSaved' \cup tSaved' : s <= from
      /\ from \in oSaved => from \in oSaved'
      /\ from \in tSaved => from \in tSaved'
  BY <1>0, Typed DEF Start
<1>3. \A s \in Step : s <= from => casts'[s] = casts[s]
  BY <1>0 DEF Start, Stale
<1>4. wipe => oSaved' = {} /\ tSaved' = {}
  <2>1. \A s \in oSaved \cup tSaved : ~(s <= None)
    BY Typed DEF None
  <2> QED
    BY <2>1, <1>2
<1>5. ~wipe => UNCHANGED <<ockpts, tckpts>>
  BY DEF Start
<1>6. OrchRecord' /\ TrainerRecord'
  BY <1>2, <1>3, <1>4, <1>5, Typed DEF PointInv, OrchRecord, TrainerRecord
<1>7. ResumeWeights'
  <2>1. SUFFICES ASSUME from # None
                 PROVE  SavedStep(from) /\ casts'[from].state = "whole"
    BY <1>1 DEF ResumeWeights
  <2>2. from \in tSaved'
    BY <2>1, <1>2 DEF Known
  <2> QED
    BY <2>2, <1>6 DEF TrainerRecord
<1>8. Loadable'
  BY <1>0, <1>1, <1>2, <1>6 DEF Loadable, OrchRecord, Known
<1> QED
  BY <1>1, <1>6, <1>7, <1>8 DEF PointInv, UpTogether, Progress, TrainerUp

\* The orchestrator takes a step out of its record before it writes it.
LEMMA OrchestratorPoint ==
    ASSUME PointInv, Orchestrator, TypeInv', ResumeMode = "given"
    PROVE  PointInv'
<1>1. UNCHANGED <<trainer, resume, tSaved, tckpts, casts>> /\ opc # "off"
  BY DEF Orchestrator, OrchLoad, BatchReady, FinalSave, OrchOpens, OrchSaved,
     Ship, Update, launch, disk, AfterSave
<1>2. TrainerRecord' /\ ResumeWeights' /\ Progress'
  BY <1>1 DEF PointInv, TrainerRecord, ResumeWeights, Progress, TrainerUp,
     Ahead, Writing, StartStep, trainer
<1>3. opc' \notin {"off", "load", "noload"}
  <2>1. CASE OrchLoad
    BY <2>1 DEF OrchLoad, OrchResume, PointInv, Loadable, ResumeWeights, UpTogether
  <2>2. CASE ~OrchLoad
    BY <2>2 DEF Orchestrator, BatchReady, FinalSave, OrchOpens, OrchSaved, Ship,
       Update, AfterSave
  <2> QED
    BY <2>1, <2>2
<1>4. UpTogether' /\ Loadable'
  BY <1>1, <1>3 DEF PointInv, UpTogether, Loadable, trainer
<1>5. OrchRecord'
  <2>1. CASE BatchReady \/ FinalSave \/ OrchSaved
    BY <2>1, Typed DEF BatchReady, FinalSave, OrchOpens, OrchSaved, PointInv,
       OrchRecord, Whole, launch, disk
  <2>2. CASE OrchLoad \/ Ship \/ Update
    BY <2>2 DEF OrchLoad, Ship, Update, PointInv, OrchRecord, launch, disk
  <2> QED
    BY <2>1, <2>2 DEF Orchestrator
<1> QED
  BY <1>2, <1>4, <1>5 DEF PointInv

LEMMA MaxWithZero ==
    ASSUME NEW a \in Int
    PROVE  Max({a, 0}) = IF a > 0 THEN a ELSE 0
BY DEF Max

\* A trainer that loads finds its checkpoint and starts at its step.
LEMMA TrainerLoadPoint ==
    ASSUME PointInv, TrainerLoad, TypeInv', ResumeMode = "given"
    PROVE  PointInv'
<1>1. UNCHANGED <<launch, orch, disk>> /\ tpc = "load" /\ first' = TRUE
  BY DEF TrainerLoad
<1>2. tpc' = "top" /\ tstep' = StartStep
  BY DEF TrainerLoad, TrainerResume, PointInv, Loadable, TrainerRecord, StartStep
<1>3. \A s \in tSaved : s <= tstep'
  <2>1. \A s \in tSaved : s \in Nat /\ s <= resume
    BY <1>1, Typed DEF PointInv, Loadable
  <2> QED
    BY <1>2, <2>1 DEF StartStep, None
<1>4. Progress'
  BY <1>1, <1>2, <1>3 DEF Progress, Ahead, Writing, StartStep, launch
<1> QED
  BY <1>1, <1>2, <1>4 DEF PointInv, UpTogether, OrchRecord, TrainerRecord,
     ResumeWeights, Loadable, launch, orch, disk

\* A broadcast is written at a step past every checkpoint, and the clean-up
\* deletes none that a checkpoint or the life began with.
LEMMA BroadcastPoint ==
    ASSUME PointInv, BroadcastBegins \/ BroadcastEnds, TypeInv'
    PROVE  PointInv'
<1>1. /\ UNCHANGED <<launch, orch, tstep, first, received, kept, model, ockpts,
                     tckpts, batches>>
      /\ tpc \in {"top", "cast"} /\ tpc' \in {"cast", "ckpt"} /\ TrainerUp
      /\ tpc' = "cast" => ~first
      /\ tpc = "cast" => ~first
  BY DEF BroadcastBegins, BroadcastEnds, TrainerUp, PointInv, Progress
<1>2. ~first => tstep \notin tSaved /\ tstep # resume /\ tstep > 0
  <2>1. ~first => tstep \notin tSaved /\ StartStep < tstep
    BY <1>1 DEF PointInv, Progress, Ahead
  <2> QED
    BY <2>1, Typed DEF StartStep, None
<1>3. \A s \in Step : SavedStep(s) /\ s # tstep => casts'[s] = casts[s]
  <2>1. CASE BroadcastBegins
    BY <2>1, Typed DEF BroadcastBegins
  <2>2. CASE BroadcastEnds
    <3> DEFINE old == Max({tstep - 2, 0})
    <3>1. ~Outlives(old) => ~SavedStep(old)
      <4>1. old = IF tstep - 2 > 0 THEN tstep - 2 ELSE 0
        BY MaxWithZero, Typed
      <4>2. old < MaxSteps
        BY <4>1, Typed
      <4> HIDE DEF old
      <4> QED
        BY <4>1, <4>2 DEF Outlives, SavedStep, OnInterval
    <3> HIDE DEF old
    <3>2. casts' = IF Outlives(old) THEN [casts EXCEPT ![tstep] = Whole(model)]
                   ELSE [casts EXCEPT ![tstep] = Whole(model), ![old] = Missing]
      BY <2>2 DEF BroadcastEnds, old
    <3> QED
      BY <3>1, <3>2, Typed
  <2> QED
    BY <2>1, <2>2
<1>4. TrainerRecord' /\ ResumeWeights'
  <2>1. first => casts' = casts
    BY <1>1 DEF BroadcastBegins, BroadcastEnds
  <2> QED
    BY <1>1, <1>2, <1>3, <2>1, Typed DEF PointInv, TrainerRecord, ResumeWeights,
       UpTogether, launch, orch, None
<1>5. tpc' = "ckpt" /\ ~first => casts'[tstep].state = "whole"
  <2>1. SUFFICES ASSUME tpc' = "ckpt", ~first, BroadcastEnds
                 PROVE  casts'[tstep].state = "whole"
    BY DEF BroadcastBegins
  <2> DEFINE old == Max({tstep - 2, 0})
  <2>2. old # tstep
    BY <1>2, <2>1, MaxWithZero, Typed
  <2> HIDE DEF old
  <2>3. casts' = IF Outlives(old) THEN [casts EXCEPT ![tstep] = Whole(model)]
                 ELSE [casts EXCEPT ![tstep] = Whole(model), ![old] = Missing]
    BY <2>1 DEF BroadcastEnds, old
  <2> QED
    BY <2>2, <2>3, Typed DEF Whole
<1>6. Progress'
  BY <1>1, <1>2, <1>5 DEF PointInv, Progress, Ahead, Writing, StartStep, launch
<1> QED
  BY <1>1, <1>4, <1>6 DEF PointInv, UpTogether, OrchRecord, Loadable, launch, orch,
     TrainerUp

\* A checkpoint is taken out of the record before it is written again.
LEMMA CheckpointPoint ==
    ASSUME PointInv, Checkpoint, TypeInv'
    PROVE  PointInv'
<1>1. /\ UNCHANGED <<life, resume, oSaved, orch, tstep, first, ockpts, casts>>
      /\ tpc = "ckpt" /\ tpc' \in {"saving", "closing", "wait"} /\ TrainerUp
      /\ tSaved' \subseteq tSaved
  BY DEF Checkpoint, TrainerOpens, TrainerUp, launch, disk
<1>2. \/ /\ Writing' /\ tstep \notin tSaved' /\ SavedStep(tstep)
         /\ tckpts' = [tckpts EXCEPT ![tstep] = Partial]
         /\ first => tstep = MaxSteps
         /\ tpc' = "saving" => ~first
      \/ tpc' = "wait" /\ tckpts' = tckpts
  BY DEF Checkpoint, TrainerOpens, Writing, SavedStep, disk
<1>3. TrainerRecord'
  BY <1>1, <1>2, Typed DEF PointInv, TrainerRecord
<1>4. Writing' => casts[tstep].state = "whole"
  <2>1. ~first => casts[tstep].state = "whole"
    BY <1>1 DEF PointInv, Progress
  <2>2. first /\ Writing' => resume = tstep /\ resume # None
    BY <1>1, <1>2, Typed DEF PointInv, Progress, StartStep, Writing, None
  <2> QED
    BY <1>1, <2>1, <2>2 DEF PointInv, ResumeWeights
<1>5. Progress'
  BY <1>1, <1>2, <1>4 DEF PointInv, Progress, Ahead, Writing, StartStep, TrainerUp
<1> QED
  BY <1>1, <1>3, <1>5 DEF PointInv, UpTogether, OrchRecord, ResumeWeights, Loadable,
     orch

\* The save that ends adds its step; clean-up takes what it deletes out.
LEMMA TrainerSavedPoint ==
    ASSUME PointInv, TrainerSaved, TypeInv'
    PROVE  PointInv'
<1>1. /\ UNCHANGED <<life, resume, oSaved, orch, tstep, first, ockpts, casts>>
      /\ Writing /\ tpc' \in {"wait", "done"} /\ TrainerUp
  BY DEF TrainerSaved, TrainerUp, Writing
<1> DEFINE all == kept \cup {tstep}
           gone == all \ Newest(all)
<1>2. /\ tckpts' = [s \in Step |-> IF s \in gone THEN Missing
                                    ELSE IF s = tstep THEN Whole(model)
                                    ELSE tckpts[s]]
      /\ tSaved' = (tSaved \cup {tstep}) \ gone
  BY DEF TrainerSaved
<1> HIDE DEF gone
<1>3. SavedStep(tstep) /\ casts[tstep].state = "whole" /\ tstep \notin tSaved
  BY <1>1 DEF PointInv, Progress, Ahead
<1>4. TrainerRecord'
  BY <1>1, <1>2, <1>3, Typed DEF PointInv, TrainerRecord, Whole
<1>5. Progress'
  BY <1>1, <1>2, Typed DEF PointInv, Progress, Ahead, Writing, StartStep, TrainerUp
<1> QED
  BY <1>1, <1>4, <1>5 DEF PointInv, UpTogether, OrchRecord, ResumeWeights, Loadable,
     TrainerUp, orch

LEMMA TrainPoint ==
    ASSUME PointInv, Train, TypeInv'
    PROVE  PointInv'
<1>1. /\ UNCHANGED <<launch, orch, disk>> /\ tpc = "wait" /\ tpc' = "top"
      /\ first' = FALSE /\ tstep' = tstep + 1 /\ TrainerUp
  BY DEF Train, TrainerUp
<1>2. StartStep < tstep'
  BY <1>1, Typed DEF PointInv, Progress, StartStep, None
<1>3. \A s \in tSaved : s <= tstep' /\ s # tstep'
  BY <1>1, Typed DEF PointInv, Progress
<1>4. Progress'
  BY <1>1, <1>2, <1>3 DEF Progress, Ahead, Writing, StartStep, launch
<1> QED
  BY <1>1, <1>4 DEF PointInv, UpTogether, OrchRecord, TrainerRecord, ResumeWeights,
     Loadable, launch, orch, disk

LEMMA NextPoint ==
    ASSUME PointInv, [Next]_vars, ResumeMode = "given"
    PROVE  PointInv'
<1>1. TypeInv'
  BY NextTypes DEF PointInv
<1>2. CASE LaunchFresh
  BY <1>1, <1>2, LaunchPoint DEF LaunchFresh
<1>3. CASE LaunchResumed
  BY <1>1, <1>3, LaunchPoint DEF LaunchResumed
<1>4. CASE Kill \/ TerminateAll
  <2>1. Gone
    BY <1>4 DEF Kill, TerminateAll
  <2> QED
    BY <1>1, <2>1 DEF Gone, PointInv, UpTogether, OrchRecord, TrainerRecord,
       ResumeWeights, Loadable, Progress, TrainerUp, launch, disk
<1>5. CASE Orchestrator
  BY <1>1, <1>5, OrchestratorPoint
<1>6. CASE Discover
  BY <1>1, <1>6 DEF Discover, PointInv, UpTogether, OrchRecord, TrainerRecord,
     ResumeWeights, Loadable, Progress, TrainerUp, Ahead, Writing, StartStep,
     launch, orch, disk
<1>7. CASE Trainer /\ ~Discover
  BY <1>1, <1>7, TrainerLoadPoint, BroadcastPoint, CheckpointPoint,
     TrainerSavedPoint, TrainPoint DEF Trainer
<1>8. CASE UNCHANGED vars
  BY <1>1, <1>8 DEF vars, launch, orch, trainer, disk, PointInv, UpTogether,
     OrchRecord, TrainerRecord, ResumeWeights, Loadable, Progress, TrainerUp,
     Ahead, Writing, StartStep
<1> QED
  BY <1>2, <1>3, <1>4, <1>5, <1>6, <1>7, <1>8 DEF Next, Launcher

\* A run resumed from a step that both sides saved always loads it: the
\* orchestrator's progress, the trainer's shards and the broadcast of that
\* step are on the disk whole, whatever was killed where (trainer/ckpt.py,
\* orchestrator/ckpt.py, rl/broadcast/filesystem.py maybe_clean).
THEOREM ResumedRunsLoad ==
    ASSUME ResumeMode = "given"
    PROVE  Spec => []ResumeLoads
<1>1. Init => PointInv
  BY InitPoint
<1>2. PointInv /\ [Next]_vars => PointInv'
  BY NextPoint
<1>3. PointInv => ResumeLoads
  BY DEF PointInv, Loadable, ResumeLoads
<1> QED
  BY <1>1, <1>2, <1>3, PTL DEF Spec
-----------------------------------------------------------------------------
(* Whose batches the trainer learns from. *)

\* Past the resume step, only this life's batches lie in the directory, and
\* only they have been learnt from.
FreshBatches ==
    tpc # "off" => \A s \in Step : s > resume => batches[s] \in {0, life}

FreshLearnt ==
    TrainerUp => \A i \in 1..tstep : i - 1 > resume => model[i].life = life

FreshInv == PointInv /\ FreshBatches /\ FreshLearnt

LEMMA NextFresh ==
    ASSUME FreshInv, [Next]_vars, ResumeMode = "given"
    PROVE  FreshInv'
<1>1. PointInv'
  BY NextPoint DEF FreshInv
<1>2. batches \in [Step -> Nat] /\ resume \in Step \cup {None} /\ tstep \in Step
  BY DEF FreshInv, PointInv, TypeInv, Lined, NumbersOK
<1>3. CASE LaunchFresh \/ LaunchResumed
  <2>1. PICK from \in Step \cup {None}, wipe \in BOOLEAN : Start(from, wipe)
    BY <1>3, Typed DEF LaunchFresh, LaunchResumed, Known, FreshInv
  <2>2. tpc' = "load" /\ resume' = from
        /\ \A s \in Step : s > from => batches'[s] = 0
    BY <2>1 DEF Start, Stale
  <2> QED
    BY <1>1, <2>2 DEF FreshInv, FreshBatches, FreshLearnt, TrainerUp
<1>4. CASE Kill \/ TerminateAll
  BY <1>1, <1>4 DEF Kill, TerminateAll, Gone, FreshInv, FreshBatches, FreshLearnt,
     TrainerUp
<1>5. CASE Ship
  BY <1>1, <1>2, <1>5 DEF Ship, FreshInv, FreshBatches, FreshLearnt, TrainerUp,
     launch, trainer
<1>6. CASE Orchestrator /\ ~Ship
  BY <1>1, <1>6 DEF Orchestrator, OrchLoad, BatchReady, FinalSave, OrchOpens,
     OrchSaved, Update, FreshInv, FreshBatches, FreshLearnt, TrainerUp, launch,
     trainer, disk
<1>7. CASE TrainerLoad
  <2>1. TrainerUp' => tstep' = StartStep /\ resume' = resume
    BY <1>7 DEF TrainerLoad, TrainerResume, TrainerUp, StartStep, launch
  <2>2. FreshLearnt'
    BY <1>2, <2>1 DEF FreshLearnt, StartStep, None
  <2> QED
    BY <1>1, <1>7, <2>2 DEF TrainerLoad, FreshInv, FreshBatches, launch, disk
<1>8. CASE Train
  <2>1. TrainerUp /\ received = tstep /\ LinesUp(model, tstep)
    BY <1>8 DEF Train, TrainerUp, FreshInv, PointInv, TypeInv, Lined, WaitsForOwn,
       ModelLinesUp, None
  <2>2. /\ \A i \in 1..tstep : model'[i] = model[i]
        /\ model'[tstep + 1].life = batches[tstep]
    BY <1>2, <1>8, <2>1 DEF Train, LinesUp
  <2>3. tstep > resume => batches[tstep] = life
    BY <1>2, <1>8, <2>1 DEF Train, FreshInv, FreshBatches
  <2>4. FreshLearnt'
    <3>1. SUFFICES ASSUME NEW i \in 1..tstep + 1, i - 1 > resume
                   PROVE  model'[i].life = life
      BY <1>8 DEF Train, FreshLearnt, launch
    <3>2. CASE i = tstep + 1
      BY <1>2, <2>2, <2>3, <3>1, <3>2
    <3>3. CASE i # tstep + 1
      <4>1. i \in 1..tstep
        BY <1>2, <3>3
      <4> QED
        BY <2>1, <2>2, <3>1, <4>1 DEF FreshInv, FreshLearnt
    <3> QED
      BY <3>2, <3>3
  <2> QED
    BY <1>1, <1>8, <2>4 DEF Train, FreshInv, FreshBatches, launch, disk
<1>9. CASE Trainer /\ ~TrainerLoad /\ ~Train
  <2>1. TrainerUp /\ UNCHANGED <<life, resume, tstep, model, batches>>
    BY <1>9 DEF Trainer, BroadcastBegins, BroadcastEnds, Checkpoint, TrainerOpens,
       TrainerSaved, Discover, TrainerUp, launch, disk
  <2>2. tpc # "off"
    BY <2>1 DEF TrainerUp
  <2> QED
    BY <1>1, <2>1, <2>2 DEF FreshInv, FreshBatches, FreshLearnt
<1>10. CASE UNCHANGED vars
  BY <1>1, <1>10 DEF vars, launch, trainer, disk, FreshInv, FreshBatches,
     FreshLearnt, TrainerUp
<1> QED
  BY <1>3, <1>4, <1>5, <1>6, <1>7, <1>8, <1>9, <1>10 DEF Next, Launcher

\* A resumed trainer learns from batches the orchestrator of its own life
\* shipped, but for the batch of the resume step itself: a launch deletes the
\* rollouts of the steps past it (utils/pathing.py clean_future_steps).
THEOREM ResumedRunsLearnFresh ==
    ASSUME ResumeMode = "given"
    PROVE  Spec => []OnlyResumeStepLeft
<1>1. Init => FreshInv
  BY InitPoint DEF Init, FreshInv, FreshBatches, FreshLearnt, TrainerUp
<1>2. FreshInv /\ [Next]_vars => FreshInv'
  BY NextFresh
<1>3. FreshInv => OnlyResumeStepLeft
  BY DEF FreshInv, FreshLearnt, OnlyResumeStepLeft
<1> QED
  BY <1>1, <1>2, <1>3, PTL DEF Spec
-----------------------------------------------------------------------------
(* One lineage: every model in memory or on disk begins the same way. *)

\* p is what m was after n batches.
Prefix(p, m, n) ==
    /\ p \in Seq(Batch) /\ Len(p) = n /\ n <= Len(m)
    /\ \A i \in 1..n : p[i] = m[i]

\* The broadcasts and checkpoints up to a saved step are states of the model
\* saved there.
DiskLineage ==
    \A from \in tSaved : \A s \in 0..from :
        /\ casts[s].state = "whole" => Prefix(casts[s].model, tckpts[from].model, s)
        /\ s \in tSaved => Prefix(tckpts[s].model, tckpts[from].model, s)

\* A trainer that runs has broadcast and saved states of its own model.
TrainerLineage ==
    TrainerUp =>
        /\ \A s \in Step : casts[s].state = "whole" =>
              s <= tstep /\ Prefix(casts[s].model, model, s)
        /\ \A s \in tSaved : Prefix(tckpts[s].model, model, s)

\* The engines serve a state of the model, also before the trainer has
\* loaded it.
EngineLineage ==
    OrchUp =>
        /\ TrainerUp => version <= tstep /\ Prefix(policy, model, version)
        /\ tpc = "load" =>
            /\ version = StartStep
            /\ IF resume = None THEN policy = NoModel
               ELSE Prefix(policy, tckpts[resume].model, resume)

\* A launch leaves no broadcast past the step it resumes from.
CleanStart ==
    tpc = "load" => \A s \in Step : casts[s].state = "whole" => s <= resume

LineInv ==
    PointInv /\ DiskLineage /\ TrainerLineage /\ EngineLineage /\ CleanStart

LEMMA PrefixOfBoth ==
    ASSUME NEW p, NEW q, NEW m, NEW a \in Nat, NEW b \in Nat, a <= b,
           Prefix(p, m, a), Prefix(q, m, b)
    PROVE  Prefix(p, q, a)
BY DEF Prefix

LEMMA PrefixGrows ==
    ASSUME NEW p, NEW n \in Nat, NEW m \in Seq(Batch), NEW e \in Batch,
           Prefix(p, m, n)
    PROVE  Prefix(p, Append(m, e), n)
<1>1. Len(Append(m, e)) = Len(m) + 1 /\ Len(m) \in Nat
      /\ \A i \in 1..Len(m) : Append(m, e)[i] = m[i]
  OBVIOUS
<1> QED
  BY <1>1 DEF Prefix

LEMMA PrefixOfItself ==
    ASSUME NEW m \in Seq(Batch)
    PROVE  Prefix(m, m, Len(m))
BY DEF Prefix

LEMMA PrefixIsSubSeq ==
    ASSUME NEW p, NEW n \in Nat, NEW m \in Seq(Batch), Prefix(p, m, n)
    PROVE  p = SubSeq(m, 1, n)
<1> DEFINE q == SubSeq(m, 1, n)
<1>1. n <= Len(m) /\ p \in Seq(Batch) /\ Len(p) = n
      /\ \A i \in 1..n : p[i] = m[i]
  BY DEF Prefix
<1>2. q \in Seq(Batch) /\ Len(q) = n /\ \A i \in 1..n : q[i] = m[i]
  BY <1>1, SubSeqProperties
<1> HIDE DEF q
<1>3. \A i \in 1..n : p[i] = q[i]
  BY <1>1, <1>2
<1> QED
  BY <1>1, <1>2, <1>3

LEMMA LineTyped ==
    ASSUME PointInv
    PROVE  /\ model \in Seq(Batch) /\ version \in Nat /\ policy \in Seq(Batch)
           /\ TrainerUp => Len(model) = tstep
BY DEF PointInv, TypeInv, TypeOK, TrainerOK, OrchOK, Lined, ModelLinesUp, LinesUp

\* While the trainer runs, the disk's lineage follows from its own.
LEMMA DiskFromTrainer ==
    ASSUME PointInv, TrainerLineage, TrainerUp
    PROVE  DiskLineage
<1>1. SUFFICES ASSUME NEW from \in tSaved, NEW s \in 0..from
               PROVE  /\ casts[s].state = "whole" =>
                           Prefix(casts[s].model, tckpts[from].model, s)
                      /\ s \in tSaved =>
                           Prefix(tckpts[s].model, tckpts[from].model, s)
  BY DEF DiskLineage
<1>2. from \in Step /\ s \in Step /\ from \in Nat /\ s \in Nat /\ s <= from
  BY Typed
<1>3. Prefix(tckpts[from].model, model, from)
  BY DEF TrainerLineage
<1>4. casts[s].state = "whole" => Prefix(casts[s].model, model, s)
  BY <1>2 DEF TrainerLineage
<1>5. s \in tSaved => Prefix(tckpts[s].model, model, s)
  BY DEF TrainerLineage
<1> QED
  BY <1>2, <1>3, <1>4, <1>5, PrefixOfBoth

LEMMA LaunchLine ==
    ASSUME LineInv, PointInv', NEW from \in Step \cup {None}, NEW wipe,
           wipe => from = None, Start(from, wipe)
    PROVE  LineInv'
<1>1. /\ opc' = "load" /\ tpc' = "load" /\ resume' = from
      /\ ~wipe => UNCHANGED tckpts
  BY DEF Start
<1>2. tSaved' \subseteq tSaved /\ \A s \in tSaved' : s <= from
  BY DEF Start
<1>3. \A s \in Step : casts'[s].state = "whole" => s <= from /\ casts'[s] = casts[s]
  BY DEF Start, Stale, Missing, None
<1>4. wipe => tSaved' = {}
  <2>1. \A s \in tSaved : ~(s <= None)
    BY Typed DEF LineInv, None
  <2> QED
    BY <1>2, <2>1
<1>5. DiskLineage'
  <2>1. SUFFICES ASSUME NEW f \in tSaved', NEW s \in 0..f
                 PROVE  /\ casts'[s].state = "whole" =>
                             Prefix(casts'[s].model, tckpts'[f].model, s)
                        /\ s \in tSaved' =>
                             Prefix(tckpts'[s].model, tckpts'[f].model, s)
    BY DEF DiskLineage
  <2>2. f \in tSaved /\ s \in Step /\ tckpts' = tckpts
    BY <1>1, <1>2, <1>4, <2>1, Typed DEF LineInv
  <2> QED
    BY <1>2, <1>3, <2>2 DEF LineInv, DiskLineage
<1> QED
  BY <1>1, <1>3, <1>5 DEF LineInv, TrainerLineage, EngineLineage, CleanStart,
     TrainerUp, OrchUp

\* The orchestrator installs the broadcast of its resume step, then newer ones.
LEMMA OrchLoadLine ==
    ASSUME LineInv, PointInv', OrchLoad, ResumeMode = "given"
    PROVE  LineInv'
<1>1. UNCHANGED <<launch, trainer, disk>> /\ opc = "load" /\ OrchResume = resume
      /\ resume \in Step \cup {None} /\ (TrainerUp \/ tpc = "load")
  <2>1. tpc # "noload" /\ tpc # "off"
    BY DEF OrchLoad, LineInv, PointInv, Loadable, UpTogether
  <2> QED
    BY <2>1, Typed DEF OrchLoad, OrchResume, LineInv, TrainerUp
<1>2. CASE resume = None
  <2>1. version' = 0 /\ policy' = NoModel
    BY <1>1, <1>2 DEF OrchLoad
  <2>2. TrainerUp => 0 <= tstep /\ Prefix(NoModel, model, 0)
    BY LineTyped, Typed DEF LineInv, Prefix, NoModel
  <2> QED
    BY <1>1, <1>2, <2>1, <2>2 DEF LineInv, DiskLineage, TrainerLineage,
       EngineLineage, CleanStart, TrainerUp, StartStep, launch, trainer, disk
<1>3. CASE resume # None
  <2>1. casts[resume].state = "whole" /\ resume \in Step
    BY <1>1, <1>3 DEF LineInv, PointInv, ResumeWeights, TrainerUp
  <2>2. version' = resume /\ policy' = casts[resume].model
    BY <1>1, <1>3, <2>1 DEF OrchLoad, LineInv, PointInv, Loadable
  <2>3. TrainerUp => resume <= tstep /\ Prefix(casts[resume].model, model, resume)
    BY <2>1 DEF LineInv, TrainerLineage
  <2>4. tpc = "load" => Prefix(casts[resume].model, tckpts[resume].model, resume)
    BY <1>3, <2>1 DEF LineInv, PointInv, Loadable, DiskLineage
  <2> QED
    BY <1>1, <1>3, <2>2, <2>3, <2>4 DEF LineInv, DiskLineage, TrainerLineage,
       EngineLineage, CleanStart, TrainerUp, StartStep, launch, trainer, disk
<1> QED
  BY <1>2, <1>3

LEMMA UpdateLine ==
    ASSUME LineInv, PointInv', Update
    PROVE  LineInv'
<1>1. UNCHANGED <<launch, opc, trainer, disk>> /\ OrchUp
  BY DEF Update, OrchUp
<1>2. PICK s \in Step : /\ s > version /\ casts[s].state = "whole"
                       /\ version' = s /\ policy' = casts[s].model
  BY DEF Update
<1>3. TrainerUp => s <= tstep /\ Prefix(casts[s].model, model, s)
  BY <1>2 DEF LineInv, TrainerLineage
<1>4. tpc # "load"
  BY <1>1, <1>2, Typed DEF LineInv, CleanStart, EngineLineage, StartStep, None
<1> QED
  BY <1>1, <1>2, <1>3, <1>4 DEF LineInv, DiskLineage, TrainerLineage,
     EngineLineage, CleanStart, TrainerUp, launch, trainer, disk

LEMMA TrainerLoadLine ==
    ASSUME LineInv, PointInv', TrainerLoad, ResumeMode = "given"
    PROVE  LineInv'
<1>1. UNCHANGED <<launch, orch, disk>> /\ tpc = "load" /\ TrainerResume = resume
      /\ resume \in Step \cup {None}
  BY Typed DEF TrainerLoad, TrainerResume, LineInv
<1>2. /\ tpc' = "top" /\ tstep' = StartStep
      /\ model' = IF resume = None THEN NoModel ELSE tckpts[resume].model
  BY <1>1 DEF TrainerLoad, LineInv, PointInv, Loadable, TrainerRecord, StartStep
<1>3. CASE resume = None
  <2>1. tSaved = {} /\ \A s \in Step : casts[s].state # "whole"
    <3>1. \A s \in Step : ~(s <= None)
      BY DEF None
    <3> QED
      BY <1>1, <1>3, <3>1, Typed DEF LineInv, CleanStart, PointInv, Loadable
  <2>2. TrainerLineage'
    BY <1>1, <2>1 DEF TrainerLineage, launch, disk
  <2>3. EngineLineage'
    <3>1. Prefix(NoModel, NoModel, 0)
      BY DEF Prefix, NoModel
    <3> QED
      BY <1>1, <1>2, <1>3, <3>1 DEF LineInv, EngineLineage, OrchUp, StartStep, orch
  <2> QED
    BY <1>1, <1>2, <2>2, <2>3 DEF LineInv, DiskLineage, CleanStart, launch, disk
<1>4. CASE resume # None
  <2>1. resume \in tSaved /\ resume \in Step
        /\ \A s \in tSaved : s \in Step /\ s \in 0..resume
    BY <1>1, <1>4, Typed DEF LineInv, PointInv, Loadable
  <2>2. \A s \in Step : casts[s].state = "whole" => s \in 0..resume
    BY <1>1 DEF LineInv, CleanStart
  <2>3. TrainerLineage'
    <3>1. \A s \in Step : casts[s].state = "whole" =>
             s <= resume /\ Prefix(casts[s].model, tckpts[resume].model, s)
      BY <2>1, <2>2 DEF LineInv, DiskLineage
    <3>2. \A s \in tSaved : Prefix(tckpts[s].model, tckpts[resume].model, s)
      BY <2>1 DEF LineInv, DiskLineage
    <3> QED
      BY <1>1, <1>2, <1>4, <3>1, <3>2 DEF TrainerLineage, StartStep, launch, disk
  <2>4. EngineLineage'
    BY <1>1, <1>2, <1>4, <2>1 DEF LineInv, EngineLineage, OrchUp, StartStep, orch
  <2> QED
    BY <1>1, <1>2, <2>3, <2>4 DEF LineInv, DiskLineage, CleanStart, launch, disk
<1> QED
  BY <1>3, <1>4

\* A step of a running trainer that keeps its model: whatever becomes whole is
\* that model at its step.
LEMMA TrainerKeepsLine ==
    ASSUME LineInv, PointInv', TrainerUp, TrainerUp',
           UNCHANGED <<resume, orch, model, tstep>>,
           \A s \in Step : casts'[s].state = "whole" =>
              casts'[s] = casts[s] \/ (s = tstep /\ casts'[s].model = model),
           \A s \in tSaved' :
              \/ s \in tSaved /\ tckpts'[s] = tckpts[s]
              \/ s = tstep /\ tckpts'[s].model = model
    PROVE  LineInv'
<1>1. Prefix(model, model, tstep) /\ tstep \in Step
  BY LineTyped, Typed, PrefixOfItself DEF LineInv
<1>2. TrainerLineage'
  BY <1>1 DEF LineInv, TrainerLineage
<1>3. DiskLineage'
  BY <1>2, DiskFromTrainer, PTL
<1>4. EngineLineage' /\ CleanStart'
  BY DEF LineInv, EngineLineage, CleanStart, OrchUp, TrainerUp, orch
<1> QED
  BY <1>2, <1>3, <1>4 DEF LineInv

LEMMA TrainLine ==
    ASSUME LineInv, PointInv', Train
    PROVE  LineInv'
<1>1. UNCHANGED <<launch, orch, disk>> /\ TrainerUp /\ TrainerUp' /\ tstep' = tstep + 1
      /\ tpc' = "top"
  BY DEF Train, TrainerUp
<1>2. PICK e \in Batch : model' = Append(model, e)
  <2>1. batches[received] \in 1..MaxLives
    BY DEF Train, LineInv, PointInv, TypeInv, TypeOK, DiskOK
  <2> QED
    BY <2>1 DEF Train, Batch
<1>3. \A p : \A n \in Nat : Prefix(p, model, n) => Prefix(p, model', n)
  BY <1>2, LineTyped, PrefixGrows DEF LineInv
<1>4. TrainerLineage'
  BY <1>1, <1>3, Typed DEF LineInv, TrainerLineage, launch, disk
<1>5. EngineLineage'
  BY <1>1, <1>3, Typed, LineTyped DEF LineInv, EngineLineage, OrchUp, orch
<1> QED
  BY <1>1, <1>4, <1>5 DEF LineInv, DiskLineage, CleanStart, launch, disk

LEMMA TrainerLine ==
    ASSUME LineInv, PointInv', Trainer, ResumeMode = "given"
    PROVE  LineInv'
<1>1. CASE TrainerLoad
  BY <1>1, TrainerLoadLine
<1>2. CASE Train
  BY <1>2, TrainLine
<1>3. CASE BroadcastBegins
  BY <1>3, Typed, TrainerKeepsLine DEF BroadcastBegins, LineInv, TrainerUp, launch,
     Partial
<1>4. CASE BroadcastEnds
  <2>1. \A s \in Step : casts'[s].state = "whole" =>
           casts'[s] = casts[s] \/ (s = tstep /\ casts'[s].model = model)
    <3> DEFINE old == Max({tstep - 2, 0})
    <3>1. casts' = IF Outlives(old) THEN [casts EXCEPT ![tstep] = Whole(model)]
                   ELSE [casts EXCEPT ![tstep] = Whole(model), ![old] = Missing]
      BY <1>4 DEF BroadcastEnds
    <3> HIDE DEF old
    <3> QED
      BY <3>1, Typed DEF LineInv, Whole, Missing
  <2> QED
    BY <1>4, <2>1, TrainerKeepsLine DEF BroadcastEnds, TrainerUp, launch
<1>5. CASE Checkpoint
  BY <1>5, Typed, TrainerKeepsLine DEF Checkpoint, TrainerOpens, LineInv, TrainerUp,
     launch, disk
<1>6. CASE TrainerSaved
  <2> DEFINE all == kept \cup {tstep}
             gone == all \ Newest(all)
  <2>1. /\ tckpts' = [s \in Step |-> IF s \in gone THEN Missing
                                      ELSE IF s = tstep THEN Whole(model)
                                      ELSE tckpts[s]]
        /\ tSaved' = (tSaved \cup {tstep}) \ gone
    BY <1>6 DEF TrainerSaved
  <2> HIDE DEF gone
  <2>2. \A s \in tSaved' : \/ s \in tSaved /\ tckpts'[s] = tckpts[s]
                           \/ s = tstep /\ tckpts'[s].model = model
    BY <2>1, Typed DEF LineInv, Whole
  <2> QED
    BY <1>6, <2>2, TrainerKeepsLine DEF TrainerSaved, TrainerUp
<1>7. CASE Discover
  BY <1>7, TrainerKeepsLine DEF Discover, TrainerUp, launch, disk
<1> QED
  BY <1>1, <1>2, <1>3, <1>4, <1>5, <1>6, <1>7 DEF Trainer

LEMMA NextLine ==
    ASSUME LineInv, [Next]_vars, ResumeMode = "given"
    PROVE  LineInv'
<1>1. PointInv'
  BY NextPoint DEF LineInv
<1>2. CASE LaunchFresh \/ LaunchResumed
  <2>1. PICK from \in Step \cup {None}, wipe \in BOOLEAN :
           (wipe => from = None) /\ Start(from, wipe)
    BY <1>2, Typed DEF LaunchFresh, LaunchResumed, Known, LineInv
  <2> QED
    BY <1>1, <2>1, LaunchLine
<1>3. CASE Kill \/ TerminateAll
  BY <1>1, <1>3 DEF Kill, TerminateAll, Gone, LineInv, DiskLineage, TrainerLineage,
     EngineLineage, CleanStart, TrainerUp, OrchUp, launch, disk
<1>4. CASE OrchLoad
  BY <1>1, <1>4, OrchLoadLine
<1>5. CASE Update
  BY <1>1, <1>5, UpdateLine
<1>6. CASE BatchReady \/ FinalSave \/ OrchSaved \/ Ship
  BY <1>1, <1>6 DEF BatchReady, FinalSave, OrchOpens, OrchSaved, Ship, LineInv,
     DiskLineage, TrainerLineage, EngineLineage, CleanStart, TrainerUp, OrchUp,
     StartStep, launch, trainer, disk, AfterSave
<1>7. CASE Trainer
  BY <1>1, <1>7, TrainerLine
<1>8. CASE UNCHANGED vars
  BY <1>1, <1>8 DEF vars, launch, orch, trainer, disk, LineInv, DiskLineage,
     TrainerLineage, EngineLineage, CleanStart, TrainerUp, OrchUp, StartStep
<1> QED
  BY <1>2, <1>3, <1>4, <1>5, <1>6, <1>7, <1>8 DEF Next, Launcher, Orchestrator

\* The engines serve an earlier state of the very model the trainer trains,
\* and their version counts its batches, whatever both were resumed from
\* (orchestrator.py setup, ckpt.py get_weight_dir, utils/pathing.py
\* clean_future_steps).
THEOREM EnginesServeLineage ==
    ASSUME ResumeMode = "given"
    PROVE  Spec => []PolicyOnLineage
<1>1. Init => LineInv
  BY InitPoint DEF Init, LineInv, DiskLineage, TrainerLineage, EngineLineage,
     CleanStart, TrainerUp, OrchUp
<1>2. LineInv /\ [Next]_vars => LineInv'
  BY NextLine
<1>3. LineInv => PolicyOnLineage
  <2>1. SUFFICES ASSUME LineInv, OrchUp, TrainerUp
                 PROVE  /\ Len(policy) = version /\ version <= tstep
                        /\ policy = SubSeq(model, 1, version)
    BY DEF PolicyOnLineage
  <2>2. version <= tstep /\ Prefix(policy, model, version)
    BY <2>1 DEF LineInv, EngineLineage
  <2> QED
    BY <2>1, <2>2, LineTyped, PrefixIsSubSeq DEF LineInv, Prefix
<1> QED
  BY <1>1, <1>2, <1>3, PTL DEF Spec
-----------------------------------------------------------------------------
(* A step to resume from is kept until there are keep_last newer ones. *)

\* Every checkpoint directory up to a step that is saved, or that the trainer
\* has passed, is a saved checkpoint: no remains of a killed save displace one.
DirsSaved ==
    /\ \A d \in Dirs(tckpts) : SavedStep(d)
    /\ \A s \in tSaved : \A d \in Dirs(tckpts) : d <= s => d \in tSaved
    /\ TrainerUp => \A d \in Dirs(tckpts) :
          d < tstep \/ (d = tstep /\ ~Ahead) => d \in tSaved
    /\ tpc = "load" /\ resume = None => Dirs(tckpts) = {}
    /\ TrainerUp => kept \subseteq tSaved \cup (IF Writing THEN {tstep} ELSE {})

KeepInv == PointInv /\ DirsSaved

Less == {p \in Nat \X Nat : p[1] < p[2]}

\* A set of steps has a last one.
LEMMA LastStep ==
    ASSUME NEW S \in SUBSET Step, S # {}
    PROVE  \E m \in S : \A t \in S : t <= m
<1> DEFINE T == {n \in Nat : MaxSteps - n \in S}
<1>1. IsWellFoundedOn(Less, Nat)
  BY NatLessThanWellFounded, Zenon DEF OpToRel, Less
<1>2. T \subseteq Nat /\ T # {}
  <2>1. PICK t \in S : TRUE
    OBVIOUS
  <2>2. MaxSteps - t \in Nat /\ MaxSteps - (MaxSteps - t) = t
    BY <2>1
  <2> QED
    BY <2>1, <2>2
<1>3. PICK x \in T : \A y \in T : <<y, x>> \notin Less
  <2> HIDE DEF T
  <2> QED
    BY <1>1, <1>2, WFMin
<1>4. \A y \in T : x <= y
  <2> HIDE DEF T
  <2> TAKE y \in T
  <2>1. x \in Nat /\ y \in Nat /\ <<y, x>> \notin Less
    BY <1>2, <1>3
  <2>2. <<y, x>> \in Nat \X Nat /\ <<y, x>>[1] = y /\ <<y, x>>[2] = x
    BY <2>1
  <2>3. ~(y < x)
    BY <2>1, <2>2 DEF Less
  <2> QED
    BY <2>1, <2>3
<1>5. \A t \in S : t <= MaxSteps - x
  <2> TAKE t \in S
  <2>1. MaxSteps - t \in Nat /\ MaxSteps - (MaxSteps - t) = t
    OBVIOUS
  <2>2. x <= MaxSteps - t
    BY <1>4, <2>1
  <2> QED
    BY <2>2
<1> QED
  BY <1>3, <1>5

\* A step that keep_last deletes has keep_last newer ones among those that
\* stay.
LEMMA NewestStay ==
    ASSUME NEW S \in SUBSET Step, NEW s \in S \ Newest(S)
    PROVE  Cardinality({t \in Newest(S) : t > s}) >= KeepLast
<1> DEFINE newer(x) == {t \in S : t > x}
           lost == newer(s) \ Newest(S)
           stay == {t \in Newest(S) : t > s}
<1>1. IsFiniteSet(S)
  <2>1. IsFiniteSet(0..MaxSteps)
    BY FS_Interval
  <2> QED
    BY <2>1, FS_Subset
<1>2. \A x \in S : IsFiniteSet(newer(x)) /\ Cardinality(newer(x)) \in Nat
  <2> TAKE x \in S
  <2>1. newer(x) \in SUBSET S
    OBVIOUS
  <2> QED
    BY <1>1, <2>1, FS_Subset, FS_CardinalityType
<1>3. \A x \in S \ Newest(S) : Cardinality(newer(x)) >= KeepLast
  BY <1>2 DEF Newest
<1>4. IsFiniteSet(stay) /\ Cardinality(stay) \in Nat
  <2>1. stay \in SUBSET S
    BY DEF Newest
  <2> QED
    BY <1>1, <2>1, FS_Subset, FS_CardinalityType
<1>5. PICK x \in S \ Newest(S) : newer(x) \subseteq stay
  <2>1. CASE lost = {}
    <3>1. newer(s) \subseteq stay
      BY <2>1
    <3> QED
      BY <3>1
  <2>2. CASE lost # {}
    <3>1. lost \in SUBSET Step
      OBVIOUS
    <3>2. PICK m \in lost : \A t \in lost : t <= m
      <4> HIDE DEF lost
      <4> QED
        BY <2>2, <3>1, LastStep
    <3>3. m \in S \ Newest(S) /\ m > s /\ m \in Step /\ s \in Step
      BY <3>2
    <3>4. ASSUME NEW t \in newer(m)
          PROVE  t \in stay
      <4>1. t \in S /\ t \in Step /\ t > m /\ t > s
        BY <3>3, <3>4
      <4>2. t \notin lost
        BY <3>2, <3>3, <4>1
      <4> QED
        BY <4>1, <4>2
    <3> QED
      BY <3>3, <3>4
  <2> QED
    BY <2>1, <2>2
<1>6. Cardinality(newer(x)) <= Cardinality(stay)
  BY <1>4, <1>5, FS_Subset
<1>7. Cardinality(newer(x)) >= KeepLast /\ Cardinality(newer(x)) \in Nat
  BY <1>2, <1>3, <1>5
<1> HIDE DEF newer, stay
<1>8. Cardinality(stay) >= KeepLast
  BY <1>4, <1>6, <1>7
<1> QED
  BY <1>8 DEF stay

LEMMA KeepTyped ==
    ASSUME PointInv
    PROVE  life \in Nat /\ kept \subseteq Step
BY DEF PointInv, TypeInv, TypeOK, LaunchOK, TrainerOK

\* A launch from scratch finds no checkpoint of the trainer, or wipes it.
LEMMA LaunchKeep ==
    ASSUME KeepInv, PointInv', NEW from \in Step \cup {None}, NEW wipe,
           from = None => wipe \/ Dirs(tckpts) = {},
           wipe => from = None, Start(from, wipe)
    PROVE  KeepInv'
<1>1. tpc' = "load" /\ resume' = from
  BY DEF Start
<1>2. tSaved' = {s \in tSaved : s <= from}
  BY DEF Start
<1>3. CASE from = None
  <2>1. Dirs(tckpts') = {}
    BY <1>3 DEF Start, Dirs, Missing
  <2> QED
    BY <1>1, <2>1 DEF KeepInv, DirsSaved, TrainerUp
<1>4. CASE from # None
  <2>1. tckpts' = tckpts
    BY <1>4 DEF Start
  <2>2. \A s \in tSaved' : \A d \in Dirs(tckpts) : d <= s => d \in tSaved'
    <3> TAKE s \in tSaved'
    <3> TAKE d \in Dirs(tckpts)
    <3>1. s \in tSaved /\ s <= from /\ s \in Step /\ d \in Step
      BY <1>2, Typed DEF KeepInv, Dirs
    <3> QED
      BY <1>2, <3>1 DEF KeepInv, DirsSaved
  <2> QED
    BY <1>1, <1>4, <2>1, <2>2 DEF KeepInv, DirsSaved, TrainerUp
<1> QED
  BY <1>3, <1>4

LEMMA TrainerLoadKeep ==
    ASSUME KeepInv, PointInv', TrainerLoad, ResumeMode = "given"
    PROVE  KeepInv'
<1>1. UNCHANGED <<launch, disk>> /\ tpc = "load" /\ TrainerResume = resume
      /\ resume \in Step \cup {None} /\ first' = TRUE /\ tpc' # "load"
  BY Typed DEF TrainerLoad, TrainerResume, KeepInv
<1>2. tpc' = "top" /\ tstep' = StartStep
  BY <1>1 DEF TrainerLoad, KeepInv, PointInv, Loadable, TrainerRecord, StartStep
<1>3. \A d \in Dirs(tckpts) : d <= resume => d \in tSaved
  <2>1. resume = None => Dirs(tckpts) = {}
    BY <1>1 DEF KeepInv, DirsSaved
  <2>2. resume # None => resume \in tSaved
    BY <1>1 DEF KeepInv, PointInv, Loadable
  <2> QED
    BY <2>1, <2>2 DEF KeepInv, DirsSaved
<1>4. \A d \in Dirs(tckpts) : d <= tstep' => d \in tSaved
  BY <1>1, <1>2, <1>3 DEF StartStep, KeepInv, DirsSaved
<1>5. kept' \subseteq tSaved
  BY <1>1, <1>3 DEF TrainerLoad, Inherited
<1>6. \A d \in Dirs(tckpts) : d < tstep' \/ d = tstep' => d \in tSaved
  <2>1. \A d \in Dirs(tckpts) : d \in Step
    BY DEF Dirs
  <2>2. tstep' \in Step
    BY <1>1, <1>2 DEF StartStep
  <2> QED
    BY <1>4, <2>1, <2>2
<1>7. UNCHANGED <<resume, tSaved, tckpts>> /\ ~Writing'
  BY <1>1, <1>2 DEF launch, disk, Writing
<1>8. (TrainerUp => \A d \in Dirs(tckpts) :
          d < tstep \/ (d = tstep /\ ~Ahead) => d \in tSaved)'
  BY <1>6, <1>7
<1> QED
  BY <1>1, <1>5, <1>7, <1>8 DEF KeepInv, DirsSaved

LEMMA CheckpointKeep ==
    ASSUME KeepInv, PointInv', Checkpoint
    PROVE  KeepInv'
<1>1. /\ UNCHANGED <<resume, tstep, first, kept>>
      /\ tpc = "ckpt" /\ tpc' \in {"saving", "closing", "wait"} /\ TrainerUp /\ TrainerUp'
      /\ tstep \in Step
  BY Typed DEF Checkpoint, TrainerOpens, TrainerUp, launch, KeepInv
<1>2. CASE (tstep < MaxSteps /\ OnInterval(tstep) /\ TrainerOpens("saving"))
           \/ (tstep = MaxSteps /\ TrainerOpens("closing"))
  <2>1. SavedStep(tstep) /\ Ahead' /\ Writing'
    BY <1>2 DEF SavedStep, TrainerOpens, Ahead, Writing
  <2>2. tSaved' = tSaved \ {tstep} /\ tckpts' = [tckpts EXCEPT ![tstep] = Partial]
    BY <1>2 DEF TrainerOpens
  <2>3. Dirs(tckpts') = Dirs(tckpts) \cup {tstep}
    BY <1>1, <2>2, Typed DEF Dirs, Partial, KeepInv
  <2>4. \A s \in tSaved : s \in Step /\ s <= tstep
    BY <1>1, Typed DEF KeepInv, PointInv, Progress
  <2>5. \A d \in Dirs(tckpts) : d \in Step
    BY DEF Dirs
  <2>6. \A s \in tSaved' : \A d \in Dirs(tckpts') : d <= s => d \in tSaved'
    BY <1>1, <2>2, <2>3, <2>4, <2>5 DEF KeepInv, DirsSaved
  <2>7. \A d \in Dirs(tckpts') : d < tstep => d \in tSaved'
    BY <1>1, <2>2, <2>3, <2>5 DEF KeepInv, DirsSaved
  <2>8. kept \subseteq tSaved' \cup {tstep}
    BY <1>1, <2>2 DEF KeepInv, DirsSaved, Writing
  <2> QED
    BY <1>1, <2>1, <2>3, <2>6, <2>7, <2>8 DEF KeepInv, DirsSaved
<1>3. CASE /\ tstep < MaxSteps /\ (first \/ ~OnInterval(tstep)) /\ tpc' = "wait"
           /\ UNCHANGED <<tSaved, tckpts>>
  <2>1. ~first => tstep \notin Dirs(tckpts)
    BY <1>1, <1>3 DEF KeepInv, DirsSaved, SavedStep
  <2>2. (first => ~Ahead) /\ ~Writing /\ ~Writing'
    BY <1>1, <1>3 DEF Ahead, Writing
  <2> QED
    BY <1>1, <1>3, <2>1, <2>2 DEF KeepInv, DirsSaved
<1> QED
  BY <1>2, <1>3 DEF Checkpoint, launch, disk

LEMMA TrainerSavedKeep ==
    ASSUME KeepInv, PointInv', TrainerSaved
    PROVE  KeepInv'
<1> DEFINE all == kept \cup {tstep}
           gone == all \ Newest(all)
<1>1. /\ UNCHANGED <<resume, tstep, first>> /\ kept' = Newest(all)
      /\ tpc \in {"saving", "closing"} /\ tpc' \in {"wait", "done"}
      /\ TrainerUp /\ TrainerUp' /\ tstep \in Step
      /\ Writing /\ ~Writing'
  BY Typed DEF TrainerSaved, TrainerUp, KeepInv, Writing
<1>2. /\ tckpts' = [s \in Step |-> IF s \in gone THEN Missing
                                    ELSE IF s = tstep THEN Whole(model)
                                    ELSE tckpts[s]]
      /\ tSaved' = (tSaved \cup {tstep}) \ gone
  BY DEF TrainerSaved
<1>3. Newest(all) \subseteq tSaved'
  BY <1>1, <1>2 DEF KeepInv, DirsSaved, Newest
<1> HIDE DEF gone
<1>4. Dirs(tckpts') \subseteq (Dirs(tckpts) \cup {tstep}) \ gone
  BY <1>2, Typed DEF Dirs, Missing, KeepInv
<1>5. \A d \in Dirs(tckpts') : d <= tstep => d \in tSaved'
  <2> TAKE d \in Dirs(tckpts')
  <2>1. d \in Step /\ d \notin gone /\ (d # tstep => d \in Dirs(tckpts))
    BY <1>4 DEF Dirs
  <2> QED
    BY <1>1, <1>2, <2>1 DEF KeepInv, DirsSaved
<1>6. SavedStep(tstep)
  BY <1>1 DEF KeepInv, PointInv, Progress
<1>7. \A d \in Dirs(tckpts') : SavedStep(d)
  BY <1>4, <1>6 DEF KeepInv, DirsSaved
<1>8. \A s \in tSaved' : s \in Step /\ s <= tstep
  BY <1>1, <1>2, Typed DEF KeepInv, PointInv, Progress
<1>9. \A d \in Dirs(tckpts') : d \in Step
  BY DEF Dirs
<1>10. \A s \in tSaved' : \A d \in Dirs(tckpts') : d <= s => d \in tSaved'
  BY <1>1, <1>5, <1>8, <1>9
<1> HIDE DEF all
<1> QED
  BY <1>1, <1>3, <1>5, <1>7, <1>9, <1>10 DEF KeepInv, DirsSaved

LEMMA TrainerKeep ==
    ASSUME KeepInv, PointInv', Trainer, ResumeMode = "given"
    PROVE  KeepInv'
<1>1. CASE TrainerLoad
  BY <1>1, TrainerLoadKeep
<1>2. CASE Checkpoint
  BY <1>2, CheckpointKeep
<1>3. CASE TrainerSaved
  BY <1>3, TrainerSavedKeep
<1>4. CASE BroadcastBegins \/ BroadcastEnds \/ Discover
  <2>1. /\ UNCHANGED <<resume, tSaved, tstep, kept, tckpts>>
        /\ TrainerUp /\ TrainerUp' /\ (Ahead <=> Ahead') /\ ~Writing /\ ~Writing'
    BY <1>4 DEF BroadcastBegins, BroadcastEnds, Discover, TrainerUp, Ahead, Writing,
       launch, disk, KeepInv, PointInv, Progress
  <2>2. tpc' # "load"
    BY <2>1 DEF TrainerUp
  <2> QED
    BY <2>1, <2>2 DEF KeepInv, DirsSaved
<1>5. CASE Train
  <2>1. /\ UNCHANGED <<resume, tSaved, kept, tckpts>> /\ tstep' = tstep + 1
        /\ TrainerUp /\ TrainerUp' /\ ~Ahead /\ Ahead' /\ tpc' = "top"
    BY <1>5 DEF Train, TrainerUp, Ahead, Writing, launch, disk
  <2>2. \A d \in Dirs(tckpts) : d <= tstep => d \in tSaved
    <3>1. \A d \in Dirs(tckpts) : d \in Step
      BY DEF Dirs
    <3> QED
      BY <2>1, <3>1, Typed DEF KeepInv, DirsSaved
  <2>3. \A d \in Dirs(tckpts) : d < tstep + 1 => d \in tSaved
    <3>1. \A d \in Dirs(tckpts) : d \in Step
      BY DEF Dirs
    <3> QED
      BY <2>2, <3>1, Typed DEF KeepInv
  <2>4. kept \subseteq tSaved
    <3>1. ~Writing
      BY <1>5 DEF Train, Writing
    <3> QED
      BY <2>1, <3>1 DEF KeepInv, DirsSaved
  <2>5. ~Writing'
    BY <2>1 DEF Writing
  <2> QED
    BY <2>1, <2>3, <2>4, <2>5 DEF KeepInv, DirsSaved
<1> QED
  BY <1>1, <1>2, <1>3, <1>4, <1>5 DEF Trainer

LEMMA NextKeep ==
    ASSUME KeepInv, [Next]_vars, ResumeMode = "given"
    PROVE  KeepInv'
<1>1. PointInv'
  BY NextPoint DEF KeepInv
<1>2. CASE LaunchFresh
  <2>1. Known = {}
    BY <1>2 DEF LaunchFresh
  <2>2. PICK wipe \in BOOLEAN : (wipe \/ Dirs(tckpts) = {}) /\ Start(None, wipe)
    BY <1>2 DEF LaunchFresh
  <2> QED
    BY <1>1, <2>2, LaunchKeep
<1>3. CASE LaunchResumed
  <2>1. PICK from \in Step : Start(from, FALSE)
    BY <1>3, Typed DEF LaunchResumed, Known, KeepInv
  <2>2. from # None
    BY <2>1 DEF None
  <2> QED
    BY <1>1, <2>1, <2>2, LaunchKeep
<1>4. CASE Kill \/ TerminateAll
  <2>1. tpc' = "off" /\ UNCHANGED <<tSaved, tckpts>>
    BY <1>4 DEF Kill, TerminateAll, Gone, launch, disk
  <2> QED
    BY <1>1, <2>1 DEF KeepInv, DirsSaved, TrainerUp
<1>5. CASE Orchestrator
  <2>1. UNCHANGED <<resume, tSaved, trainer, tckpts>>
    BY <1>5 DEF Orchestrator, OrchLoad, BatchReady, FinalSave, OrchOpens,
       OrchSaved, Ship, Update, launch, disk
  <2> QED
    BY <1>1, <2>1 DEF KeepInv, DirsSaved, TrainerUp, Ahead, Writing, trainer
<1>6. CASE Trainer
  BY <1>1, <1>6, TrainerKeep
<1>7. CASE UNCHANGED vars
  BY <1>1, <1>7 DEF vars, launch, trainer, disk, KeepInv, DirsSaved, TrainerUp,
     Ahead, Writing
<1> QED
  BY <1>2, <1>3, <1>4, <1>5, <1>6, <1>7 DEF Next, Launcher

\* What may become of a step s to resume from.
PointKept(s) ==
    \/ s \in Known'
    \/ Cardinality({t \in tSaved' : t > s}) >= KeepLast
    \/ OrchestratorRewrites(s) \/ TrainerRewrites(s)
    \/ life # life' /\ resume' < s

\* The checkpoints clean-up deletes have keep_last newer ones, all saved.
LEMMA CleanUpKeeps ==
    ASSUME KeepInv, TrainerSaved, NEW s \in Known
    PROVE  PointKept(s)
<1> DEFINE all == kept \cup {tstep}
<1>1. /\ tSaved' = (tSaved \cup {tstep}) \ (all \ Newest(all))
      /\ oSaved' = oSaved
  BY DEF TrainerSaved
<1>2. all \subseteq tSaved \cup {tstep} /\ all \in SUBSET Step
  BY Typed, KeepTyped DEF TrainerSaved, KeepInv, DirsSaved, TrainerUp
<1>3. Newest(all) \subseteq tSaved' /\ tSaved' \subseteq Step
  BY <1>1, <1>2, Typed DEF Newest, KeepInv
<1>4. CASE s \in all \ Newest(all)
  <2> HIDE DEF all
  <2>1. Cardinality({t \in Newest(all) : t > s}) >= KeepLast
    BY <1>2, <1>4, NewestStay
  <2>2. IsFiniteSet({t \in tSaved' : t > s})
    <3>1. IsFiniteSet(0..MaxSteps)
      BY FS_Interval
    <3>2. {t \in tSaved' : t > s} \in SUBSET (0..MaxSteps)
      BY <1>3
    <3> QED
      BY <3>1, <3>2, FS_Subset
  <2>3. {t \in Newest(all) : t > s} \subseteq {t \in tSaved' : t > s}
    BY <1>3
  <2>4. /\ Cardinality({t \in Newest(all) : t > s}) <= Cardinality({t \in tSaved' : t > s})
        /\ Cardinality({t \in Newest(all) : t > s}) \in Nat
        /\ Cardinality({t \in tSaved' : t > s}) \in Nat
    BY <2>2, <2>3, FS_Subset, FS_CardinalityType
  <2>5. Cardinality({t \in tSaved' : t > s}) >= KeepLast
    BY <2>1, <2>4
  <2> QED
    BY <2>5 DEF PointKept
<1>5. CASE s \notin all \ Newest(all)
  BY <1>1, <1>5 DEF Known, PointKept
<1> QED
  BY <1>4, <1>5

LEMMA StepKeeps ==
    ASSUME KeepInv, Next, ResumeMode = "given", NEW s \in Known
    PROVE  PointKept(s)
<1>1. CASE LaunchFresh \/ LaunchResumed
  <2>1. PICK from \in Step \cup {None}, wipe \in BOOLEAN : Start(from, wipe)
    BY <1>1, Typed DEF LaunchFresh, LaunchResumed, Known, KeepInv
  <2>2. life' # life /\ resume' = from
    BY <2>1, KeepTyped DEF Start, KeepInv
  <2>3. s \in Step /\ (s <= from => s \in Known')
    BY <2>1, Typed DEF Start, Known, KeepInv
  <2>4. s <= from \/ from < s
    BY <2>1, <2>3 DEF None
  <2> QED
    BY <2>2, <2>3, <2>4 DEF PointKept
<1>2. CASE OrchSaved
  BY <1>2 DEF OrchSaved, Known, PointKept
<1>3. CASE BatchReady \/ FinalSave
  <2>1. \/ /\ opc' \in {"saving", "closing", "failing"} /\ oSaved' = oSaved \ {ostep}
           /\ tSaved' = tSaved
        \/ UNCHANGED <<oSaved, tSaved>>
    BY <1>3 DEF BatchReady, FinalSave, OrchOpens, launch
  <2> QED
    BY <2>1 DEF Known, PointKept, OrchestratorRewrites
<1>4. CASE Checkpoint
  <2>1. \/ /\ tpc' \in {"saving", "closing"} /\ tSaved' = tSaved \ {tstep}
           /\ oSaved' = oSaved
        \/ UNCHANGED <<oSaved, tSaved>>
    BY <1>4 DEF Checkpoint, TrainerOpens, launch
  <2> QED
    BY <2>1 DEF Known, PointKept, TrainerRewrites
<1>5. CASE TrainerSaved
  BY <1>5, CleanUpKeeps
<1>6. CASE UNCHANGED <<oSaved, tSaved>>
  BY <1>6 DEF Known, PointKept
<1>7. CASE \/ Kill \/ TerminateAll \/ OrchLoad \/ Ship \/ Update \/ TrainerLoad
           \/ BroadcastBegins \/ BroadcastEnds \/ Discover \/ Train
  BY <1>6, <1>7 DEF Kill, TerminateAll, Gone, OrchLoad, Ship, Update, TrainerLoad,
     BroadcastBegins, BroadcastEnds, Discover, Train, launch
<1> QED
  BY <1>1, <1>2, <1>3, <1>4, <1>5, <1>7 DEF Next, Launcher, Orchestrator, Trainer

\* A step both sides saved stays one to resume from until the trainer has
\* keep_last newer checkpoints, one side writes that step again, or the run is
\* resumed from an earlier step: no clean-up and no kill takes it away
\* (trainer/ckpt.py maybe_clean, orchestrator/ckpt.py save).
THEOREM ResumePointsKept ==
    ASSUME ResumeMode = "given"
    PROVE  Spec => ResumePointKept
<1>1. Init => KeepInv
  <2>1. Init => PointInv
    BY InitPoint
  <2>2. Init => DirsSaved
    BY DEF Init, DirsSaved, Dirs, Missing, TrainerUp
  <2> QED
    BY <2>1, <2>2 DEF KeepInv
<1>2. KeepInv /\ [Next]_vars => KeepInv'
  BY NextKeep
<1>3. KeepInv /\ [Next]_vars => [\A s \in Known : PointKept(s)]_vars
  BY StepKeeps
<1> QED
  BY <1>1, <1>2, <1>3, PTL DEF Spec, ResumePointKept, PointKept
=============================================================================
