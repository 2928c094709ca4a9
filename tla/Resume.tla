------------------------------- MODULE Resume -------------------------------
(***************************************************************************)
(* Crashes and resumption of one run with weights and batches on disk: the *)
(* launcher (entrypoints/rl.py, utils/pathing.py), the checkpoints of the  *)
(* orchestrator (orchestrator/ckpt.py, maybe_save_ckpt and the resume part *)
(* of setup) and of the trainer (trainer/ckpt.py, trainer/rl/train.py),    *)
(* the batch receiver's first step (trainer/runs.py) and the broadcast     *)
(* directories both meet at.                                               *)
(*                                                                         *)
(* The two processes checkpoint on their own, each when it comes to an     *)
(* interval step, and may be killed at any point; the launcher then starts *)
(* both again.  A life is what happens between a launch and a kill.  A     *)
(* model is the sequence of the batches it was trained on, a batch is its  *)
(* step and the life that made it.  How far the orchestrator may run ahead *)
(* of its policy is a bound here: module AsyncBarrier establishes it.      *)
(***************************************************************************)
EXTENDS Integers, Sequences, FiniteSets, FiniteSetsExt

CONSTANTS
    MaxSteps,       \* max_steps of both sides
    Interval,       \* ckpt.interval
    KeepLast,       \* trainer ckpt.keep_last
    Lead,           \* the orchestrator's largest lead over its policy
    ResumeMode,     \* "given": resume_step N; "latest": resume_step -1
    MaxLives        \* bound: launches

ASSUME ResumeAssumption ==
    /\ MaxSteps \in Nat \ {0} /\ Interval \in Nat \ {0} /\ Lead \in Nat \ {0}
    /\ KeepLast \in Nat \ {0}
    /\ ResumeMode \in {"given", "latest"} /\ MaxLives \in Nat \ {0}

Step == 0..MaxSteps
None == -1
NoModel == <<>>

\* The launch, and what its operator knows.
VARIABLES
    life,           \* launches so far
    resume,         \* ckpt.resume_step in effect for the launcher, or None
    oSaved,         \* steps the logs of this lineage say the orchestrator
    tSaved          \* saved, and the trainer saved and kept

\* The orchestrator.
VARIABLES
    opc, ostep,     \* progress.step
    version,        \* policy.version
    policy          \* history: the model the engines serve

\* The trainer.
VARIABLES
    tpc, tstep,     \* progress.step
    first,          \* is_first_step
    received,       \* _received_steps[0], None before the run is discovered
    kept,           \* ckpt_manager.ckpt_steps
    model           \* history: the model being trained

\* The disk.
VARIABLES
    ockpts,         \* run_default/checkpoints/step_N/orchestrator
    tckpts,         \* checkpoints/step_N/trainer
    casts,          \* run_default/broadcasts/step_N
    batches         \* run_default/rollouts/step_N: the life that shipped it

launch == <<life, resume, oSaved, tSaved>>
orch == <<opc, ostep, version, policy>>
trainer == <<tpc, tstep, first, received, kept, model>>
disk == <<ockpts, tckpts, casts, batches>>
vars == <<launch, orch, trainer, disk>>

Missing == [state |-> "none", model |-> NoModel]
Partial == [state |-> "part", model |-> NoModel]
Whole(m) == [state |-> "whole", model |-> m]

Dirs(files) == {s \in Step : files[s].state # "none"}

\* resolve_latest_ckpt_step: the newest directory, whole or not.
Latest(files) == IF Dirs(files) = {} THEN None ELSE Max(Dirs(files))

\* The steps an operator who follows the logs would resume from.
Known == oSaved \cap tSaved

Init ==
    /\ life = 0 /\ resume = None /\ oSaved = {} /\ tSaved = {}
    /\ opc = "off" /\ ostep = 0 /\ version = 0 /\ policy = NoModel
    /\ tpc = "off" /\ tstep = 0 /\ first = TRUE /\ received = None
    /\ kept = {} /\ model = NoModel
    /\ ockpts = [s \in Step |-> Missing] /\ tckpts = ockpts /\ casts = ockpts
    /\ batches = [s \in Step |-> 0]

-----------------------------------------------------------------------------
(* The launcher. *)

\* Mutant of Stale: one step more is kept.
StaleLate(s, from) == s > from + 1

\* clean_future_steps: what is past the resume step is deleted.
Stale(s, from) == s > from

\* rl: with a step to resume from, or from scratch, stale rollouts and
\* broadcasts are deleted and both processes start.  The checkpoints are not
\* touched; without a step to resume from, validate_output_dir refuses a
\* directory with trainer checkpoints until it is wiped.
Start(from, wipe) ==
    /\ life' = life + 1 /\ resume' = from
    /\ oSaved' = {s \in oSaved : s <= from}
    /\ tSaved' = {s \in tSaved : s <= from}
    /\ opc' = "load" /\ tpc' = "load"
    /\ casts' = [s \in Step |-> IF Stale(s, from) THEN Missing ELSE casts[s]]
    /\ batches' = [s \in Step |-> IF Stale(s, from) THEN 0 ELSE batches[s]]
    /\ IF wipe THEN /\ ockpts' = [s \in Step |-> Missing]
                    /\ tckpts' = [s \in Step |-> Missing]
               ELSE UNCHANGED <<ockpts, tckpts>>
    /\ UNCHANGED <<ostep, version, policy, tstep, first, received, kept, model>>

Down == opc = "off" /\ life < MaxLives

\* The run is launched anew: nothing to resume from.
LaunchFresh ==
    /\ Down
    /\ IF ResumeMode = "given" THEN Known = {} ELSE Dirs(tckpts) = {}
    /\ Start(None, Dirs(tckpts) # {})

\* The run is launched again with ckpt.resume_step, the same for both.
LaunchResumed ==
    /\ Down
    /\ \E from \in IF ResumeMode = "given" THEN Known
                   ELSE {Latest(tckpts)} \ {None} : Start(from, FALSE)

\* Both processes are gone, and what they had in memory with them.
Gone ==
    /\ opc' = "off" /\ ostep' = 0 /\ version' = 0 /\ policy' = NoModel
    /\ tpc' = "off" /\ tstep' = 0 /\ first' = TRUE /\ received' = None
    /\ kept' = {} /\ model' = NoModel
    /\ UNCHANGED <<launch, disk>>

\* The machine goes down, the job ends, the trainer dies: both go, wherever
\* they are.
Kill ==
    /\ opc # "off" /\ life < MaxLives /\ ~(opc = "done" /\ tpc = "done")
    /\ Gone

\* The launcher finds that a process has failed and terminates both.
TerminateAll ==
    /\ opc \in {"failed", "noload"} \/ tpc = "noload"
    /\ Gone

-----------------------------------------------------------------------------
(* The orchestrator. *)

\* The step the orchestrator resumes from.
OrchResume == IF ResumeMode = "given" \/ resume = None THEN resume
              ELSE Latest(ockpts)

\* setup: progress comes from the orchestrator's checkpoint, the weights from
\* the broadcast of that step (get_weight_dir); either missing is fatal.
OrchLoad ==
    /\ opc = "load"
    /\ \/ /\ OrchResume = None
          /\ opc' = "run" /\ ostep' = 0 /\ version' = 0 /\ policy' = NoModel
       \/ /\ OrchResume # None
          /\ ockpts[OrchResume].state = "whole"
          /\ casts[OrchResume].state = "whole"
          /\ opc' = "run" /\ ostep' = OrchResume /\ version' = OrchResume
          /\ policy' = casts[OrchResume].model
       \/ /\ OrchResume # None
          /\ \/ ockpts[OrchResume].state # "whole"
             \/ casts[OrchResume].state # "whole"
          /\ opc' = "noload" /\ UNCHANGED <<ostep, version, policy>>
    /\ UNCHANGED <<launch, trainer, disk>>

\* CheckpointManager.save opens the file for writing: a checkpoint of that
\* step there already is gone until the write ends.
OrchOpens(pc) ==
    /\ opc' = pc
    /\ ockpts' = [ockpts EXCEPT ![ostep] = Partial]
    /\ oSaved' = oSaved \ {ostep}
    /\ UNCHANGED <<life, resume, tSaved, ostep, version, policy, trainer,
                   tckpts, casts, batches>>

\* finalize_train_batch ships up to max_steps.
MoreSteps == ostep < MaxSteps

OnInterval(s) == s > 0 /\ s % Interval = 0

\* A batch is ready: finalize_train_batch, then maybe_save_ckpt if due.
BatchReady ==
    /\ opc = "run" /\ MoreSteps /\ ostep + 1 - version <= Lead
    /\ \/ OnInterval(ostep) /\ OrchOpens("saving")
       \/ /\ ~OnInterval(ostep)
          /\ opc' = "ship"
          /\ UNCHANGED <<launch, ostep, version, policy, trainer, disk>>

\* The final checkpoint of start(): after a clean exit at max_steps, or on
\* the way out with an exception, which a kill is not.
FinalSave ==
    \/ opc = "run" /\ ~MoreSteps /\ OrchOpens("closing")
    \/ opc \in {"run", "ship"} /\ life < MaxLives /\ OrchOpens("failing")

AfterSave == [saving |-> "ship", closing |-> "done", failing |-> "failed"]

\* A save ends.
OrchSaved ==
    /\ opc \in DOMAIN AfterSave
    /\ opc' = AfterSave[opc]
    /\ ockpts' = [ockpts EXCEPT ![ostep] = Whole(NoModel)]
    /\ oSaved' = oSaved \cup {ostep}
    /\ UNCHANGED <<life, resume, tSaved, ostep, version, policy, trainer,
                   tckpts, casts, batches>>

\* The batch is shipped and the step advances.
Ship ==
    /\ opc = "ship"
    /\ batches' = [batches EXCEPT ![ostep] = life]
    /\ ostep' = ostep + 1 /\ opc' = "run"
    /\ UNCHANGED <<launch, version, policy, trainer, ockpts, tckpts, casts>>

\* The watcher installs the newest STABLE broadcast.
Update ==
    /\ opc \in {"run", "saving", "ship"}
    /\ \E s \in Step :
        /\ s > version /\ casts[s].state = "whole"
        /\ \A t \in Step : t > s => casts[t].state # "whole"
        /\ version' = s /\ policy' = casts[s].model
    /\ UNCHANGED <<launch, opc, ostep, trainer, disk>>

-----------------------------------------------------------------------------
(* The trainer. *)

TrainerResume == IF ResumeMode = "given" THEN resume ELSE Latest(tckpts)

\* The checkpoints the manager takes charge of: none past the step it
\* resumes from.
Inherited(from) == {s \in Dirs(tckpts) : s <= from}

TrainerLoad ==
    /\ tpc = "load"
    /\ first' = TRUE /\ received' = None /\ kept' = Inherited(TrainerResume)
    /\ \/ /\ TrainerResume = None
          /\ tpc' = "top" /\ tstep' = 0 /\ model' = NoModel
       \/ /\ TrainerResume # None /\ tckpts[TrainerResume].state = "whole"
          /\ tpc' = "top" /\ tstep' = TrainerResume
          /\ model' = tckpts[TrainerResume].model
       \/ /\ TrainerResume # None /\ tckpts[TrainerResume].state # "whole"
          /\ tpc' = "noload" /\ UNCHANGED <<tstep, model>>
    /\ UNCHANGED <<launch, orch, disk>>

\* broadcast_weights: a run not trained yet in this life has nothing ready.
BroadcastBegins ==
    /\ tpc = "top"
    /\ \/ /\ ~first
          /\ tpc' = "cast" /\ casts' = [casts EXCEPT ![tstep] = Partial]
       \/ first /\ tpc' = "ckpt" /\ UNCHANGED casts
    /\ UNCHANGED <<launch, orch, tstep, first, received, kept, model, ockpts,
                   tckpts, batches>>

\* Mutant of Outlives: checkpoint steps are deleted like any other.
OutlivesNone(s) == FALSE

\* maybe_clean keeps the broadcasts of checkpoint steps.
Outlives(s) == s % Interval = 0

BroadcastEnds ==
    /\ tpc = "cast"
    /\ tpc' = "ckpt"
    /\ LET old == Max({tstep - 2, 0})
           written == [casts EXCEPT ![tstep] = Whole(model)] IN
       casts' = IF Outlives(old) THEN written
                ELSE [written EXCEPT ![old] = Missing]
    /\ UNCHANGED <<launch, orch, tstep, first, received, kept, model, ockpts,
                   tckpts, batches>>

TrainerOpens(pc) ==
    /\ tpc' = pc
    /\ tckpts' = [tckpts EXCEPT ![tstep] = Partial]
    /\ tSaved' = tSaved \ {tstep}
    /\ UNCHANGED <<life, resume, oSaved, orch, tstep, first, received, kept,
                   model, ockpts, casts, batches>>

\* The checkpoint of this step, if due, or the final one after the last.
Checkpoint ==
    /\ tpc = "ckpt"
    /\ \/ ~first /\ tstep < MaxSteps /\ OnInterval(tstep) /\ TrainerOpens("saving")
       \/ tstep = MaxSteps /\ TrainerOpens("closing")
       \/ /\ tstep < MaxSteps /\ (first \/ ~OnInterval(tstep))
          /\ tpc' = "wait"
          /\ UNCHANGED <<launch, orch, tstep, first, received, kept, model, disk>>

\* Mutant of Newest: keep_last is off by one.
NewestFewer(steps) ==
    {s \in steps : Cardinality({t \in steps : t > s}) < KeepLast - 1}

\* keep_last: the newest checkpoints stay.
Newest(steps) == {s \in steps : Cardinality({t \in steps : t > s}) < KeepLast}

\* The save ends, and maybe_clean deletes what keep_last does not keep.
TrainerSaved ==
    /\ tpc \in {"saving", "closing"}
    /\ tpc' = IF tpc = "saving" THEN "wait" ELSE "done"
    /\ LET all == kept \cup {tstep} IN
        /\ kept' = Newest(all)
        /\ tckpts' = [s \in Step |->
                        IF s \in all \ Newest(all) THEN Missing
                        ELSE IF s = tstep THEN Whole(model) ELSE tckpts[s]]
        /\ tSaved' = (tSaved \cup {tstep}) \ (all \ Newest(all))
    /\ UNCHANGED <<life, resume, oSaved, orch, tstep, first, received, model,
                   ockpts, casts, batches>>

\* Mutant of FirstBatch: the newest orchestrator checkpoint, given step or not.
FirstBatchLatest == Max({Latest(ockpts), 0})

\* Mutant of FirstBatch: off by one.
FirstBatchNext == IF resume = None THEN 0 ELSE resume + 1

\* _create_run_data: the batch a discovered run starts at.
FirstBatch ==
    IF resume = None THEN 0
    ELSE IF ResumeMode = "given" THEN resume ELSE Max({Latest(ockpts), 0})

\* The packer finds the run, whose config the orchestrator has written.
Discover ==
    /\ tpc = "wait" /\ received = None
    /\ received' = FirstBatch
    /\ UNCHANGED <<launch, orch, tpc, tstep, first, kept, model, disk>>

\* The packer receives the batch it waits for and the step is trained.
Train ==
    /\ tpc = "wait" /\ received \in Step /\ batches[received] # 0
    /\ model' = Append(model, [step |-> received, life |-> batches[received]])
    /\ tstep' = tstep + 1 /\ received' = received + 1
    /\ first' = FALSE /\ tpc' = "top"
    /\ UNCHANGED <<launch, orch, kept, disk>>

-----------------------------------------------------------------------------
Orchestrator == OrchLoad \/ BatchReady \/ FinalSave \/ OrchSaved \/ Ship \/ Update
Trainer ==
    \/ TrainerLoad \/ BroadcastBegins \/ BroadcastEnds \/ Checkpoint
    \/ TrainerSaved \/ Discover \/ Train
Launcher == LaunchFresh \/ LaunchResumed \/ TerminateAll

Next == Launcher \/ Kill \/ Orchestrator \/ Trainer

Spec == Init /\ [][Next]_vars

\* A process keeps going, is launched when it is down, and is brought down
\* when it has failed.
FairSpec ==
    /\ Spec /\ WF_vars(Launcher) /\ WF_vars(Trainer) /\ WF_vars(Update)
    /\ WF_vars(OrchLoad \/ BatchReady \/ FinalSave \/ OrchSaved \/ Ship)

-----------------------------------------------------------------------------
Batch == [step : Step, life : 1..MaxLives]
FilesOK(files) ==
    /\ DOMAIN files = Step
    /\ \A s \in Step : /\ files[s].state \in {"none", "part", "whole"}
                       /\ files[s].model \in Seq(Batch)

LaunchOK == /\ life \in 0..MaxLives /\ resume \in Step \cup {None}
            /\ oSaved \subseteq Step /\ tSaved \subseteq Step
OrchOK ==
    /\ opc \in {"off", "load", "noload", "run", "ship", "done", "failed"}
               \cup DOMAIN AfterSave
    /\ ostep \in Step /\ version \in Step /\ policy \in Seq(Batch)
TrainerOK ==
    /\ tpc \in {"off", "load", "noload", "top", "cast", "ckpt", "saving",
                "closing", "wait", "done"}
    /\ tstep \in Step /\ first \in BOOLEAN
    /\ received \in 0..MaxSteps + 1 \cup {None} /\ kept \subseteq Step
    /\ model \in Seq(Batch)
DiskOK ==
    /\ FilesOK(ockpts) /\ FilesOK(tckpts) /\ FilesOK(casts)
    /\ batches \in [Step -> 0..MaxLives]

TypeOK == LaunchOK /\ OrchOK /\ TrainerOK /\ DiskOK

OrchUp == opc \notin {"off", "load", "noload"}
TrainerUp == tpc \notin {"off", "load", "noload"}

\* Whatever was killed where, both processes find what they need of a step
\* that both saved: the orchestrator's progress, the weights of that step
\* among the broadcasts, the trainer's shards.
ResumeLoads == opc # "noload" /\ tpc # "noload"

\* Across any number of kills and resumptions, the trainer's step is the
\* number of batches its weights learnt from: batch 0, 1, 2 and so on, each
\* once, in order.
StepsLineUp ==
    TrainerUp =>
        /\ Len(model) = tstep
        /\ \A i \in 1..tstep : model[i].step = i - 1

\* The engines serve an earlier state of the very model being trained: its
\* version counts the batches of a prefix of the trainer's.
PolicyOnLineage ==
    OrchUp /\ TrainerUp =>
        /\ Len(policy) = version /\ version <= tstep
        /\ policy = SubSeq(model, 1, version)

\* After a resumption the trainer learns from batches the new orchestrator
\* shipped, except for the batch of the resume step itself, which may have
\* been left by an earlier life.
OnlyResumeStepLeft ==
    TrainerUp =>
        \A i \in 1..tstep :
            i - 1 > resume => model[i].life = life

OrchestratorRewrites(s) == ostep = s /\ opc' \in {"saving", "closing", "failing"}
TrainerRewrites(s) == tstep = s /\ tpc' \in {"saving", "closing"}

\* A step to resume from stays one until the trainer has keep_last newer
\* checkpoints, that very step is written again, or the run is resumed from
\* an earlier one.
ResumePointKept ==
    [][\A s \in Known :
        \/ s \in Known'
        \/ Cardinality({t \in tSaved' : t > s}) >= KeepLast
        \/ OrchestratorRewrites(s) \/ TrainerRewrites(s)
        \/ life # life' /\ resume' < s]_vars

\* However often the run is killed (a bounded number of times) it completes.
RunCompletes == <>(opc = "done" /\ tpc = "done")

=============================================================================
