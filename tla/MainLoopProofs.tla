---------------------------- MODULE MainLoopProofs ----------------------------
(***************************************************************************)
(* The stops of the main loop are hard, a joint stop keeps what it ends    *)
(* with, an eval batch is one epoch, and what is shipped is sound, for     *)
(* every configuration, any number of groups and any sizes.                *)
(***************************************************************************)
EXTENDS MainLoop, FiniteSetTheorems, SequenceTheorems, WellFoundedInduction, TLAPS

LEMMA Sizes ==
    /\ Configs \subseteq ConfigType /\ Size \in Nat \ {0} /\ EvalSize \in Nat \ {0}
    /\ MaxEmpty \in Nat /\ MaxEmpty > 0
BY MainLoopAssumption DEF MainLoopAssumption

USE Sizes

-----------------------------------------------------------------------------
(* Types. *)

Rollout == [g : Group, n : Int, fate : Fate, tokens : {1, 2}]

\* A sequence, of whatever.
IsSeq(q) == \E S : q \in Seq(S)

\* What a full group leaves is shorter than a group.
GroupTypes ==
    /\ config \in Configs /\ opened \subseteq Group
    /\ arrived \in [Group -> Seq(Fate)]
    /\ pendingGroups \in [Group -> Seq(Rollout)]
    /\ \A g \in Group : Len(pendingGroups[g]) < Size
    /\ IsFiniteSet(finalized)

\* One batch per step: the one of the current step may already be out.
LoopTypes ==
    /\ lpc \in {"get", "finalize", "send", "advance", "ended", "failed"}
    /\ step \in Nat /\ draining \in BOOLEAN
    /\ empties \in 0..MaxEmpty /\ (lpc # "failed" => empties < MaxEmpty)
    /\ drainStep \in {None} \cup 0..step /\ saved \subseteq 0..step
    /\ IsSeq(shipped) /\ Len(shipped) = (IF lpc = "advance" THEN step + 1 ELSE step)
    /\ trainerStep \in 0..Len(shipped) /\ stable \subseteq 0..trainerStep

\* The members of an eval group that have arrived; a full one is forgotten.
EvalTypes ==
    evalGroups \in [DOMAIN evalGroups -> 1..(EvalSize - 1)]

TypeInv == GroupTypes /\ LoopTypes /\ EvalTypes

LEMMA AppendIsSeq ==
    ASSUME NEW q, IsSeq(q), NEW e
    PROVE  /\ IsSeq(Append(q, e)) /\ Len(Append(q, e)) = Len(q) + 1 /\ Len(q) \in Nat
           /\ \A i \in 1..Len(q) : Append(q, e)[i] = q[i]
           /\ Append(q, e)[Len(q) + 1] = e
<1>1. PICK S : q \in Seq(S)
  BY DEF IsSeq
<1>2. q \in Seq(S \cup {e}) /\ e \in S \cup {e}
  BY <1>1
<1>3. Append(q, e) \in Seq(S \cup {e})
  BY <1>2
<1> QED
  BY <1>2, <1>3 DEF IsSeq

LEMMA ConfigTypes ==
    ASSUME TypeInv
    PROVE  /\ config.maxSteps \in Nat /\ config.maxGroups \in Nat
           /\ config.minSteps \in Nat /\ config.minGroups \in Nat
           /\ config.multiple \in Nat /\ config.evalInterval \in Nat
           /\ Cardinality(finalized) \in Nat
BY FS_CardinalityType DEF TypeInv, GroupTypes, ConfigType

LEMMA InitTypes == Init => TypeInv
<1> SUFFICES ASSUME Init PROVE TypeInv
  OBVIOUS
<1>1. GroupTypes
  <2>1. IsFiniteSet(finalized)
    BY FS_EmptySet DEF Init
  <2> QED
    BY <2>1 DEF Init, GroupTypes
<1>2. LoopTypes
  <2>1. IsSeq(shipped) /\ Len(shipped) = 0
    <3>1. <<>> \in Seq({}) /\ Len(<<>>) = 0
      OBVIOUS
    <3> QED
      BY <3>1 DEF Init, IsSeq
  <2>2. /\ lpc = "get" /\ step = 0 /\ draining = FALSE /\ empties = 0 /\ drainStep = None
        /\ saved = {} /\ trainerStep = 0 /\ stable = {}
    BY DEF Init
  <2>3. draining \in BOOLEAN
    BY <2>2
  <2>4. lpc \in {"get", "finalize", "send", "advance", "ended", "failed"} /\ lpc # "advance"
    BY <2>2
  <2>5. /\ step \in Nat /\ empties \in 0..MaxEmpty /\ empties < MaxEmpty
        /\ saved \subseteq 0..step /\ Len(shipped) = step
        /\ trainerStep \in 0..Len(shipped) /\ stable \subseteq 0..trainerStep
    BY <2>1, <2>2
  <2> QED
    BY <2>1, <2>2, <2>3, <2>4, <2>5 DEF LoopTypes
<1>3. EvalTypes
  BY DEF Init, EvalTypes
<1> QED
  BY <1>1, <1>2, <1>3 DEF TypeInv

\* A train rollout reaches the sink.
LEMMA AddTrainTypes ==
    ASSUME TypeInv, NEW r \in Rollout, AddTrain(r)
    PROVE  /\ arrived' \in [Group -> Seq(Fate)]
           /\ pendingGroups' \in [Group -> Seq(Rollout)]
           /\ \A g \in Group : Len(pendingGroups'[g]) < Size
           /\ IsFiniteSet(finalized')
<1> DEFINE group == Append(pendingGroups[r.g], r)
<1>1. r.g \in Group /\ r.fate \in Fate
  BY DEF Rollout
<1>2. pendingGroups[r.g] \in Seq(Rollout) /\ arrived[r.g] \in Seq(Fate)
  BY <1>1 DEF TypeInv, GroupTypes
<1>3. group \in Seq(Rollout) /\ Append(arrived[r.g], r.fate) \in Seq(Fate)
  BY <1>1, <1>2
<1>4. /\ arrived' = [arrived EXCEPT ![r.g] = Append(@, r.fate)]
      /\ pendingGroups' = [pendingGroups EXCEPT ![r.g] = IF Full(group) THEN <<>> ELSE group]
      /\ finalized' = IF Full(group) THEN finalized \cup {r.g} ELSE finalized
  BY DEF AddTrain
<1> HIDE DEF group
<1>5. arrived' \in [Group -> Seq(Fate)]
  BY <1>1, <1>3, <1>4 DEF TypeInv, GroupTypes
<1>6. pendingGroups' \in [Group -> Seq(Rollout)]
  BY <1>1, <1>3, <1>4 DEF TypeInv, GroupTypes
<1>7. ASSUME NEW g \in Group PROVE Len(pendingGroups'[g]) < Size
  <2>1. CASE g = r.g
    BY <1>1, <1>3, <1>4, <2>1 DEF Full, TypeInv, GroupTypes
  <2>2. CASE g # r.g
    BY <1>1, <1>4, <2>2 DEF TypeInv, GroupTypes
  <2> QED
    BY <2>1, <2>2
<1>8. IsFiniteSet(finalized')
  BY <1>4, FS_AddElement DEF TypeInv, GroupTypes
<1> QED
  BY <1>5, <1>6, <1>7, <1>8

\* The rollout GetTrain takes off the queue.
LEMMA GetTrainAdds ==
    ASSUME TypeInv, GetTrain
    PROVE  \E r \in Rollout : AddTrain(r)
<1>1. PICK g \in Open, fate \in Fate, t \in {1, 2} :
         AddTrain([g |-> g, n |-> Due(g), fate |-> fate, tokens |-> t])
  BY DEF GetTrain
<1>2. g \in Group
  BY DEF Open, TypeInv, GroupTypes
<1>3. Due(g) \in Int
  BY <1>2 DEF Due, TypeInv, GroupTypes
<1>4. [g |-> g, n |-> Due(g), fate |-> fate, tokens |-> t] \in Rollout
  BY <1>2, <1>3 DEF Rollout
<1> QED
  BY <1>1, <1>4

LEMMA SavedTypes ==
    ASSUME TypeInv, NEW new \in {saved, Saved(step), FinalSave(saved), FinalSave(Saved(step))}
    PROVE  new \subseteq 0..step
BY DEF TypeInv, LoopTypes, Saved, FinalSave

LEMMA NextTypes ==
    ASSUME TypeInv, [Next]_vars
    PROVE  TypeInv'
<1>1. CASE OpenGroup \/ OpenExample
  BY <1>1 DEF OpenGroup, OpenExample, TypeInv, GroupTypes, LoopTypes, EvalTypes,
     sink, loop, eval, trainer
<1>2. CASE GetTrain
  <2>1. UNCHANGED <<config, opened, step, shipped, empties, eval, trainer>> /\ lpc = "get"
    BY <1>2 DEF GetTrain
  <2>2. GroupTypes'
    BY <1>2, <2>1, AddTrainTypes, GetTrainAdds DEF TypeInv, GroupTypes
  <2>3. saved' \subseteq 0..step
    BY <1>2, SavedTypes DEF GetTrain
  <2>4. /\ lpc' \in {"get", "finalize"} /\ draining' \in BOOLEAN
        /\ drainStep' \in {drainStep, step}
    BY <1>2 DEF GetTrain
  <2> QED
    BY <2>1, <2>2, <2>3, <2>4 DEF TypeInv, LoopTypes, EvalTypes, eval, trainer
<1>3. CASE Finalize
  <2>1. UNCHANGED <<config, opened, sink, batch, step, shipped, drainStep, eval, trainer>>
    BY <1>3 DEF Finalize
  <2>2. saved' \subseteq 0..step
    BY <1>3, SavedTypes DEF Finalize
  <2>3. /\ lpc = "finalize" /\ draining' \in BOOLEAN
        /\ lpc' \in {"get", "send", "failed"}
        /\ empties' \in {0, empties, empties + 1}
        /\ lpc' # "failed" => empties' = 0 \/ empties' = empties \/ empties + 1 < MaxEmpty
    <3>1. empties \in Nat
      BY DEF TypeInv, LoopTypes
    <3>2. lpc = "finalize" /\ draining \in BOOLEAN
      BY <1>3 DEF Finalize, TypeInv, LoopTypes
    <3>3. \/ draining' = TRUE /\ lpc' = "get" /\ empties' = empties
          \/ /\ empties' = empties + 1 /\ draining' = draining
             /\ lpc' = IF empties + 1 >= MaxEmpty THEN "failed" ELSE "get"
          \/ empties' = 0 /\ lpc' = "send" /\ draining' = draining
      BY <1>3 DEF Finalize
    <3>4. draining' \in BOOLEAN
      BY <3>2, <3>3
    <3>5. \/ lpc' = "get" /\ empties' = empties
          \/ empties' = empties + 1 /\ lpc' = "failed" /\ empties + 1 >= MaxEmpty
          \/ empties' = empties + 1 /\ lpc' = "get" /\ ~(empties + 1 >= MaxEmpty)
          \/ empties' = 0 /\ lpc' = "send"
      BY <3>3
    <3>6. lpc' \in {"get", "send", "failed"} /\ empties' \in {0, empties, empties + 1}
      BY <3>5
    <3>7. lpc' # "failed" => empties' = 0 \/ empties' = empties \/ empties + 1 < MaxEmpty
      BY <3>1, <3>5
    <3> QED
      BY <3>1, <3>2, <3>4, <3>5, <3>6, <3>7
  <2>4. empties' \in 0..MaxEmpty /\ (lpc' # "failed" => empties' < MaxEmpty)
    BY <2>3 DEF TypeInv, LoopTypes
  <2> QED
    BY <2>1, <2>2, <2>3, <2>4
    DEF TypeInv, GroupTypes, LoopTypes, EvalTypes, sink, eval, trainer
<1>4. CASE Send
  <2>1. /\ UNCHANGED <<config, opened, sink, batch, step, empties, draining, drainStep,
                       saved, eval, trainer>>
        /\ lpc = "send" /\ lpc' = "advance"
        /\ \E e : shipped' = Append(shipped, e)
    BY <1>4 DEF Send
  <2>2. IsSeq(shipped') /\ Len(shipped') = step + 1 /\ Len(shipped) = step
    BY <2>1, AppendIsSeq DEF TypeInv, LoopTypes
  <2> QED
    BY <2>1, <2>2 DEF TypeInv, GroupTypes, LoopTypes, EvalTypes, sink, eval, trainer
<1>5. CASE Advance
  <2>1. /\ UNCHANGED <<config, opened, sink, batch, shipped, empties, draining,
                       drainStep, saved, evalGroups, trainer>>
        /\ lpc = "advance" /\ lpc' = "get" /\ step' = step + 1
    BY <1>5 DEF Advance
  <2> QED
    BY <2>1 DEF TypeInv, GroupTypes, LoopTypes, EvalTypes, sink, trainer
<1>6. CASE GetEval
  <2>1. PICK x : LET n == At(evalGroups, x, 0) + 1 IN
           evalGroups' = IF n >= EvalSize THEN Drop(evalGroups, x) ELSE Set(evalGroups, x, n)
    BY <1>6 DEF GetEval
  <2> DEFINE n == At(evalGroups, x, 0) + 1
  <2>2. n \in Nat \ {0}
    BY DEF At, TypeInv, EvalTypes
  <2>3. evalGroups' = IF n >= EvalSize THEN Drop(evalGroups, x) ELSE Set(evalGroups, x, n)
    BY <2>1
  <2> HIDE DEF n
  <2>4. EvalTypes'
    BY <2>2, <2>3 DEF Drop, Set, TypeInv, EvalTypes
  <2> QED
    BY <1>6, <2>4 DEF GetEval, TypeInv, GroupTypes, LoopTypes, sink, loop, trainer
<1>7. CASE Exit
  <2>1. saved' \subseteq 0..step
    BY <1>7, SavedTypes DEF Exit
  <2> QED
    BY <1>7, <2>1 DEF Exit, TypeInv, GroupTypes, LoopTypes, EvalTypes, sink, eval, trainer
<1>8. CASE TrainerStep
  <2>1. /\ UNCHANGED <<config, opened, sink, loop, eval>>
        /\ trainerStep < Len(shipped) /\ trainerStep' = trainerStep + 1
        /\ stable' \subseteq stable \cup {trainerStep + 1}
    BY <1>8 DEF TrainerStep
  <2>2. Len(shipped) \in Nat
    BY DEF TypeInv, LoopTypes
  <2> QED
    BY <2>1, <2>2 DEF TypeInv, GroupTypes, LoopTypes, EvalTypes, sink, loop, eval
<1>9. CASE UNCHANGED vars
  BY <1>9 DEF vars, TypeInv, GroupTypes, LoopTypes, EvalTypes, sink, loop, eval, trainer
<1> QED
  BY <1>1, <1>2, <1>3, <1>4, <1>5, <1>6, <1>7, <1>8, <1>9 DEF Next, Dispatch, Loop

LEMMA TypesHold == Spec => []TypeInv
<1>1. TypeInv /\ [Next]_vars => TypeInv'
  BY NextTypes
<1> QED
  BY <1>1, InitTypes, PTL DEF Spec

\* The state keeps its types: a pending group is never full, the loop fails
\* before it has seen more empty batches in a row than it may, and exactly one
\* batch is shipped per step (orchestrator.py finalize_train_batch,
\* train_sink.py add, eval_sink.py add).
THEOREM TypeCorrect == Spec => []TypeOK
<1>1. TypeInv => TypeOK
  BY DEF TypeInv, GroupTypes, LoopTypes, EvalTypes, TypeOK
<1> QED
  BY <1>1, TypesHold, PTL

-----------------------------------------------------------------------------
(* Stops. *)

\* The batch in hand was popped with no stop condition met, and none can
\* become true while it is on its way: the groups are counted and the step
\* advances only between batches.
HandFree ==
    lpc \in {"finalize", "send"} =>
        /\ ~JointStop(step, Cardinality(finalized))
        /\ ~GroupStop(Cardinality(finalized))

\* Past max_steps nothing is sent.
StepsLeft ==
    config.maxSteps > 0 =>
        /\ step <= config.maxSteps
        /\ lpc \in {"send", "advance"} => step < config.maxSteps

\* What was shipped was shipped before a stop.
ShippedBefore ==
    \A i \in 1..Len(shipped) :
        /\ config.maxGroups > 0 => shipped[i].groups < config.maxGroups
        /\ ~JointStop(shipped[i].step, shipped[i].groups)

\* A drain begins between two batches, at the step it remembers.
DrainBetween ==
    /\ draining => lpc \in {"get", "ended", "failed"}
    /\ drainStep # None => draining /\ drainStep = step

\* The loop ends when the checkpoint it waits for is there, and its own is.
EndedReady ==
    lpc = "ended" => draining /\ step \in saved /\ (drainStep # None => drainStep \in stable)

StopInv == HandFree /\ StepsLeft /\ ShippedBefore /\ DrainBetween /\ EndedReady

LEMMA InitStops == Init => StopInv
<1> SUFFICES ASSUME Init PROVE StopInv
  OBVIOUS
<1>1. config \in ConfigType
  BY DEF Init
<1>2. StepsLeft
  BY <1>1 DEF Init, StepsLeft, ConfigType
<1>3. ShippedBefore
  BY DEF Init, ShippedBefore
<1> QED
  BY <1>2, <1>3 DEF Init, StopInv, HandFree, DrainBetween, EndedReady

LEMMA NextStops ==
    ASSUME TypeInv, StopInv, [Next]_vars
    PROVE  StopInv'
<1>1. CASE \/ OpenGroup \/ OpenExample \/ GetEval \/ UNCHANGED vars
  <2>1. UNCHANGED <<config, finalized, lpc, step, shipped, draining, drainStep, saved, stable>>
    BY <1>1 DEF OpenGroup, OpenExample, GetEval, vars, sink, loop, trainer
  <2> QED
    BY <2>1 DEF StopInv, HandFree, StepsLeft, ShippedBefore, DrainBetween, EndedReady,
       JointStop, GroupStop
<1>2. CASE GetTrain
  <2>1. /\ UNCHANGED <<config, step, shipped>> /\ lpc = "get" /\ lpc' \in {"get", "finalize"}
    BY <1>2 DEF GetTrain
  <2> DEFINE n == Cardinality(finalized')
             stop == ~draining /\ (JointStop(step, n) \/ GroupStop(n))
  <2>2. /\ draining' = (draining \/ stop)
        /\ drainStep' = IF stop /\ JointStop(step, n) THEN step ELSE drainStep
        /\ lpc' = "finalize" => ~draining'
    BY <1>2 DEF GetTrain, MayShip
  <2>3. HandFree'
    <3>1. lpc' = "finalize" => ~JointStop(step, n) /\ ~GroupStop(n)
      BY <2>2
    <3> QED
      BY <2>1, <3>1 DEF HandFree, JointStop, GroupStop
  <2>4. DrainBetween'
    BY <2>1, <2>2 DEF StopInv, DrainBetween
  <2> QED
    BY <2>1, <2>3, <2>4 DEF StopInv, StepsLeft, ShippedBefore, EndedReady, JointStop
<1>3. CASE Finalize
  <2>1. /\ UNCHANGED <<config, finalized, step, shipped, drainStep>>
        /\ lpc = "finalize" /\ lpc' \in {"get", "send", "failed"}
        /\ draining' # draining => lpc' = "get" /\ draining'
        /\ lpc' = "send" => ~(config.maxSteps > 0 /\ step >= config.maxSteps)
    BY <1>3 DEF Finalize, sink
  <2>2. StepsLeft'
    BY <2>1, ConfigTypes DEF StopInv, StepsLeft, TypeInv, LoopTypes
  <2> QED
    BY <2>1, <2>2 DEF StopInv, HandFree, ShippedBefore, DrainBetween, EndedReady,
       JointStop, GroupStop
<1>4. CASE Send
  <2> DEFINE e == [step |-> step, rollouts |-> batch, groups |-> Cardinality(finalized)]
  <2>1. /\ UNCHANGED <<config, finalized, step, draining, drainStep, saved, stable>>
        /\ lpc = "send" /\ lpc' = "advance" /\ shipped' = Append(shipped, e)
    BY <1>4 DEF Send, sink, trainer
  <2>2. e.step = step /\ e.groups = Cardinality(finalized)
    OBVIOUS
  <2> HIDE DEF e
  <2>3. ShippedBefore'
    <3> SUFFICES ASSUME NEW i \in 1..Len(shipped')
                 PROVE  /\ config.maxGroups > 0 => shipped'[i].groups < config.maxGroups
                        /\ ~JointStop(shipped'[i].step, shipped'[i].groups)
      BY <2>1 DEF ShippedBefore, JointStop
    <3>1. IsSeq(shipped)
      BY DEF TypeInv, LoopTypes
    <3>2. CASE i \in 1..Len(shipped)
      BY <2>1, <3>1, <3>2, AppendIsSeq DEF StopInv, ShippedBefore
    <3>3. CASE i = Len(shipped) + 1
      <4>1. shipped'[i] = e
        BY <2>1, <3>1, <3>3, AppendIsSeq
      <4>2. ~JointStop(step, Cardinality(finalized)) /\ ~GroupStop(Cardinality(finalized))
        BY <2>1 DEF StopInv, HandFree
      <4> QED
        BY <2>2, <4>1, <4>2, ConfigTypes DEF GroupStop
    <3> QED
      BY <2>1, <3>1, <3>2, <3>3, AppendIsSeq
  <2> QED
    BY <2>1, <2>3 DEF StopInv, HandFree, StepsLeft, DrainBetween, EndedReady
<1>5. CASE Advance
  <2>1. /\ UNCHANGED <<config, finalized, shipped, draining, drainStep>>
        /\ lpc = "advance" /\ lpc' = "get" /\ step' = step + 1
    BY <1>5 DEF Advance, sink
  <2>2. StepsLeft'
    BY <2>1, ConfigTypes DEF StopInv, StepsLeft, TypeInv, LoopTypes
  <2> QED
    BY <2>1, <2>2 DEF StopInv, HandFree, ShippedBefore, DrainBetween, EndedReady, JointStop
<1>6. CASE Exit
  <2>1. /\ UNCHANGED <<config, finalized, step, shipped, draining, drainStep, stable>>
        /\ lpc = "get" /\ lpc' = "ended" /\ saved' = saved \cup {step} /\ draining
        /\ drainStep = None \/ drainStep \in stable
    BY <1>6 DEF Exit, CheckpointReady, FinalSave, sink, trainer
  <2> QED
    BY <2>1 DEF StopInv, HandFree, StepsLeft, ShippedBefore, DrainBetween, EndedReady, JointStop
<1>7. CASE TrainerStep
  <2>1. UNCHANGED <<config, finalized, lpc, step, shipped, draining, drainStep, saved>>
        /\ stable \subseteq stable'
    BY <1>7 DEF TrainerStep, sink, loop
  <2> QED
    BY <2>1 DEF StopInv, HandFree, StepsLeft, ShippedBefore, DrainBetween, EndedReady,
       JointStop, GroupStop
<1> QED
  BY <1>1, <1>2, <1>3, <1>4, <1>5, <1>6, <1>7 DEF Next, Dispatch, Loop

LEMMA StopsHold == Spec => [](TypeInv /\ StopInv)
<1>1. StopInv /\ TypeInv /\ [Next]_vars => StopInv'
  BY NextStops
<1> QED
  BY <1>1, InitStops, TypesHold, PTL DEF Spec

\* Nothing is shipped once max_finalized_groups groups have finalized, nor past
\* max_steps, nor at a step with a joint stop met (orchestrator.py main_loop,
\* finalize_train_batch, training_stop_reason).
THEOREM StopsHard == Spec => []StopsAreHard
<1>1. TypeInv /\ StopInv => StopsAreHard
  <2> SUFFICES ASSUME TypeInv, StopInv PROVE StopsAreHard
    OBVIOUS
  <2>1. DOMAIN shipped = 1..Len(shipped)
    BY DEF TypeInv, LoopTypes, IsSeq
  <2> QED
    BY <2>1 DEF StopInv, StepsLeft, ShippedBefore, StopsAreHard
<1> QED
  BY <1>1, StopsHold, PTL

\* A loop that ends after a joint stop has shipped exactly the batches before
\* its step, has a checkpoint of that step, and stable weights of it
\* (orchestrator.py begin_draining, drain_checkpoint_ready, start).
THEOREM JointStopEnds == Spec => []JointStopKept
<1>1. TypeInv /\ StopInv => JointStopKept
  BY DEF TypeInv, LoopTypes, StopInv, DrainBetween, EndedReady, JointStopKept
<1> QED
  BY <1>1, StopsHold, PTL
-----------------------------------------------------------------------------
(* Eval epochs. *)

\* An example of an epoch, by the step of the epoch.
Item == [ex : Example, step : Nat]

EpochOf(k) == {x \in Item : x.step = k}

\* The examples of epoch k whose last rollout has arrived.
Finished(k) == {x \in DOMAIN evalLeft : x.step = k /\ evalLeft[x] = 0}

Done(k) == \E i \in DOMAIN epochs.done : epochs.done[i].key = k

EpochTypes ==
    /\ evalQueue \in Seq(Item)
    /\ DOMAIN evalLeft \subseteq Item /\ evalLeft \in [DOMAIN evalLeft -> 0..EvalSize]
    /\ epochs \in [fired : SUBSET Nat, done : Seq([key : Nat, groups : SUBSET Item])]

\* An example of an epoch is queued once, and opened after it was queued: no
\* epoch is queued again, as none is of a step to come.
QueuedOnce ==
    /\ \A i, j \in 1..Len(evalQueue) : evalQueue[i] = evalQueue[j] => i = j
    /\ \A i \in 1..Len(evalQueue) : /\ evalQueue[i] \notin DOMAIN evalLeft
                                    /\ evalQueue[i].step <= step
    /\ \A x \in DOMAIN evalLeft : x.step <= step

\* The sink holds the groups that have begun and not ended, and counts them
\* right.
GroupsCounted ==
    /\ DOMAIN evalGroups = {x \in DOMAIN evalLeft : 0 < evalLeft[x] /\ evalLeft[x] < EvalSize}
    /\ \A x \in DOMAIN evalGroups : evalGroups[x] = EvalSize - evalLeft[x]

\* A bucket holds the finished examples of its epoch; an epoch has none once
\* it is done.
Buckets ==
    /\ \A k \in DOMAIN evalBatches : k \in Nat /\ ~Done(k) /\ evalBatches[k] = Finished(k)
    /\ \A k \in Nat : k \in DOMAIN evalBatches \/ Done(k) \/ Finished(k) = {}

\* An epoch that is done was whole, and nothing of it is still to come.
DoneWhole ==
    /\ \A i \in DOMAIN epochs.done :
         /\ epochs.done[i].groups = EpochOf(epochs.done[i].key)
         /\ EpochOf(epochs.done[i].key) \subseteq Finished(epochs.done[i].key)
    /\ \A i, j \in DOMAIN epochs.done : epochs.done[i].key = epochs.done[j].key => i = j

EpochInv == EpochTypes /\ QueuedOnce /\ GroupsCounted /\ Buckets /\ DoneWhole

-----------------------------------------------------------------------------

LEMMA EpochSeq ==
    ASSUME NEW s \in Nat
    PROVE  /\ Epoch(s) \in Seq(Item)
           /\ \A i \in 1..Len(Epoch(s)) : Epoch(s)[i].step = s
           /\ \A i, j \in 1..Len(Epoch(s)) : Epoch(s)[i] = Epoch(s)[j] => i = j
<1> DEFINE n == Cardinality(Example)
           order == SetToSeq(Example)
<1>1. n \in Nat /\ ExistsBijection(1..n, Example)
  BY FS_CardinalityType, MainLoopAssumption DEF MainLoopAssumption
<1>2. \E f \in [1..n -> Example] : IsInjective(f)
  BY <1>1 DEF ExistsBijection, Bijection, Injection, IsInjective
<1>3. order \in [1..n -> Example] /\ IsInjective(order)
  BY <1>2 DEF SetToSeq
<1> HIDE DEF order
<1>4. Epoch(s) = [i \in 1..n |-> [ex |-> order[i], step |-> s]]
  BY DEF Epoch, order
<1> HIDE DEF n
<1>5. \A i \in 1..n : [ex |-> order[i], step |-> s] \in Item
  BY <1>3 DEF Item
<1>6. Epoch(s) \in Seq(Item) /\ Len(Epoch(s)) = n
  BY <1>1, <1>4, <1>5
<1>7. \A i \in 1..n : Epoch(s)[i].ex = order[i] /\ Epoch(s)[i].step = s
  BY <1>4
<1> QED
  BY <1>3, <1>6, <1>7 DEF IsInjective

LEMMA EpochSize ==
    ASSUME NEW k \in Nat
    PROVE  IsFiniteSet(EpochOf(k)) /\ Cardinality(EpochOf(k)) = Cardinality(Example)
<1> DEFINE f == [x \in Example |-> [ex |-> x, step |-> k]]
<1>1. f \in [Example -> EpochOf(k)]
  BY DEF EpochOf, Item
<1>2. \A x, y \in Example : f[x] = f[y] => x = y
  OBVIOUS
<1>3. ASSUME NEW z \in EpochOf(k) PROVE \E x \in Example : f[x] = z
  <2>1. z.ex \in Example /\ z = [ex |-> z.ex, step |-> k]
    BY DEF EpochOf, Item
  <2> QED
    BY <2>1
<1> HIDE DEF f
<1>4. ExistsBijection(Example, EpochOf(k))
  BY <1>1, <1>2, <1>3 DEF ExistsBijection, Bijection, Injection, Surjection, IsInjective
<1> QED
  BY <1>4, FS_Bijection, MainLoopAssumption DEF MainLoopAssumption

LEMMA InitEpochs == Init => EpochInv
<1> SUFFICES ASSUME Init PROVE EpochInv
  OBVIOUS
<1>1. /\ evalQueue \in {<<>>, Epoch(0)} /\ step = 0
      /\ evalLeft = [x \in {} |-> 0] /\ evalGroups = [x \in {} |-> 0]
      /\ evalBatches = [x \in {} |-> 0]
      /\ epochs \in [fired : SUBSET Nat, done : {<<>>}]
  BY DEF Init
<1>2. /\ evalQueue \in Seq(Item)
      /\ \A i \in 1..Len(evalQueue) : evalQueue[i].step <= step
      /\ \A i, j \in 1..Len(evalQueue) : evalQueue[i] = evalQueue[j] => i = j
  <2>1. CASE evalQueue = <<>>
    BY <2>1
  <2>2. CASE evalQueue = Epoch(0)
    <3> DEFINE e == Epoch(0)
    <3>1. e \in Seq(Item) /\ \A i \in 1..Len(e) : e[i].step = 0
      BY EpochSeq
    <3>2. \A i, j \in 1..Len(e) : e[i] = e[j] => i = j
      BY EpochSeq
    <3>3. evalQueue = e /\ step = 0
      BY <1>1, <2>2
    <3> HIDE DEF e
    <3> QED
      BY <3>1, <3>2, <3>3
  <2> QED
    BY <1>1, <2>1, <2>2
<1>3. DOMAIN evalLeft = {} /\ DOMAIN evalGroups = {} /\ DOMAIN evalBatches = {}
  BY <1>1
<1>4. epochs \in [fired : SUBSET Nat, done : Seq([key : Nat, groups : SUBSET Item])]
      /\ DOMAIN epochs.done = {}
  <2>1. <<>> \in Seq([key : Nat, groups : SUBSET Item]) /\ DOMAIN <<>> = {}
    OBVIOUS
  <2>2. epochs.done = <<>> /\ epochs \in [fired : SUBSET Nat, done : {<<>>}]
    BY <1>1
  <2> QED
    BY <2>1, <2>2
<1>5. EpochTypes
  BY <1>1, <1>2, <1>4 DEF EpochTypes
<1>6. QueuedOnce
  BY <1>2, <1>3 DEF QueuedOnce
<1>7. GroupsCounted
  BY <1>3 DEF GroupsCounted
<1>8. Buckets /\ DoneWhole
  BY <1>3, <1>4 DEF Buckets, DoneWhole, Finished
<1> QED
  BY <1>5, <1>6, <1>7, <1>8 DEF EpochInv

\* An epoch is fired: its step is still to come, so nothing of it is there.
LEMMA AdvanceEpochs ==
    ASSUME TypeInv, EpochInv, Advance
    PROVE  EpochInv'
<1>1. /\ UNCHANGED <<evalLeft, evalGroups, evalBatches>> /\ step' = step + 1 /\ step \in Nat
      /\ evalQueue' \in {evalQueue, evalQueue \o Epoch(step + 1)}
      /\ epochs' \in {epochs, [epochs EXCEPT !.fired = @ \cup {step + 1}]}
  BY DEF Advance, TypeInv, LoopTypes
<1>2. epochs'.done = epochs.done
      /\ epochs' \in [fired : SUBSET Nat, done : Seq([key : Nat, groups : SUBSET Item])]
  BY <1>1 DEF EpochInv, EpochTypes
<1>3. /\ evalQueue' \in Seq(Item)
      /\ \A i, j \in 1..Len(evalQueue') : evalQueue'[i] = evalQueue'[j] => i = j
      /\ \A i \in 1..Len(evalQueue') : /\ evalQueue'[i] \notin DOMAIN evalLeft
                                       /\ evalQueue'[i].step <= step + 1
  <2>0. \A i \in 1..Len(evalQueue) : evalQueue[i].step \in Nat
    <3>1. \A i \in 1..Len(evalQueue) : evalQueue[i] \in Item
      BY DEF EpochInv, EpochTypes
    <3>2. \A x \in Item : x.step \in Nat
      BY DEF Item
    <3> QED
      BY <3>1, <3>2
  <2>1. CASE evalQueue' = evalQueue
    BY <1>1, <2>0, <2>1 DEF EpochInv, EpochTypes, QueuedOnce
  <2>2. CASE evalQueue' = evalQueue \o Epoch(step + 1)
    <3> DEFINE new == Epoch(step + 1)
    <3>1. /\ new \in Seq(Item) /\ \A i \in 1..Len(new) : new[i].step = step + 1
          /\ \A i, j \in 1..Len(new) : new[i] = new[j] => i = j
      <4>1. step + 1 \in Nat
        BY <1>1
      <4> QED
        BY <4>1, EpochSeq
    <3>2. /\ evalQueue \in Seq(Item) /\ \A i \in 1..Len(evalQueue) : evalQueue[i].step <= step
          /\ \A x \in DOMAIN evalLeft : x.step <= step
          /\ \A i \in 1..Len(evalQueue) : evalQueue[i] \notin DOMAIN evalLeft
          /\ \A i, j \in 1..Len(evalQueue) : evalQueue[i] = evalQueue[j] => i = j
      BY DEF EpochInv, EpochTypes, QueuedOnce
    <3> HIDE DEF new
    <3>3. /\ evalQueue' \in Seq(Item) /\ Len(evalQueue') = Len(evalQueue) + Len(new)
          /\ \A i \in 1..Len(evalQueue') :
               evalQueue'[i] = IF i <= Len(evalQueue) THEN evalQueue[i]
                               ELSE new[i - Len(evalQueue)]
      BY <2>2, <3>1, <3>2 DEF new
    <3>4. \A i \in 1..Len(evalQueue') :
            \/ i \in 1..Len(evalQueue) /\ evalQueue'[i] = evalQueue[i]
            \/ /\ i > Len(evalQueue) /\ i - Len(evalQueue) \in 1..Len(new)
               /\ evalQueue'[i] = new[i - Len(evalQueue)]
      BY <3>1, <3>2, <3>3
    <3>5. ~(step + 1 <= step)
      BY <1>1
    <3>6. \A i \in 1..Len(evalQueue) : evalQueue[i].step <= step + 1
      BY <1>1, <2>0, <3>2
    <3>7. ASSUME NEW i \in 1..Len(evalQueue'), NEW j \in 1..Len(evalQueue'),
                 evalQueue'[i] = evalQueue'[j]
          PROVE  i = j
      <4>1. CASE i \in 1..Len(evalQueue) /\ j \in 1..Len(evalQueue)
        BY <3>2, <3>4, <3>7, <4>1
      <4>2. CASE i > Len(evalQueue) /\ j > Len(evalQueue)
        <5>1. /\ i - Len(evalQueue) \in 1..Len(new) /\ j - Len(evalQueue) \in 1..Len(new)
              /\ new[i - Len(evalQueue)] = new[j - Len(evalQueue)]
          BY <3>2, <3>4, <3>7, <4>2
        <5>2. i - Len(evalQueue) = j - Len(evalQueue)
          BY <3>1, <5>1
        <5> QED
          BY <3>2, <5>2
      <4>3. CASE i \in 1..Len(evalQueue) /\ j > Len(evalQueue)
        <5>1. /\ evalQueue'[i].step <= step /\ evalQueue'[j] = new[j - Len(evalQueue)]
              /\ j - Len(evalQueue) \in 1..Len(new)
          BY <3>2, <3>4, <4>3
        <5>2. evalQueue'[j].step = step + 1
          BY <3>1, <5>1
        <5> QED
          BY <3>5, <3>7, <5>1, <5>2
      <4>4. CASE j \in 1..Len(evalQueue) /\ i > Len(evalQueue)
        <5>1. /\ evalQueue'[j].step <= step /\ evalQueue'[i] = new[i - Len(evalQueue)]
              /\ i - Len(evalQueue) \in 1..Len(new)
          BY <3>2, <3>4, <4>4
        <5>2. evalQueue'[i].step = step + 1
          BY <3>1, <5>1
        <5> QED
          BY <3>5, <3>7, <5>1, <5>2
      <4> QED
        BY <3>2, <3>4, <4>1, <4>2, <4>3, <4>4
    <3>8. ASSUME NEW i \in 1..Len(evalQueue')
          PROVE  evalQueue'[i] \notin DOMAIN evalLeft /\ evalQueue'[i].step <= step + 1
      <4>1. CASE i \in 1..Len(evalQueue) /\ evalQueue'[i] = evalQueue[i]
        BY <3>2, <3>6, <4>1
      <4>2. CASE /\ i - Len(evalQueue) \in 1..Len(new)
                 /\ evalQueue'[i] = new[i - Len(evalQueue)]
        <5>1. evalQueue'[i].step = step + 1
          BY <3>1, <4>2
        <5> QED
          BY <1>1, <3>2, <3>5, <5>1
      <4> QED
        BY <3>4, <4>1, <4>2
    <3> QED
      BY <3>3, <3>7, <3>8
  <2> QED
    BY <1>1, <2>1, <2>2
<1>4. EpochTypes'
  BY <1>1, <1>2, <1>3 DEF EpochInv, EpochTypes
<1>5. \A x \in DOMAIN evalLeft : x.step <= step + 1
  BY <1>1 DEF EpochInv, EpochTypes, QueuedOnce, Item
<1>6. QueuedOnce'
  BY <1>1, <1>3, <1>5 DEF QueuedOnce
<1> QED
  BY <1>1, <1>2, <1>4, <1>6 DEF EpochInv, GroupsCounted, Buckets, DoneWhole, Done, Finished

\* An example is opened: none of its rollouts has arrived.
LEMMA OpenEpochs ==
    ASSUME TypeInv, EpochInv, OpenExample
    PROVE  EpochInv'
<1> DEFINE x == Head(evalQueue)
<1>1. /\ evalQueue # <<>> /\ evalQueue' = Tail(evalQueue)
      /\ evalLeft' = [y \in DOMAIN evalLeft \cup {x} |-> IF y = x THEN EvalSize ELSE evalLeft[y]]
      /\ UNCHANGED <<step, evalGroups, evalBatches, epochs>>
  BY DEF OpenExample, loop
<1>2. /\ evalQueue \in Seq(Item) /\ Len(evalQueue) \in Nat \ {0}
      /\ evalQueue' \in Seq(Item) /\ Len(evalQueue') = Len(evalQueue) - 1
      /\ \A i \in 1..Len(evalQueue') : i + 1 \in 1..Len(evalQueue) /\ evalQueue'[i] = evalQueue[i + 1]
      /\ x = evalQueue[1] /\ x \in Item
  BY <1>1 DEF EpochInv, EpochTypes
<1>3. /\ 1 \in 1..Len(evalQueue) /\ x \notin DOMAIN evalLeft /\ x.step <= step
  BY <1>2 DEF EpochInv, QueuedOnce
<1> HIDE DEF x
<1>4. /\ DOMAIN evalLeft' = DOMAIN evalLeft \cup {x} /\ evalLeft'[x] = EvalSize
      /\ \A y \in DOMAIN evalLeft : evalLeft'[y] = evalLeft[y]
  BY <1>1, <1>3
<1>5. EpochTypes'
  BY <1>1, <1>2, <1>4 DEF EpochInv, EpochTypes
<1>6. QueuedOnce'
  <2>1. ASSUME NEW i \in 1..Len(evalQueue'), NEW j \in 1..Len(evalQueue'),
               evalQueue'[i] = evalQueue'[j]
        PROVE  i = j
    <3>1. i + 1 = j + 1
      BY <1>2, <2>1 DEF EpochInv, QueuedOnce
    <3> QED
      BY <1>2, <3>1
  <2>2. ASSUME NEW i \in 1..Len(evalQueue')
        PROVE  evalQueue'[i] \notin DOMAIN evalLeft' /\ evalQueue'[i].step <= step
    <3>1. evalQueue'[i] # x
      <4>1. evalQueue[i + 1] = evalQueue[1] => i + 1 = 1
        BY <1>2, <1>3 DEF EpochInv, QueuedOnce
      <4> QED
        BY <1>2, <4>1
    <3> QED
      BY <1>2, <1>4, <3>1 DEF EpochInv, QueuedOnce
  <2> QED
    BY <1>1, <1>3, <1>4, <2>1, <2>2 DEF EpochInv, QueuedOnce
<1>7. GroupsCounted'
  BY <1>1, <1>3, <1>4 DEF EpochInv, GroupsCounted
<1>8. \A k : Finished(k)' = Finished(k)
  BY <1>3, <1>4 DEF Finished
<1>9. Buckets' /\ DoneWhole'
  BY <1>1, <1>8 DEF EpochInv, Buckets, DoneWhole, Done
<1> QED
  BY <1>5, <1>6, <1>7, <1>9 DEF EpochInv

\* A rollout of an eval example arrives: it is the last of its group when none
\* is still to come, and the last of its epoch when its bucket is the epoch.
LEMMA GetEvalEpochs ==
    ASSUME TypeInv, EpochInv, GetEval
    PROVE  EpochInv'
<1>1. UNCHANGED <<step, evalQueue>>
  BY DEF GetEval, loop
<1>2. PICK x \in DOMAIN evalLeft :
        /\ evalLeft[x] > 0
        /\ evalLeft' = [evalLeft EXCEPT ![x] = @ - 1]
        /\ LET n == At(evalGroups, x, 0) + 1
               key == BatchKey(x)
               bucket == At(evalBatches, key, {}) \cup (IF n >= EvalSize THEN {x} ELSE {})
               whole == Cardinality(bucket) >= Cardinality(Example)
           IN  /\ evalGroups' = IF n >= EvalSize THEN Drop(evalGroups, x)
                                ELSE Set(evalGroups, x, n)
               /\ evalBatches' = IF whole THEN Drop(evalBatches, key)
                                 ELSE Set(evalBatches, key, bucket)
               /\ epochs' = IF whole
                            THEN [epochs EXCEPT !.done = Append(@, [key |-> key, groups |-> bucket])]
                            ELSE epochs
  BY DEF GetEval
<1> DEFINE n == At(evalGroups, x, 0) + 1
           k == x.step
           bucket == At(evalBatches, k, {}) \cup (IF n >= EvalSize THEN {x} ELSE {})
           whole == Cardinality(bucket) >= Cardinality(Example)
           entry == [key |-> k, groups |-> bucket]
<1>3. /\ evalGroups' = IF n >= EvalSize THEN Drop(evalGroups, x) ELSE Set(evalGroups, x, n)
      /\ evalBatches' = IF whole THEN Drop(evalBatches, k) ELSE Set(evalBatches, k, bucket)
      /\ whole => epochs' = [epochs EXCEPT !.done = Append(@, entry)]
      /\ ~whole => epochs' = epochs
  BY <1>2 DEF BatchKey
<1>4. /\ x \in Item /\ k \in Nat /\ evalLeft[x] \in 1..EvalSize
      /\ DOMAIN evalLeft' = DOMAIN evalLeft /\ evalLeft'[x] = evalLeft[x] - 1
      /\ \A y \in DOMAIN evalLeft : y # x => evalLeft'[y] = evalLeft[y]
  BY <1>2 DEF EpochInv, EpochTypes, Item
\* The group is complete exactly when none of its rollouts is still to come.
<1>5. n = EvalSize - evalLeft'[x]
  <2>1. CASE x \in DOMAIN evalGroups
    BY <1>4, <2>1 DEF At, EpochInv, GroupsCounted
  <2>2. CASE x \notin DOMAIN evalGroups
    <3>1. evalLeft[x] = EvalSize
      BY <1>2, <1>4, <2>2 DEF EpochInv, GroupsCounted
    <3> QED
      BY <1>4, <2>2, <3>1 DEF At
  <2> QED
    BY <2>1, <2>2
<1>6. n >= EvalSize <=> evalLeft'[x] = 0
  BY <1>4, <1>5
<1>7. /\ Finished(k)' = Finished(k) \cup (IF n >= EvalSize THEN {x} ELSE {})
      /\ \A j : j # k => Finished(j)' = Finished(j)
      /\ \A j : Finished(j) \subseteq Finished(j)'
  BY <1>2, <1>4, <1>6 DEF Finished
\* Its epoch is not done, as the example is not finished.
<1>8. ~Done(k)
  <2>1. x \in EpochOf(k) /\ x \notin Finished(k)
    BY <1>2, <1>4 DEF EpochOf, Finished
  <2> QED
    BY <2>1 DEF Done, EpochInv, DoneWhole
<1>9. bucket = Finished(k)'
  <2>1. At(evalBatches, k, {}) = Finished(k)
    BY <1>4, <1>8 DEF At, EpochInv, Buckets
  <2> QED
    BY <1>7, <2>1
<1>10. bucket \subseteq EpochOf(k)
  BY <1>4, <1>9 DEF Finished, EpochOf, EpochInv, EpochTypes
<1>11. whole => bucket = EpochOf(k)
  <2>1. IsFiniteSet(EpochOf(k)) /\ Cardinality(EpochOf(k)) = Cardinality(Example)
    BY <1>4, EpochSize
  <2>2. /\ Cardinality(bucket) <= Cardinality(EpochOf(k))
        /\ Cardinality(EpochOf(k)) = Cardinality(bucket) => EpochOf(k) = bucket
        /\ Cardinality(bucket) \in Nat /\ Cardinality(EpochOf(k)) \in Nat
    <3> HIDE DEF bucket
    <3> QED
      BY <1>10, <2>1, FS_Subset, FS_CardinalityType
  <2> QED
    BY <2>1, <2>2
<1>12. entry.key = k /\ entry.groups = bucket /\ entry \in [key : Nat, groups : SUBSET Item]
  BY <1>4, <1>10 DEF EpochOf
<1> HIDE DEF n, k, bucket, whole, entry
<1>13. /\ epochs.done \in Seq([key : Nat, groups : SUBSET Item])
       /\ epochs'.done = IF whole THEN Append(epochs.done, entry) ELSE epochs.done
       /\ epochs' \in [fired : SUBSET Nat, done : Seq([key : Nat, groups : SUBSET Item])]
  <2>1. /\ epochs \in [fired : SUBSET Nat, done : Seq([key : Nat, groups : SUBSET Item])]
        /\ epochs.done \in Seq([key : Nat, groups : SUBSET Item])
    BY DEF EpochInv, EpochTypes
  <2>2. Append(epochs.done, entry) \in Seq([key : Nat, groups : SUBSET Item])
    BY <1>12, <2>1
  <2>3. CASE whole
    <3>1. epochs' = [epochs EXCEPT !.done = Append(epochs.done, entry)]
      BY <1>3, <2>3
    <3> HIDE DEF whole
    <3> QED
      BY <2>1, <2>2, <2>3, <3>1
  <2>4. CASE ~whole
    BY <1>3, <2>1, <2>4
  <2> QED
    BY <2>1, <2>3, <2>4
<1>14. EpochTypes'
  <2>1. evalLeft' \in [DOMAIN evalLeft' -> 0..EvalSize]
    BY <1>2, <1>4 DEF EpochInv, EpochTypes
  <2>2. evalQueue' \in Seq(Item) /\ DOMAIN evalLeft' \subseteq Item
    BY <1>1, <1>4 DEF EpochInv, EpochTypes
  <2> QED
    BY <1>13, <2>1, <2>2 DEF EpochTypes
<1>15. QueuedOnce'
  BY <1>1, <1>4 DEF EpochInv, QueuedOnce
<1>16. GroupsCounted'
  <2>1. CASE n >= EvalSize
    BY <1>3, <1>4, <1>6, <2>1 DEF Drop, EpochInv, GroupsCounted
  <2>2. CASE ~(n >= EvalSize)
    <3>1. /\ 0 < evalLeft'[x] /\ evalLeft'[x] < EvalSize
      BY <1>4, <1>6, <2>2
    <3>2. /\ DOMAIN evalGroups' = DOMAIN evalGroups \cup {x} /\ evalGroups'[x] = n
          /\ \A y \in DOMAIN evalGroups : y # x => evalGroups'[y] = evalGroups[y]
      BY <1>3, <2>2 DEF Set
    <3> QED
      BY <1>4, <1>5, <3>1, <3>2 DEF EpochInv, GroupsCounted
  <2> QED
    BY <2>1, <2>2
<1>17. \A j : Done(j)' <=> Done(j) \/ (whole /\ j = k)
  <2>1. CASE ~whole
    BY <1>13, <2>1 DEF Done
  <2>2. CASE whole
    <3>1. /\ DOMAIN epochs.done = 1..Len(epochs.done) /\ Len(epochs.done) \in Nat
          /\ DOMAIN epochs'.done = 1..(Len(epochs.done) + 1)
          /\ \A i \in 1..Len(epochs.done) : epochs'.done[i] = epochs.done[i]
          /\ epochs'.done[Len(epochs.done) + 1] = entry
      BY <1>12, <1>13, <2>2
    <3>2. ASSUME NEW j, Done(j)' PROVE Done(j) \/ j = k
      <4>1. PICK i \in 1..(Len(epochs.done) + 1) : epochs'.done[i].key = j
        BY <3>1, <3>2 DEF Done
      <4>2. CASE i \in 1..Len(epochs.done)
        BY <3>1, <4>1, <4>2 DEF Done
      <4>3. CASE i = Len(epochs.done) + 1
        BY <1>12, <3>1, <4>1, <4>3
      <4> QED
        BY <3>1, <4>1, <4>2, <4>3
    <3>3. ASSUME NEW j, Done(j) PROVE Done(j)'
      <4>1. PICK i \in 1..Len(epochs.done) : epochs.done[i].key = j
        BY <3>1, <3>3 DEF Done
      <4>2. i \in DOMAIN epochs'.done /\ epochs'.done[i].key = j
        BY <3>1, <4>1
      <4> QED
        BY <4>2 DEF Done
    <3>4. Done(k)'
      <4>1. /\ Len(epochs.done) + 1 \in DOMAIN epochs'.done
            /\ epochs'.done[Len(epochs.done) + 1].key = k
        BY <1>12, <3>1
      <4> QED
        BY <4>1 DEF Done
    <3> QED
      BY <2>2, <3>2, <3>3, <3>4
  <2> QED
    BY <2>1, <2>2
<1>18. Buckets'
  <2>1. CASE whole
    <3>1. /\ DOMAIN evalBatches' = DOMAIN evalBatches \ {k}
          /\ \A j \in DOMAIN evalBatches' : evalBatches'[j] = evalBatches[j]
      BY <1>3, <2>1 DEF Drop
    <3> QED
      BY <1>7, <1>17, <2>1, <3>1 DEF EpochInv, Buckets
  <2>2. CASE ~whole
    <3>1. /\ DOMAIN evalBatches' = DOMAIN evalBatches \cup {k} /\ evalBatches'[k] = bucket
          /\ \A j \in DOMAIN evalBatches : j # k => evalBatches'[j] = evalBatches[j]
      BY <1>3, <2>2 DEF Set
    <3> QED
      BY <1>4, <1>7, <1>8, <1>9, <1>17, <2>2, <3>1, ZenonT(30) DEF EpochInv, Buckets, k
  <2> QED
    BY <2>1, <2>2
<1>19. DoneWhole'
  <2>1. CASE ~whole
    BY <1>7, <1>13, <2>1 DEF EpochInv, DoneWhole
  <2>2. CASE whole
    <3>1. /\ DOMAIN epochs.done = 1..Len(epochs.done) /\ Len(epochs.done) \in Nat
          /\ DOMAIN epochs'.done = 1..(Len(epochs.done) + 1)
          /\ \A i \in 1..Len(epochs.done) : epochs'.done[i] = epochs.done[i]
          /\ epochs'.done[Len(epochs.done) + 1] = entry
      BY <1>12, <1>13, <2>2
    <3>2. entry.groups = EpochOf(k) /\ EpochOf(k) \subseteq Finished(k)'
      BY <1>9, <1>11, <1>12, <2>2
    <3>3. \A i \in 1..Len(epochs.done) : epochs.done[i].key # k
      BY <1>8, <3>1 DEF Done
    <3>4. \A i \in 1..Len(epochs.done) :
            /\ epochs.done[i].groups = EpochOf(epochs.done[i].key)
            /\ EpochOf(epochs.done[i].key) \subseteq Finished(epochs.done[i].key)
      BY <3>1 DEF EpochInv, DoneWhole
    <3>5. ASSUME NEW i \in DOMAIN epochs'.done
          PROVE  \E j : /\ j = epochs'.done[i].key /\ epochs'.done[i].groups = EpochOf(j)
                        /\ EpochOf(j) \subseteq Finished(j)'
      <4>1. CASE i \in 1..Len(epochs.done)
        <5>1. EpochOf(epochs.done[i].key) \subseteq Finished(epochs.done[i].key)
          BY <3>4, <4>1
        <5> DEFINE j == epochs.done[i].key
        <5>2. /\ j = epochs'.done[i].key /\ epochs'.done[i].groups = EpochOf(j)
              /\ EpochOf(j) \subseteq Finished(j)
          BY <3>1, <3>4, <4>1
        <5> HIDE DEF j
        <5> QED
          BY <1>7, <5>2
      <4>2. CASE i = Len(epochs.done) + 1
        BY <1>12, <3>1, <3>2, <4>2
      <4> QED
        BY <3>1, <4>1, <4>2
    <3>6. ASSUME NEW i \in DOMAIN epochs'.done, NEW j \in DOMAIN epochs'.done,
                 epochs'.done[i].key = epochs'.done[j].key
          PROVE  i = j
      <4>1. CASE i \in 1..Len(epochs.done) /\ j \in 1..Len(epochs.done)
        BY <3>1, <3>6, <4>1 DEF EpochInv, DoneWhole
      <4>2. CASE i = Len(epochs.done) + 1 \/ j = Len(epochs.done) + 1
        <5>1. epochs'.done[i].key = k /\ epochs'.done[j].key = k
          BY <1>12, <3>1, <3>6, <4>2
        <5> QED
          BY <3>1, <3>3, <5>1, SMTT(30)
      <4> QED
        BY <3>1, <4>1, <4>2
    <3>7. \A i \in DOMAIN epochs'.done :
            /\ epochs'.done[i].groups = EpochOf(epochs'.done[i].key)
            /\ \A y \in EpochOf(epochs'.done[i].key) :
                 /\ y \in DOMAIN evalLeft' /\ y.step = epochs'.done[i].key
                 /\ evalLeft'[y] = 0
      BY <3>5 DEF Finished
    <3> QED
      BY <3>6, <3>7 DEF DoneWhole, EpochOf, Item, Finished
  <2> QED
    BY <2>1, <2>2
<1> QED
  BY <1>14, <1>15, <1>16, <1>18, <1>19 DEF EpochInv

LEMMA NextEpochs ==
    ASSUME TypeInv, EpochInv, [Next]_vars
    PROVE  EpochInv'
<1>1. CASE \/ OpenGroup \/ GetTrain \/ Finalize \/ Send \/ Exit \/ TrainerStep
           \/ UNCHANGED vars
  <2>1. UNCHANGED <<step, evalQueue, evalLeft, evalGroups, evalBatches, epochs>>
    BY <1>1 DEF OpenGroup, GetTrain, Finalize, Send, Exit, TrainerStep, vars, loop, eval
  <2>2. EpochTypes' /\ QueuedOnce' /\ GroupsCounted'
    BY <2>1 DEF EpochInv, EpochTypes, QueuedOnce, GroupsCounted
  <2>3. Buckets'
    BY <2>1 DEF EpochInv, Buckets, Done, Finished
  <2>4. DoneWhole'
    BY <2>1 DEF EpochInv, DoneWhole, Finished
  <2> QED
    BY <2>2, <2>3, <2>4 DEF EpochInv
<1> QED
  BY <1>1, OpenEpochs, AdvanceEpochs, GetEvalEpochs DEF Next, Dispatch, Loop

\* An eval batch holds exactly the examples of one epoch, whichever epochs are
\* in flight together, and no epoch yields a second batch (eval_sink.py add,
\* eval_source.py trigger).
THEOREM EvalEpochsWhole == Spec => []EpochsWhole
<1>1. EpochInv /\ TypeInv /\ [Next]_vars => EpochInv'
  BY NextEpochs
<1>2. EpochInv => EpochsWhole
  <2> SUFFICES ASSUME EpochInv PROVE EpochsWhole
    OBVIOUS
  <2>1. ASSUME NEW i \in DOMAIN epochs.done
        PROVE  epochs.done[i].groups = {[ex |-> x, step |-> epochs.done[i].key] : x \in Example}
    <3> DEFINE k == epochs.done[i].key
    <3>1. k \in Nat /\ epochs.done[i].groups = EpochOf(k)
      <4>1. epochs.done \in Seq([key : Nat, groups : SUBSET Item])
        BY DEF EpochInv, EpochTypes
      <4>2. epochs.done[i] \in [key : Nat, groups : SUBSET Item]
        <5>1. \A S : epochs.done \in Seq(S) => epochs.done[i] \in S
          OBVIOUS
        <5> QED
          BY <4>1, <5>1
      <4> QED
        BY <4>2 DEF EpochInv, DoneWhole
    <3> HIDE DEF k
    <3>2. EpochOf(k) = {[ex |-> x, step |-> k] : x \in Example}
      BY <3>1 DEF EpochOf, Item
    <3> QED
      BY <3>1, <3>2 DEF k
  <2> QED
    BY <2>1 DEF EpochInv, DoneWhole, EpochsWhole
<1> QED
  BY <1>1, <1>2, InitEpochs, TypesHold, PTL DEF Spec

-----------------------------------------------------------------------------
(* Induction over the length of a sequence.  A function given by recursion *)
(* over 0..n is what its equation says, as soon as one such function       *)
(* exists.                                                                 *)

Less == {p \in Nat \X Nat : p[1] < p[2]}

\* A set that has 0 and with each number the next, up to n, has all up to n.
LEMMA Climb ==
    ASSUME NEW n \in Nat, NEW P, 0 \in P, \A i \in 1..n : i - 1 \in P => i \in P
    PROVE  \A i \in 0..n : i \in P
<1> SUFFICES ASSUME NEW i \in 0..n, i \notin P PROVE FALSE
  OBVIOUS
<1> DEFINE T == {k \in 0..n : k \notin P}
<1>1. IsWellFoundedOn(Less, Nat)
  BY NatLessThanWellFounded, Zenon DEF OpToRel, Less
<1>2. T \subseteq Nat /\ T # {}
  OBVIOUS
<1>3. PICK x \in T : \A y \in T : <<y, x>> \notin Less
  <2> HIDE DEF T
  <2> QED
    BY <1>1, <1>2, WFMin
<1>4. x \in 1..n /\ x \notin P
  OBVIOUS
<1>5. x - 1 \notin T
  <2>1. <<x - 1, x>> \in Nat \X Nat /\ <<x - 1, x>>[1] = x - 1 /\ <<x - 1, x>>[2] = x
    BY <1>4
  <2>2. <<x - 1, x>> \in Less
    BY <1>4, <2>1 DEF Less
  <2> HIDE DEF T
  <2> QED
    BY <1>3, <2>2
<1> QED
  BY <1>4, <1>5

\* g begins with v, and goes on by f from each value to the next.
Follows(g, n, v, f) == g[0] = v /\ \A i \in 1..n : g[i] = f[<<i, g[i - 1]>>]

LEMMA RecursionExists ==
    ASSUME NEW n \in Nat, NEW V, NEW v \in V, NEW f \in [(1..n) \X V -> V]
    PROVE  \E g \in [0..n -> V] : Follows(g, n, v, f)
<1> DEFINE Is(g, m) == Follows(g, m, v, f)
           P == {m \in 0..n : \E g \in [0..m -> V] : Is(g, m)}
<1>1. 0 \in P
  <2>1. [i \in 0..0 |-> v] \in [0..0 -> V] /\ Is([i \in 0..0 |-> v], 0)
    BY DEF Follows
  <2> HIDE DEF Is
  <2> QED
    BY <2>1
<1>2. ASSUME NEW m \in 1..n, m - 1 \in P PROVE m \in P
  <2>1. PICK g \in [0..(m - 1) -> V] : Is(g, m - 1)
    BY <1>2
  <2> DEFINE h == [i \in 0..m |-> IF i = m THEN f[<<m, g[m - 1]>>] ELSE g[i]]
  <2>2. /\ h[0] = v /\ h[m] = f[<<m, g[m - 1]>>]
        /\ \A i \in 0..(m - 1) : h[i] = g[i]
    BY <2>1 DEF Follows
  <2>3. h \in [0..m -> V]
    <3>1. g[m - 1] \in V /\ <<m, g[m - 1]>> \in (1..n) \X V
      OBVIOUS
    <3>2. f[<<m, g[m - 1]>>] \in V
      BY <3>1
    <3> QED
      BY <3>2
  <2> HIDE DEF h
  <2>4. ASSUME NEW i \in 1..m PROVE h[i] = f[<<i, h[i - 1]>>]
    <3>1. CASE i = m
      <4>1. m - 1 \in 0..(m - 1) /\ h[m - 1] = g[m - 1]
        BY <2>2
      <4> QED
        BY <2>2, <3>1, <4>1
    <3>2. CASE i \in 1..(m - 1)
      <4>1. i \in 0..(m - 1) /\ i - 1 \in 0..(m - 1)
        BY <3>2
      <4>2. g[i] = f[<<i, g[i - 1]>>]
        BY <2>1, <3>2 DEF Follows
      <4> QED
        BY <2>2, <4>1, <4>2
    <3> QED
      BY <3>1, <3>2
  <2>5. Is(h, m)
    BY <2>2, <2>4 DEF Follows
  <2> HIDE DEF Is
  <2> QED
    BY <2>3, <2>5
<1>3. \A i \in 0..n : i \in P
  <2> HIDE DEF P
  <2> QED
    BY <1>1, <1>2, Climb
<1>4. n \in P
  <2>1. n \in 0..n
    OBVIOUS
  <2> HIDE DEF P
  <2> QED
    BY <1>3, <2>1
<1> QED
  BY <1>4

-----------------------------------------------------------------------------
(* Sequences of rollouts: token totals, cuts, and what is kept of a group. *)

LEMMA TotalsAre ==
    ASSUME NEW s \in Seq(Rollout)
    PROVE  /\ Totals(s) \in [0..Len(s) -> Nat] /\ Totals(s)[0] = 0
           /\ \A i \in 1..Len(s) : /\ s[i].tokens \in {1, 2}
                                   /\ Totals(s)[i] = Totals(s)[i - 1] + s[i].tokens
<1> DEFINE n == Len(s)
           f == [p \in (1..n) \X Nat |-> p[2] + s[p[1]].tokens]
<1>1. n \in Nat /\ \A i \in 1..n : s[i] \in Rollout
  OBVIOUS
<1>2. \A i \in 1..n : s[i].tokens \in {1, 2}
  BY <1>1 DEF Rollout
<1> HIDE DEF n
<1>3. f \in [(1..n) \X Nat -> Nat] /\ \A i \in 1..n, k \in Nat : f[<<i, k>>] = k + s[i].tokens
  BY <1>2
<1> HIDE DEF f
<1>4. PICK g \in [0..n -> Nat] : Follows(g, n, 0, f)
  <2>1. 0 \in Nat
    OBVIOUS
  <2> QED
    BY <1>1, <1>3, <2>1, RecursionExists, Zenon
<1>5. ASSUME NEW i \in 1..n PROVE i - 1 \in 0..n /\ g[i] = g[i - 1] + s[i].tokens
  <2>1. i - 1 \in 0..n
    BY <1>1
  <2>2. g[i - 1] \in Nat
    BY <2>1
  <2> QED
    BY <1>3, <1>4, <2>1, <2>2 DEF Follows
<1>6. g = [i \in 0..n |-> IF i = 0 THEN 0 ELSE g[i - 1] + s[i].tokens]
  BY <1>1, <1>4, <1>5 DEF Follows
<1>7. Totals(s) = [i \in 0..n |-> IF i = 0 THEN 0 ELSE Totals(s)[i - 1] + s[i].tokens]
  BY <1>6 DEF Totals, n
<1>8. /\ Totals(s)[0] = 0 /\ DOMAIN Totals(s) = 0..n
      /\ \A i \in 1..n : Totals(s)[i] = Totals(s)[i - 1] + s[i].tokens
  <2> DEFINE t == Totals(s)
  <2>1. t = [i \in 0..n |-> IF i = 0 THEN 0 ELSE t[i - 1] + s[i].tokens]
    BY <1>7
  <2> HIDE DEF t
  <2>2. /\ t[0] = 0 /\ DOMAIN t = 0..n
        /\ \A i \in 1..n : t[i] = t[i - 1] + s[i].tokens
    BY <1>1, <2>1
  <2> QED
    BY <2>2 DEF t
<1>9. \A i \in 0..n : i \in {k \in 0..n : Totals(s)[k] \in Nat}
  <2> DEFINE P == {k \in 0..n : Totals(s)[k] \in Nat}
  <2>1. 0 \in P
    BY <1>1, <1>8
  <2>2. \A i \in 1..n : i - 1 \in P => i \in P
    <3> SUFFICES ASSUME NEW i \in 1..n, Totals(s)[i - 1] \in Nat PROVE i \in P
      OBVIOUS
    <3>1. s[i].tokens \in Nat /\ Totals(s)[i] = Totals(s)[i - 1] + s[i].tokens
      BY <1>2, <1>8
    <3>2. \A a, b \in Nat : a + b \in Nat
      OBVIOUS
    <3>3. Totals(s)[i] \in Nat
      BY <3>1, <3>2, Zenon
    <3> QED
      BY <1>1, <3>3
  <2> HIDE DEF P
  <2>3. \A i \in 0..n : i \in P
    BY <1>1, <2>1, <2>2, Climb
  <2> QED
    BY <2>3 DEF P
<1>10. Totals(s) \in [0..n -> Nat]
  <2>1. Totals(s) = [i \in 0..n |-> Totals(s)[i]]
    BY <1>7
  <2> QED
    BY <1>9, <2>1
<1> QED
  BY <1>2, <1>8, <1>10 DEF n

\* The totals of a prefix are those of the whole.
LEMMA TotalsOfPrefix ==
    ASSUME NEW s \in Seq(Rollout), NEW t \in Seq(Rollout), NEW n \in 0..Len(s), n <= Len(t),
           \A i \in 1..n : s[i] = t[i]
    PROVE  \A i \in 0..n : Totals(s)[i] = Totals(t)[i]
<1> DEFINE P == {i \in 0..n : Totals(s)[i] = Totals(t)[i]}
<1>1. 0 \in P
  BY TotalsAre
<1>2. ASSUME NEW i \in 1..n, i - 1 \in P PROVE i \in P
  <2>1. i \in 1..Len(s) /\ i \in 1..Len(t) /\ s[i] = t[i]
    OBVIOUS
  <2>2. /\ Totals(s)[i] = Totals(s)[i - 1] + s[i].tokens
        /\ Totals(t)[i] = Totals(t)[i - 1] + t[i].tokens
    BY <2>1, TotalsAre
  <2>3. Totals(s)[i - 1] = Totals(t)[i - 1]
    BY <1>2
  <2> QED
    BY <2>1, <2>2, <2>3
<1>3. \A i \in 0..n : i \in P
  <2> HIDE DEF P
  <2>1. n \in Nat
    OBVIOUS
  <2> QED
    BY <1>1, <1>2, <2>1, Climb
<1> QED
  BY <1>3

\* The totals of a concatenation go on from the total of its first part.
LEMMA TotalsOfCat ==
    ASSUME NEW s \in Seq(Rollout), NEW t \in Seq(Rollout)
    PROVE  /\ s \o t \in Seq(Rollout) /\ Len(s \o t) = Len(s) + Len(t)
           /\ Tokens(s \o t) = Tokens(s) + Tokens(t)
<1> DEFINE u == s \o t
           m == Len(s)
           n == Len(t)
           P == {i \in 0..n : Totals(u)[m + i] = Totals(s)[m] + Totals(t)[i]}
<1>1. /\ u \in Seq(Rollout) /\ Len(u) = m + n /\ m \in Nat /\ n \in Nat
      /\ \A i \in 1..m : u[i] = s[i]
      /\ \A i \in 1..n : u[m + i] = t[i]
  OBVIOUS
<1> HIDE DEF u
<1>2. Totals(s)[m] \in Nat /\ Totals(t)[0] = 0 /\ \A i \in 0..n : Totals(t)[i] \in Nat
  <2>1. /\ Totals(s) \in [0..m -> Nat] /\ m \in 0..m
        /\ Totals(t) \in [0..n -> Nat] /\ Totals(t)[0] = 0
    BY <1>1, TotalsAre
  <2> QED
    BY <2>1
<1>3. 0 \in P
  <2>1. Totals(u)[m] = Totals(s)[m]
    <3>1. m \in 0..Len(u) /\ m \in 0..Len(s) /\ m <= Len(s)
      BY <1>1
    <3>2. \A i \in 0..m : Totals(u)[i] = Totals(s)[i]
      BY <1>1, <3>1, TotalsOfPrefix
    <3> QED
      BY <3>1, <3>2
  <2> QED
    BY <1>1, <1>2, <2>1
<1>4. ASSUME NEW i \in 1..n, i - 1 \in P PROVE i \in P
  <2>1. m + i \in 1..Len(u) /\ i \in 1..Len(t) /\ u[m + i] = t[i] /\ (m + i) - 1 = m + (i - 1)
    BY <1>1
  <2>2. /\ Totals(u)[m + i] = Totals(u)[m + (i - 1)] + t[i].tokens
        /\ Totals(t)[i] = Totals(t)[i - 1] + t[i].tokens
        /\ t[i].tokens \in {1, 2}
    <3>1. Totals(u)[m + i] = Totals(u)[(m + i) - 1] + u[m + i].tokens
      BY <1>1, <2>1, TotalsAre
    <3>2. /\ Totals(t)[i] = Totals(t)[i - 1] + t[i].tokens
          /\ t[i].tokens \in {1, 2}
      BY <2>1, TotalsAre
    <3> QED
      BY <2>1, <3>1, <3>2
  <2>3. Totals(u)[m + (i - 1)] = Totals(s)[m] + Totals(t)[i - 1] /\ Totals(t)[i - 1] \in Nat
    BY <1>2, <1>4
  <2> DEFINE a == Totals(s)[m]
             b == Totals(t)[i - 1]
             c == t[i].tokens
  <2>4. /\ a \in Nat /\ b \in Nat /\ c \in Nat
        /\ Totals(u)[m + i] = (a + b) + c /\ Totals(t)[i] = b + c
    BY <1>2, <2>2, <2>3
  <2>5. Totals(u)[m + i] = a + Totals(t)[i]
    <3> HIDE DEF a, b, c
    <3> QED
      BY <2>4
  <2> QED
    BY <2>5
<1>5. \A i \in 0..n : i \in P
  <2> HIDE DEF P
  <2> QED
    BY <1>1, <1>3, <1>4, Climb
<1>6. Totals(u)[m + n] = Totals(s)[m] + Totals(t)[n]
  BY <1>1, <1>5
<1> QED
  BY <1>1, <1>6 DEF Tokens, u

\* Totals grow.
LEMMA TotalsGrow ==
    ASSUME NEW s \in Seq(Rollout), NEW i \in 0..Len(s), NEW j \in 0..Len(s), i <= j
    PROVE  Totals(s)[i] <= Totals(s)[j]
<1> DEFINE P == {k \in 0..Len(s) : k >= i => Totals(s)[i] <= Totals(s)[k]}
<1>1. \A k \in 0..Len(s) : Totals(s)[k] \in Nat
  BY TotalsAre
<1>2. 0 \in P
  BY <1>1
<1>3. ASSUME NEW k \in 1..Len(s), k - 1 \in P PROVE k \in P
  <2>1. CASE k <= i
    BY <1>1, <2>1
  <2>2. CASE k > i
    <3>1. Totals(s)[k] = Totals(s)[k - 1] + s[k].tokens /\ s[k].tokens \in {1, 2}
      BY TotalsAre
    <3>2. Totals(s)[i] <= Totals(s)[k - 1]
      BY <1>3, <2>2
    <3> QED
      BY <1>1, <3>1, <3>2
  <2> QED
    BY <2>1, <2>2
<1>4. \A k \in 0..Len(s) : k \in P
  <2> HIDE DEF P
  <2>1. Len(s) \in Nat
    OBVIOUS
  <2> QED
    BY <1>2, <1>3, <2>1, Climb
<1> QED
  BY <1>4

\* A sequence cut in two.
LEMMA SplitAt ==
    ASSUME NEW S, NEW p \in Seq(S), NEW n \in 0..Len(p)
    PROVE  LET s == SubSeq(p, 1, n)
               t == SubSeq(p, n + 1, Len(p))
           IN  /\ s \in Seq(S) /\ Len(s) = n /\ \A i \in 1..n : s[i] = p[i]
               /\ t \in Seq(S) /\ Len(t) = Len(p) - n
               /\ \A i \in 1..(Len(p) - n) : t[i] = p[n + i]
               /\ s \o t = p
<1> DEFINE s == SubSeq(p, 1, n)
           t == SubSeq(p, n + 1, Len(p))
<1>1. s \in Seq(S) /\ Len(s) = n /\ \A i \in 1..n : s[i] = p[i]
  OBVIOUS
<1>2. /\ t \in Seq(S) /\ Len(t) = Len(p) - n
      /\ \A i \in 1..(Len(p) - n) : t[i] = p[n + i]
  OBVIOUS
<1> HIDE DEF s, t
<1>3. s \o t = p
  <2>1. n \in (1 - 1)..Len(p) /\ Len(p) \in n..Len(p) /\ 1 \in 1..(Len(p) + 1)
    OBVIOUS
  <2>2. SubSeq(p, 1, n) \o SubSeq(p, n + 1, Len(p)) = SubSeq(p, 1, Len(p))
    BY <2>1, ConcatAdjacentSubSeq, Zenon
  <2> QED
    BY <2>2, SubSeqFull DEF s, t
<1> QED
  BY <1>1, <1>2, <1>3 DEF s, t

\* A batch that is popped is as large as it has to be, and no larger.
LEMMA CutFits ==
    ASSUME config \in ConfigType, NEW p \in Seq(Rollout), NEW tokens \in Nat,
           config.unit = "tokens" => tokens = Tokens(p), Enough(p, tokens)
    PROVE  /\ Cut(p) \in 1..Len(p) /\ Len(SubSeq(p, 1, Cut(p))) = Cut(p)
           /\ Cut(SubSeq(p, 1, Cut(p))) = Cut(p)
<1> DEFINE n == Cut(p)
           b == SubSeq(p, 1, n)
<1>1. config.unit \in {"rollouts", "tokens"} /\ config.target \in Nat \ {0} /\ Len(p) \in Nat
  BY DEF ConfigType
<1>2. CASE config.unit = "rollouts"
  <2>1. n = config.target /\ n <= Len(p)
    BY <1>2 DEF Enough, Cut
  <2>2. n \in 1..Len(p)
    BY <1>1, <2>1
  <2>3. Len(b) = n
    <3> HIDE DEF n
    <3> QED
      BY <2>2
  <2>4. Cut(b) = config.target
    BY <1>2 DEF Cut
  <2> QED
    BY <2>1, <2>2, <2>3, <2>4
<1>3. CASE config.unit = "tokens"
  <2> DEFINE Passes(s, k) == Totals(s)[k] >= config.target /\ Totals(s)[k - 1] < config.target
  <2>1. \A k \in 0..Len(p) : Totals(p)[k] \in Nat
    BY TotalsAre
  \* The totals pass the target somewhere.
  <2>2. \E k \in 1..Len(p) : Passes(p, k)
    <3> SUFFICES ASSUME ~ \E k \in 1..Len(p) : Passes(p, k) PROVE FALSE
      OBVIOUS
    <3> DEFINE P == {k \in 0..Len(p) : Totals(p)[k] < config.target}
    <3>1. 0 \in P
      <4>1. Totals(p)[0] = 0
        BY TotalsAre
      <4> QED
        BY <1>1, <4>1
    <3>2. \A k \in 1..Len(p) : k - 1 \in P => k \in P
      <4> SUFFICES ASSUME NEW k \in 1..Len(p), k - 1 \in P PROVE k \in P
        OBVIOUS
      <4>1. ~(Totals(p)[k] >= config.target) /\ Totals(p)[k] \in Nat
        BY <2>1
      <4> QED
        BY <1>1, <4>1
    <3>3. \A k \in 0..Len(p) : k \in P
      <4> HIDE DEF P
      <4> QED
        BY <1>1, <3>1, <3>2, Climb
    <3>4. Totals(p)[Len(p)] < config.target
      BY <1>1, <3>3
    <3> QED
      BY <1>1, <1>3, <2>1, <3>4 DEF Enough, Tokens
  <2>3. n = CHOOSE k \in 1..Len(p) : Passes(p, k)
    BY <1>3 DEF Cut
  <2>4. n \in 1..Len(p) /\ Passes(p, n)
    <3> HIDE DEF Passes
    <3> QED
      BY <2>2, <2>3
  <2> HIDE DEF n
  <2>5. b \in Seq(Rollout) /\ Len(b) = n /\ \A i \in 1..n : b[i] = p[i]
    BY <2>4
  <2> HIDE DEF b
  <2>6. \A i \in 0..n : Totals(b)[i] = Totals(p)[i]
    BY <2>4, <2>5, TotalsOfPrefix
  \* They pass it only once.
  <2>7. ASSUME NEW k \in 1..n, Passes(b, k) PROVE k = n
    <3> SUFFICES ASSUME k < n PROVE FALSE
      BY <2>4
    <3>1. k \in 0..Len(p) /\ n - 1 \in 0..Len(p) /\ k <= n - 1 /\ k \in 0..n
      BY <2>4
    <3>2. Totals(p)[k] <= Totals(p)[n - 1]
      BY <3>1, TotalsGrow
    <3>3. Totals(b)[k] = Totals(p)[k]
      BY <2>6, <3>1
    <3> QED
      BY <1>1, <2>1, <2>4, <2>7, <3>1, <3>2, <3>3
  <2>8. n \in 1..n /\ Passes(b, n)
    <3>1. n \in 0..n /\ n - 1 \in 0..n /\ n \in 1..n
      BY <2>4
    <3> QED
      BY <2>4, <2>6, <3>1
  <2>9. Cut(b) = CHOOSE k \in 1..n : Passes(b, k)
    BY <1>3, <2>5 DEF Cut
  <2>10. Cut(b) = n
    <3> HIDE DEF Passes
    <3> QED
      BY <2>7, <2>8, <2>9
  <2> QED
    BY <2>4, <2>5, <2>10 DEF n, b
<1> QED
  BY <1>1, <1>2, <1>3

\* What is kept of a group is members of it that may train, each once.
LEMMA KeptOf ==
    ASSUME NEW q \in Seq(Rollout), IsInjective(q)
    PROVE  /\ Kept(q) \in Seq(Rollout) /\ IsInjective(Kept(q))
           /\ \A j \in 1..Len(Kept(q)) :
                 \E k \in 1..Len(q) : Kept(q)[j] = q[k] /\ q[k].fate \in {"ok", "post"}
<1> DEFINE n == Len(q)
           f == [p \in (1..n) \X Seq(Rollout) |->
                    IF q[p[1]].fate \in {"error", "pre"} THEN p[2] ELSE Append(p[2], q[p[1]])]
           Next1(i, t) == IF q[i].fate \in {"error", "pre"} THEN t ELSE Append(t, q[i])
<1>1. n \in Nat /\ \A i \in 1..n : q[i] \in Rollout /\ q[i].fate \in Fate
  <2>1. \A i \in 1..n : q[i] \in Rollout
    OBVIOUS
  <2> QED
    BY <2>1 DEF Rollout
<1>2. \A i \in 1..n, k \in 1..n : q[i] = q[k] => i = k
  BY DEF IsInjective
<1> HIDE DEF n
<1>3. /\ f \in [(1..n) \X Seq(Rollout) -> Seq(Rollout)]
      /\ \A i \in 1..n, t \in Seq(Rollout) : f[<<i, t>>] = Next1(i, t)
  BY <1>1
<1> HIDE DEF f, Next1
<1>4. PICK g \in [0..n -> Seq(Rollout)] : Follows(g, n, <<>>, f)
  <2>1. <<>> \in Seq(Rollout)
    OBVIOUS
  <2> QED
    BY <1>1, <1>3, <2>1, RecursionExists, Zenon
<1>5. ASSUME NEW i \in 1..n PROVE i - 1 \in 0..n /\ g[i] = Next1(i, g[i - 1])
  <2>1. i - 1 \in 0..n
    BY <1>1
  <2>2. g[i - 1] \in Seq(Rollout)
    BY <2>1
  <2>3. g[i] = f[<<i, g[i - 1]>>]
    BY <1>4 DEF Follows
  <2> QED
    BY <1>3, <2>1, <2>2, <2>3
<1> DEFINE Eq(h) == h = [i \in 0..n |-> IF i = 0 THEN <<>> ELSE Next1(i, h[i - 1])]
<1>6. Eq(g)
  BY <1>1, <1>4, <1>5 DEF Follows
<1>7. PICK h : Eq(h) /\ Kept(q) = h[n]
  <2> DEFINE h == CHOOSE h : Eq(h)
  <2>1. Kept(q) = h[n]
    BY DEF Kept, n, Next1
  <2>2. Eq(h)
    <3> HIDE DEF Eq
    <3> QED
      BY <1>6
  <2> QED
    BY <2>1, <2>2
<1>8. h[0] = <<>> /\ \A i \in 1..n : h[i] = Next1(i, h[i - 1])
  BY <1>1, <1>7
<1> HIDE DEF Eq
<1> DEFINE Good(i, t) ==
        /\ t \in Seq(Rollout)
        /\ \A j \in 1..Len(t) : \E k \in 1..i : t[j] = q[k] /\ q[k].fate \in {"ok", "post"}
        /\ \A j, k \in 1..Len(t) : t[j] = t[k] => j = k
           P == {i \in 0..n : Good(i, h[i])}
<1>9. 0 \in P
  <2>1. <<>> \in Seq(Rollout) /\ Len(<<>>) = 0 /\ 0 \in 0..n
    BY <1>1
  <2>2. Good(0, <<>>)
    BY <2>1
  <2> HIDE DEF Good
  <2> QED
    BY <1>8, <2>1, <2>2
<1>10. ASSUME NEW i \in 1..n, i - 1 \in P PROVE i \in P
  <2> DEFINE t == h[i - 1]
             u == h[i]
  <2>1. Good(i - 1, t) /\ i \in 0..n /\ u = Next1(i, t)
    BY <1>8, <1>10
  <2> HIDE DEF t, u
  <2>2. CASE q[i].fate \in {"error", "pre"}
    <3>1. u = t
      BY <2>1, <2>2 DEF Next1
    <3>2. Good(i, u)
      BY <1>1, <2>1, <3>1
    <3> HIDE DEF Good
    <3> QED
      BY <2>1, <3>2 DEF u
  <2>3. CASE q[i].fate \notin {"error", "pre"}
    <3>1. /\ u \in Seq(Rollout) /\ Len(u) = Len(t) + 1 /\ Len(t) \in Nat
          /\ \A j \in 1..Len(t) : u[j] = t[j]
          /\ u[Len(t) + 1] = q[i]
      BY <1>1, <2>1, <2>3 DEF Next1
    <3>2. q[i].fate \in {"ok", "post"}
      BY <1>1, <2>3 DEF Fate
    <3>3. \A j \in 1..Len(t) : t[j] # q[i]
      <4> SUFFICES ASSUME NEW j \in 1..Len(t) PROVE t[j] # q[i]
        OBVIOUS
      <4>1. PICK k \in 1..(i - 1) : t[j] = q[k]
        BY <2>1
      <4>2. k \in 1..n /\ k # i
        BY <1>1
      <4> QED
        BY <1>2, <4>1, <4>2
    <3>4. ASSUME NEW j \in 1..Len(u)
          PROVE  \E k \in 1..i : u[j] = q[k] /\ q[k].fate \in {"ok", "post"}
      <4>1. CASE j \in 1..Len(t)
        BY <2>1, <3>1, <4>1
      <4>2. CASE j = Len(t) + 1
        BY <3>1, <3>2, <4>2
      <4> QED
        BY <3>1, <4>1, <4>2
    <3>5. ASSUME NEW j \in 1..Len(u), NEW k \in 1..Len(u), u[j] = u[k] PROVE j = k
      <4>1. CASE j \in 1..Len(t) /\ k \in 1..Len(t)
        BY <2>1, <3>1, <3>5, <4>1
      <4>2. CASE j = Len(t) + 1 \/ k = Len(t) + 1
        BY <3>1, <3>3, <3>5, <4>2
      <4> QED
        BY <3>1, <4>1, <4>2
    <3>6. Good(i, u)
      BY <3>1, <3>4, <3>5
    <3> HIDE DEF Good
    <3> QED
      BY <2>1, <3>6 DEF u
  <2> QED
    BY <2>2, <2>3
<1>11. n \in P
  <2> HIDE DEF P
  <2>1. \A i \in 0..n : i \in P
    BY <1>1, <1>9, <1>10, Climb
  <2> QED
    BY <1>1, <2>1
<1>12. Good(n, Kept(q))
  BY <1>7, <1>11
<1>13. DOMAIN Kept(q) = 1..Len(Kept(q))
  BY <1>12
<1>14. IsInjective(Kept(q))
  BY <1>12, <1>13 DEF IsInjective
<1> QED
  BY <1>12, <1>14 DEF n

-----------------------------------------------------------------------------
(* What is shipped. *)

\* The batch in hand, until it is sent or given up.
Hand == IF lpc \in {"finalize", "send"} THEN batch ELSE <<>>

RolloutTypes ==
    /\ pendingBatch \in Seq(Rollout) /\ pendingTokens \in Nat /\ Hand \in Seq(Rollout)
    /\ shipped \in Seq([step : Nat, rollouts : Seq(Rollout), groups : Nat])

\* A group is collected until it is full, and then forgotten.
GroupsFill ==
    \A g \in Group :
        /\ Len(arrived[g]) <= Size
        /\ Len(pendingGroups[g]) = IF Len(arrived[g]) < Size THEN Len(arrived[g]) ELSE 0
        /\ \A i \in 1..Len(pendingGroups[g]) :
              /\ pendingGroups[g][i].g = g /\ pendingGroups[g][i].n = Size - i + 1
              /\ pendingGroups[g][i].fate = arrived[g][i]

\* r may train: its group is complete, and has lost no member if it must not.
MayTrain(r) ==
    /\ Len(arrived[r.g]) = Size /\ r.fate \in {"ok", "post"}
    /\ r.g \in Scored => "error" \notin ToSet(arrived[r.g])

Sold(i) == shipped[i].rollouts

\* What is pending, in hand or shipped may train.
OnlyComplete ==
    /\ \A r \in ToSet(pendingBatch) \cup ToSet(Hand) : MayTrain(r)
    /\ \A i \in 1..Len(shipped) : \A r \in ToSet(Sold(i)) : MayTrain(r)

\* No rollout is in two places: pending, in hand and each of the batches shipped
\* have none in common, and none has one twice.
InOnePlace ==
    /\ IsInjective(pendingBatch) /\ IsInjective(Hand)
    /\ ToSet(pendingBatch) \cap ToSet(Hand) = {}
    /\ \A i \in 1..Len(shipped) :
          /\ IsInjective(Sold(i))
          /\ ToSet(Sold(i)) \cap (ToSet(pendingBatch) \cup ToSet(Hand)) = {}
          /\ \A j \in 1..Len(shipped) : i # j => ToSet(Sold(i)) \cap ToSet(Sold(j)) = {}

\* Cut, of a configuration.
CutOf(c, s) ==
    IF c.unit = "rollouts" THEN c.target
    ELSE CHOOSE n \in 1..Len(s) : Totals(s)[n] >= c.target /\ Totals(s)[n - 1] < c.target

\* A batch is as large as it has to be, and none without a trainable rollout is
\* sent.
RightSize ==
    /\ lpc \in {"finalize", "send"} => Len(Hand) = CutOf(config, Hand)
    /\ lpc = "send" => Trainable(Hand)
    /\ \A i \in 1..Len(shipped) :
          /\ shipped[i].step = i - 1
          /\ Trainable(Sold(i)) /\ Len(Sold(i)) = CutOf(config, Sold(i))

ShipInv ==
    /\ RolloutTypes /\ GroupsFill /\ OnlyComplete /\ InOnePlace /\ RightSize
    /\ TokensCounted

LEMMA EmptyPlace == <<>> \in Seq(Rollout) /\ ToSet(<<>>) = {} /\ IsInjective(<<>>)
BY DEF ToSet, IsInjective

LEMMA PlacesCat ==
    ASSUME NEW S, NEW p \in Seq(S), NEW q \in Seq(S),
           IsInjective(p), IsInjective(q), ToSet(p) \cap ToSet(q) = {}
    PROVE  IsInjective(p \o q) /\ ToSet(p \o q) = ToSet(p) \cup ToSet(q)
<1>1. /\ Len(p) \in Nat /\ Len(q) \in Nat /\ DOMAIN (p \o q) = 1..(Len(p) + Len(q))
      /\ DOMAIN p = 1..Len(p) /\ DOMAIN q = 1..Len(q)
      /\ \A i \in 1..Len(p) : (p \o q)[i] = p[i]
      /\ \A i \in 1..Len(q) : (p \o q)[Len(p) + i] = q[i]
  OBVIOUS
<1> DEFINE u == p \o q
           m == Len(p)
<1> HIDE DEF u, m
<1>2. \A i \in DOMAIN u : \/ i \in DOMAIN p /\ u[i] = p[i]
                          \/ i - m \in DOMAIN q /\ u[i] = q[i - m] /\ i - m \in Int
  <2> TAKE i \in DOMAIN u
  <2>1. CASE i \in 1..m
    BY <1>1, <2>1 DEF u, m
  <2>2. CASE i \notin 1..m
    <3>1. i - m \in 1..Len(q) /\ m + (i - m) = i
      BY <1>1, <2>2 DEF u, m
    <3> QED
      BY <1>1, <3>1 DEF u, m
  <2> QED
    BY <2>1, <2>2
<1>3. ASSUME NEW i \in DOMAIN u, NEW j \in DOMAIN u, u[i] = u[j] PROVE i = j
  <2>1. i \in Int /\ j \in Int /\ m \in Int
    BY <1>1 DEF u, m
  <2>2. \A x, y : x \in DOMAIN p /\ y \in DOMAIN q => p[x] # q[y]
    BY DEF ToSet
  <2>3. CASE i \in DOMAIN p /\ u[i] = p[i] /\ j \in DOMAIN p /\ u[j] = p[j]
    BY <1>3, <2>3 DEF IsInjective
  <2>4. CASE /\ i - m \in DOMAIN q /\ u[i] = q[i - m]
             /\ j - m \in DOMAIN q /\ u[j] = q[j - m]
    <3>1. i - m = j - m
      BY <1>3, <2>4 DEF IsInjective
    <3> QED
      BY <2>1, <3>1
  <2> QED
    BY <1>2, <1>3, <2>2, <2>3, <2>4
<1>4. ToSet(u) \subseteq ToSet(p) \cup ToSet(q)
  BY <1>2 DEF ToSet
<1>5. ToSet(p) \subseteq ToSet(u)
  BY <1>1 DEF ToSet, u
<1>6. ToSet(q) \subseteq ToSet(u)
  <2> SUFFICES ASSUME NEW i \in DOMAIN q PROVE q[i] \in ToSet(u)
    BY DEF ToSet
  <2>1. m + i \in DOMAIN u /\ u[m + i] = q[i]
    BY <1>1 DEF u, m
  <2> QED
    BY <2>1 DEF ToSet
<1> QED
  BY <1>3, <1>4, <1>5, <1>6 DEF IsInjective, u

LEMMA PlacesSplit ==
    ASSUME NEW S, NEW p \in Seq(S), IsInjective(p), NEW n \in 0..Len(p)
    PROVE  LET s == SubSeq(p, 1, n)
               t == SubSeq(p, n + 1, Len(p))
           IN  /\ IsInjective(s) /\ IsInjective(t) /\ ToSet(s) \cap ToSet(t) = {}
               /\ ToSet(s) \subseteq ToSet(p) /\ ToSet(t) \subseteq ToSet(p)
<1> DEFINE s == SubSeq(p, 1, n)
           t == SubSeq(p, n + 1, Len(p))
<1>1. /\ s \in Seq(S) /\ Len(s) = n /\ \A i \in 1..n : s[i] = p[i]
      /\ t \in Seq(S) /\ Len(t) = Len(p) - n
      /\ \A i \in 1..(Len(p) - n) : t[i] = p[n + i]
  BY SplitAt
<1> HIDE DEF s, t
<1>2. /\ n \in Nat /\ Len(p) \in Nat /\ DOMAIN p = 1..Len(p)
      /\ DOMAIN s = 1..n /\ DOMAIN t = 1..(Len(p) - n)
  BY <1>1
<1>3. /\ \A i \in DOMAIN s : i \in DOMAIN p /\ i <= n /\ s[i] = p[i]
      /\ \A i \in DOMAIN t : n + i \in DOMAIN p /\ n + i > n /\ t[i] = p[n + i]
  BY <1>1, <1>2
<1>4. \A i, j \in DOMAIN p : p[i] = p[j] => i = j
  BY DEF IsInjective
<1>5. IsInjective(s)
  BY <1>3, <1>4 DEF IsInjective
<1>6. IsInjective(t)
  <2> SUFFICES ASSUME NEW i \in DOMAIN t, NEW j \in DOMAIN t, t[i] = t[j] PROVE i = j
    BY DEF IsInjective
  <2>1. n + i = n + j
    BY <1>3, <1>4
  <2> QED
    BY <1>2, <2>1
<1>7. ToSet(s) \cap ToSet(t) = {}
  <2> SUFFICES ASSUME NEW i \in DOMAIN s, NEW j \in DOMAIN t, s[i] = t[j] PROVE FALSE
    BY DEF ToSet
  <2>1. i = n + j
    BY <1>3, <1>4
  <2> QED
    BY <1>2, <1>3, <2>1
<1>8. ToSet(s) \subseteq ToSet(p) /\ ToSet(t) \subseteq ToSet(p)
  BY <1>3 DEF ToSet
<1> QED
  BY <1>5, <1>6, <1>7, <1>8 DEF s, t

\* A rollout that the loop takes off the queue is of a group that is not full.
LEMMA GetTrainTakes ==
    ASSUME TypeInv, GetTrain
    PROVE  \E r \in Rollout : AddTrain(r) /\ r.n = Size - Len(arrived[r.g]) /\ r.n > 0
<1>1. PICK g \in Open, fate \in Fate, t \in {1, 2} :
         AddTrain([g |-> g, n |-> Due(g), fate |-> fate, tokens |-> t])
  BY DEF GetTrain
<1>2. g \in Group /\ Due(g) > 0
  BY DEF Open, TypeInv, GroupTypes
<1>3. Due(g) \in Int /\ Due(g) = Size - Len(arrived[g])
  BY <1>2 DEF Due, TypeInv, GroupTypes
<1> DEFINE r == [g |-> g, n |-> Due(g), fate |-> fate, tokens |-> t]
<1>4. r \in Rollout /\ r.g = g /\ r.n = Due(g)
  BY <1>2, <1>3 DEF Rollout
<1> HIDE DEF r
<1> QED
  BY <1>1, <1>2, <1>3, <1>4 DEF r

\* What becomes of the rollout's group: it goes on, or leaves what may train,
\* none of which was anywhere before.
LEMMA GroupStep ==
    ASSUME TypeInv, ShipInv, NEW r \in Rollout, AddTrain(r),
           r.n = Size - Len(arrived[r.g]), r.n > 0
    PROVE  LET group == Append(pendingGroups[r.g], r)
               kept == IF Full(group) THEN Survivors(r.g, group) ELSE <<>>
           IN  /\ kept \in Seq(Rollout) /\ IsInjective(kept)
               /\ \A x \in ToSet(kept) : ~MayTrain(x) /\ MayTrain(x)'
               /\ \A x : MayTrain(x) => MayTrain(x)'
               /\ GroupsFill'
<1> DEFINE g == r.g
           group == Append(pendingGroups[g], r)
           kept == IF Full(group) THEN Survivors(g, group) ELSE <<>>
<1>a. /\ g \in Group /\ r.fate \in Fate /\ pendingGroups[g] \in Seq(Rollout)
      /\ arrived[g] \in Seq(Fate)
  <2>1. g \in Group /\ r.fate \in Fate /\ r.n \in Int
    BY DEF Rollout
  <2> QED
    BY <2>1 DEF TypeInv, GroupTypes
<1>b. PICK L \in Nat : L = Len(arrived[g])
  BY <1>a
<1>1. /\ g \in Group /\ r.fate \in Fate /\ pendingGroups[g] \in Seq(Rollout)
      /\ arrived[g] \in Seq(Fate) /\ L \in Nat /\ L < Size /\ L = Len(arrived[g])
  <2>1. Size - L > 0
    BY <1>b
  <2> QED
    BY <1>a, <1>b, <2>1
<1>2. /\ Len(pendingGroups[g]) = L
      /\ \A i \in 1..L : /\ pendingGroups[g][i].g = g /\ pendingGroups[g][i].n = Size - i + 1
                         /\ pendingGroups[g][i].fate = arrived[g][i]
  BY <1>1 DEF ShipInv, GroupsFill
<1>3. /\ arrived' = [arrived EXCEPT ![g] = Append(@, r.fate)]
      /\ pendingGroups' = [pendingGroups EXCEPT ![g] = IF Full(group) THEN <<>> ELSE group]
  BY DEF AddTrain
<1>4. /\ group \in Seq(Rollout) /\ Len(group) = L + 1
      /\ \A i \in 1..L : group[i] = pendingGroups[g][i]
      /\ group[L + 1] = r
  BY <1>1, <1>2
<1>5. /\ arrived'[g] \in Seq(Fate) /\ Len(arrived'[g]) = L + 1
      /\ \A i \in 1..L : arrived'[g][i] = arrived[g][i]
      /\ arrived'[g][L + 1] = r.fate
      /\ \A h \in Group : h # g => arrived'[h] = arrived[h]
  <2>1. /\ arrived'[g] = Append(arrived[g], r.fate)
        /\ \A h \in Group : h # g => arrived'[h] = arrived[h]
    BY <1>1, <1>3 DEF TypeInv, GroupTypes
  <2> QED
    BY <1>1, <2>1
<1>6. /\ \A h \in Group : h # g => pendingGroups'[h] = pendingGroups[h]
      /\ pendingGroups'[g] = IF Full(group) THEN <<>> ELSE group
  BY <1>1, <1>3 DEF TypeInv, GroupTypes
<1>7. Full(group) <=> L + 1 = Size
  BY <1>1, <1>4 DEF Full
<1> HIDE DEF group
<1>8. \A i \in 1..(L + 1) : /\ group[i].g = g /\ group[i].n = Size - i + 1
                            /\ group[i].fate = arrived'[g][i]
  <2> TAKE i \in 1..(L + 1)
  <2>1. CASE i \in 1..L
    BY <1>2, <1>4, <1>5, <2>1
  <2>2. CASE i = L + 1
    <3>1. Size - L = Size - i + 1
      BY <1>1, <2>2
    <3>2. group[i] = r /\ arrived'[g][i] = r.fate
      BY <1>4, <1>5, <2>2
    <3> QED
      BY <1>1, <3>1, <3>2
  <2>3. i \in 1..L \/ i = L + 1
    BY <1>b
  <2> QED
    BY <2>1, <2>2, <2>3
<1>9. IsInjective(group)
  <2> SUFFICES ASSUME NEW i \in 1..(L + 1), NEW j \in 1..(L + 1), group[i] = group[j]
               PROVE  i = j
    <3>1. DOMAIN group = 1..(L + 1)
      BY <1>1, <1>4
    <3> QED
      BY <3>1 DEF IsInjective
  <2>1. Size - i + 1 = Size - j + 1
    BY <1>8
  <2> QED
    BY <1>1, <2>1
<1>10. GroupsFill'
  <2> SUFFICES ASSUME NEW h \in Group
      PROVE  /\ Len(arrived'[h]) <= Size
             /\ Len(pendingGroups'[h]) = IF Len(arrived'[h]) < Size THEN Len(arrived'[h]) ELSE 0
             /\ \A i \in 1..Len(pendingGroups'[h]) :
                   /\ pendingGroups'[h][i].g = h /\ pendingGroups'[h][i].n = Size - i + 1
                   /\ pendingGroups'[h][i].fate = arrived'[h][i]
    BY DEF GroupsFill
  <2>1. CASE h # g
    <3>1. pendingGroups'[h] = pendingGroups[h] /\ arrived'[h] = arrived[h]
      BY <1>5, <1>6, <2>1
    <3>2. /\ Len(arrived[h]) <= Size
          /\ Len(pendingGroups[h]) = IF Len(arrived[h]) < Size THEN Len(arrived[h]) ELSE 0
          /\ \A i \in 1..Len(pendingGroups[h]) :
                /\ pendingGroups[h][i].g = h /\ pendingGroups[h][i].n = Size - i + 1
                /\ pendingGroups[h][i].fate = arrived[h][i]
      BY DEF ShipInv, GroupsFill
    <3> QED
      BY <3>1, <3>2, Zenon
  <2>2. CASE h = g /\ L + 1 = Size
    <3>1. pendingGroups'[h] = <<>> /\ Len(arrived'[h]) = Size
      BY <1>5, <1>6, <1>7, <2>2
    <3>2. Len(<<>>) = 0 /\ 1..0 = {}
      OBVIOUS
    <3> QED
      BY <2>2, <3>1, <3>2
  <2>3. CASE h = g /\ L + 1 # Size
    <3>1. pendingGroups'[h] = group /\ L + 1 < Size
      BY <1>1, <1>6, <1>7, <2>3
    <3> QED
      BY <1>1, <1>4, <1>5, <1>8, <2>3, <3>1
  <2> QED
    BY <2>1, <2>2, <2>3
<1>11. ASSUME NEW x, MayTrain(x) PROVE MayTrain(x)'
  <2>1. arrived'[x.g] = arrived[x.g]
    <3>1. x.g # g
      BY <1>1, <1>11 DEF MayTrain
    <3> QED
      BY <1>3, <3>1 DEF TypeInv, GroupTypes
  <2> QED
    BY <1>11, <2>1 DEF MayTrain
<1>12. /\ kept \in Seq(Rollout) /\ IsInjective(kept)
       /\ \A x \in ToSet(kept) :
             /\ L + 1 = Size /\ x.g = g /\ x.fate \in {"ok", "post"}
             /\ g \in Scored => \A i \in 1..Size : group[i].fate # "error"
  <2>1. CASE kept = <<>>
    BY <2>1, EmptyPlace
  <2>2. CASE kept # <<>>
    <3>1. /\ L + 1 = Size /\ kept = Kept(group)
          /\ g \in Scored => \A i \in DOMAIN group : group[i].fate # "error"
      BY <1>7, <2>2 DEF Survivors
    <3>2. /\ kept \in Seq(Rollout) /\ IsInjective(kept)
          /\ \A j \in 1..Len(kept) :
                \E k \in 1..Len(group) : kept[j] = group[k] /\ group[k].fate \in {"ok", "post"}
      <4>1. /\ Kept(group) \in Seq(Rollout) /\ IsInjective(Kept(group))
            /\ \A j \in 1..Len(Kept(group)) :
                  \E k \in 1..Len(group) :
                     Kept(group)[j] = group[k] /\ group[k].fate \in {"ok", "post"}
        BY <1>4, <1>9, KeptOf, Zenon
      <4> HIDE DEF kept
      <4> QED
        BY <3>1, <4>1
    <3> HIDE DEF kept
    <3>3. ASSUME NEW x \in ToSet(kept) PROVE x.g = g /\ x.fate \in {"ok", "post"}
      <4>1. PICK j \in 1..Len(kept) : x = kept[j]
        BY <3>2 DEF ToSet
      <4>2. PICK k \in 1..(L + 1) : x = group[k] /\ group[k].fate \in {"ok", "post"}
        BY <1>4, <3>2, <4>1
      <4> QED
        BY <1>8, <4>2
    <3> QED
      BY <1>4, <3>1, <3>2, <3>3
  <2> QED
    BY <2>1, <2>2
<1> HIDE DEF kept
<1>13. ASSUME NEW x \in ToSet(kept) PROVE ~MayTrain(x) /\ MayTrain(x)'
  <2>1. /\ L + 1 = Size /\ x.g = g /\ x.fate \in {"ok", "post"}
        /\ g \in Scored => \A i \in 1..Size : group[i].fate # "error"
    BY <1>12
  <2>2. g \in Scored => "error" \notin ToSet(arrived'[g])
    <3> SUFFICES ASSUME g \in Scored, NEW i \in DOMAIN arrived'[g], arrived'[g][i] = "error"
                 PROVE  FALSE
      BY DEF ToSet
    <3>1. i \in 1..(L + 1)
      BY <1>5
    <3> QED
      BY <1>8, <2>1, <3>1
  <2> QED
    BY <1>1, <1>5, <2>1, <2>2 DEF MayTrain
<1> QED
  BY <1>10, <1>11, <1>12, <1>13 DEF kept, group

LEMMA TokensAre == ASSUME NEW s \in Seq(Rollout) PROVE Tokens(s) \in Nat
<1>1. Totals(s) \in [0..Len(s) -> Nat] /\ Len(s) \in 0..Len(s)
  BY TotalsAre
<1> QED
  BY <1>1 DEF Tokens

LEMMA NoTokens == Tokens(<<>>) = 0
<1>1. <<>> \in Seq(Rollout) /\ Len(<<>>) = 0
  OBVIOUS
<1> QED
  BY <1>1, TotalsAre DEF Tokens

\* A rollout reaches the sink: what it adds to the pending rollouts is new, and
\* what is popped of them is a batch.
LEMMA GetTrainShips ==
    ASSUME TypeInv, ShipInv, GetTrain
    PROVE  ShipInv'
<1>1. PICK r \in Rollout : AddTrain(r) /\ r.n = Size - Len(arrived[r.g]) /\ r.n > 0
  BY GetTrainTakes
<1> DEFINE group == Append(pendingGroups[r.g], r)
           kept == IF Full(group) THEN Survivors(r.g, group) ELSE <<>>
           pending == pendingBatch \o kept
           tokens == IF config.unit = "tokens" THEN pendingTokens + Tokens(kept)
                     ELSE pendingTokens
           n == Cut(pending)
<1>2. /\ kept \in Seq(Rollout) /\ IsInjective(kept)
      /\ \A x \in ToSet(kept) : ~MayTrain(x) /\ MayTrain(x)'
      /\ \A x : MayTrain(x) => MayTrain(x)'
      /\ GroupsFill'
  BY <1>1, GroupStep
<1>3. \/ /\ Enough(pending, tokens) /\ batch' = SubSeq(pending, 1, n)
         /\ pendingBatch' = SubSeq(pending, n + 1, Len(pending))
         /\ pendingTokens' = IF config.unit = "tokens"
                             THEN Remaining(tokens, SubSeq(pending, 1, n)) ELSE tokens
      \/ batch' = <<>> /\ pendingBatch' = pending /\ pendingTokens' = tokens
  BY <1>1 DEF AddTrain
<1>4. /\ UNCHANGED <<config, step, shipped>> /\ lpc = "get"
      /\ lpc' \in {"get", "finalize"} /\ (lpc' = "finalize" => batch' # <<>>)
  BY DEF GetTrain, MayShip
<1>5. config \in ConfigType
  BY DEF TypeInv, GroupTypes
<1> HIDE DEF group, kept
<1>6. /\ pending \in Seq(Rollout) /\ IsInjective(pending)
      /\ ToSet(pending) = ToSet(pendingBatch) \cup ToSet(kept)
      /\ Tokens(pending) = Tokens(pendingBatch) + Tokens(kept)
  <2>1. pendingBatch \in Seq(Rollout) /\ IsInjective(pendingBatch)
    BY DEF ShipInv, RolloutTypes, InOnePlace
  <2>2. ToSet(pendingBatch) \cap ToSet(kept) = {}
    BY <1>2 DEF ShipInv, OnlyComplete
  <2> QED
    BY <1>2, <2>1, <2>2, PlacesCat, TotalsOfCat
<1>7. /\ \A x \in ToSet(pending) : MayTrain(x)'
      /\ \A i \in 1..Len(shipped) :
            /\ ToSet(Sold(i)) \cap ToSet(pending) = {}
            /\ \A x \in ToSet(Sold(i)) : MayTrain(x)'
  BY <1>2, <1>6 DEF ShipInv, OnlyComplete, InOnePlace
<1>8. tokens \in Nat /\ (config.unit = "tokens" => tokens = Tokens(pending))
  <2>1. Tokens(kept) \in Nat /\ pendingTokens \in Nat
    BY <1>2, TokensAre DEF ShipInv, RolloutTypes
  <2>2. config.unit = "tokens" => pendingTokens = Tokens(pendingBatch)
    BY DEF ShipInv, TokensCounted
  <2> QED
    BY <1>6, <2>1, <2>2
<1> HIDE DEF pending, tokens
<1>9. /\ batch' \in Seq(Rollout) /\ pendingBatch' \in Seq(Rollout) /\ pendingTokens' \in Nat
      /\ IsInjective(batch') /\ IsInjective(pendingBatch')
      /\ ToSet(batch') \cap ToSet(pendingBatch') = {}
      /\ ToSet(batch') \subseteq ToSet(pending) /\ ToSet(pendingBatch') \subseteq ToSet(pending)
      /\ config.unit = "tokens" => pendingTokens' = Tokens(pendingBatch')
      /\ batch' # <<>> => Len(batch') = CutOf(config, batch')
  <2>1. CASE batch' = <<>> /\ pendingBatch' = pending /\ pendingTokens' = tokens
    BY <1>6, <1>8, <2>1, EmptyPlace
  <2>2. CASE /\ Enough(pending, tokens) /\ batch' = SubSeq(pending, 1, n)
             /\ pendingBatch' = SubSeq(pending, n + 1, Len(pending))
             /\ pendingTokens' = IF config.unit = "tokens"
                                 THEN Remaining(tokens, SubSeq(pending, 1, n)) ELSE tokens
    <3>1. /\ n \in 1..Len(pending) /\ Len(SubSeq(pending, 1, n)) = n
          /\ Cut(SubSeq(pending, 1, n)) = n
      BY <1>5, <1>6, <1>8, <2>2, CutFits
    <3>2. n \in 0..Len(pending)
      BY <3>1
    <3> HIDE DEF n
    <3>3. /\ batch' \in Seq(Rollout) /\ pendingBatch' \in Seq(Rollout)
          /\ batch' \o pendingBatch' = pending
      BY <1>6, <2>2, <3>2, SplitAt
    <3>4. /\ IsInjective(batch') /\ IsInjective(pendingBatch')
          /\ ToSet(batch') \cap ToSet(pendingBatch') = {}
          /\ ToSet(batch') \subseteq ToSet(pending)
          /\ ToSet(pendingBatch') \subseteq ToSet(pending)
      BY <1>6, <2>2, <3>2, PlacesSplit
    <3>5. Len(batch') = CutOf(config, batch')
      BY <2>2, <3>1 DEF Cut, CutOf
    <3>6. /\ pendingTokens' \in Nat
          /\ config.unit = "tokens" => pendingTokens' = Tokens(pendingBatch')
      <4>1. Tokens(pending) = Tokens(batch') + Tokens(pendingBatch')
        <5>1. Tokens(batch' \o pendingBatch') = Tokens(batch') + Tokens(pendingBatch')
          BY <3>3, TotalsOfCat
        <5> QED
          BY <3>3, <5>1
      <4>2. Tokens(batch') \in Nat /\ Tokens(pendingBatch') \in Nat
        BY <3>3, TokensAre
      <4>3. CASE config.unit = "tokens"
        <5>1. pendingTokens' = Tokens(pending) - Tokens(batch')
          BY <1>8, <2>2, <4>3 DEF Remaining
        <5> QED
          BY <4>1, <4>2, <5>1
      <4>4. CASE config.unit # "tokens"
        BY <1>8, <2>2, <4>4
      <4> QED
        BY <4>3, <4>4
    <3> QED
      BY <3>3, <3>4, <3>5, <3>6
  <2> QED
    BY <1>3, <2>1, <2>2
<1>10. Hand' = IF lpc' = "finalize" THEN batch' ELSE <<>>
  BY <1>4 DEF Hand
<1>11. /\ Hand' \in Seq(Rollout) /\ IsInjective(Hand') /\ ToSet(Hand') \subseteq ToSet(batch')
  <2>1. Hand' \in {batch', <<>>}
    BY <1>10
  <2> QED
    BY <1>9, <2>1, EmptyPlace
<1>12. RolloutTypes'
  BY <1>4, <1>9, <1>11 DEF ShipInv, RolloutTypes
<1>13. OnlyComplete'
  <2>1. \A x \in ToSet(pendingBatch') \cup ToSet(Hand') : MayTrain(x)'
    BY <1>7, <1>9, <1>11
  <2>2. \A i : Sold(i)' = Sold(i)
    BY <1>4 DEF Sold
  <2>3. \A i \in 1..Len(shipped') : \A x \in ToSet(Sold(i)') : MayTrain(x)'
    BY <1>4, <1>7, <2>2
  <2> QED
    BY <2>1, <2>3 DEF OnlyComplete
<1>14. InOnePlace'
  <2>1. \A i : Sold(i)' = Sold(i)
    BY <1>4 DEF Sold
  <2>2. ToSet(pendingBatch') \cap ToSet(Hand') = {}
    BY <1>9, <1>11
  <2>3. \A i \in 1..Len(shipped) :
           ToSet(Sold(i)) \cap (ToSet(pendingBatch') \cup ToSet(Hand')) = {}
    BY <1>7, <1>9, <1>11
  <2>4. \A i \in 1..Len(shipped) :
           /\ IsInjective(Sold(i))
           /\ \A j \in 1..Len(shipped) : i # j => ToSet(Sold(i)) \cap ToSet(Sold(j)) = {}
    BY DEF ShipInv, InOnePlace
  <2> QED
    BY <1>4, <1>9, <1>11, <2>1, <2>2, <2>3, <2>4 DEF InOnePlace
<1>15. RightSize'
  <2>1. \A i : Sold(i)' = Sold(i)
    BY <1>4 DEF Sold
  <2>2. lpc' \in {"finalize", "send"} => Len(Hand') = CutOf(config', Hand')
    BY <1>4, <1>9, <1>10
  <2> QED
    BY <1>4, <2>1, <2>2 DEF ShipInv, RightSize
<1>16. TokensCounted'
  BY <1>4, <1>9 DEF TokensCounted
<1> QED
  BY <1>2, <1>12, <1>13, <1>14, <1>15, <1>16 DEF ShipInv

\* A batch is sent: from the hand to what is shipped.
LEMMA SendShips ==
    ASSUME TypeInv, ShipInv, Send
    PROVE  ShipInv'
<1> DEFINE Entry == [step : Nat, rollouts : Seq(Rollout), groups : Nat]
           e == [step |-> step, rollouts |-> batch, groups |-> Cardinality(finalized)]
<1>1. /\ lpc = "send" /\ lpc' = "advance" /\ shipped' = Append(shipped, e)
      /\ UNCHANGED <<config, arrived, pendingGroups, pendingBatch, pendingTokens>>
  BY DEF Send, sink
<1>2. Hand = batch /\ Hand' = <<>>
  BY <1>1 DEF Hand
<1> PICK m \in Nat : m = Len(shipped)
  BY DEF ShipInv, RolloutTypes
<1>3. /\ shipped \in Seq(Entry) /\ batch \in Seq(Rollout) /\ step \in Nat /\ m = step
      /\ Cardinality(finalized) \in Nat
  BY <1>1, <1>2, FS_CardinalityType DEF ShipInv, RolloutTypes, TypeInv, LoopTypes, GroupTypes
<1>4. e \in Entry /\ e.step = step /\ e.rollouts = batch
  BY <1>3
<1> HIDE DEF Entry, e
<1>5. /\ shipped' \in Seq(Entry) /\ Len(shipped') = m + 1
      /\ \A i \in 1..m : shipped'[i] = shipped[i]
      /\ shipped'[m + 1] = e
  <2>0. shipped \in Seq(Entry) /\ e \in Entry
    BY <1>3, <1>4
  <2>1. /\ Append(shipped, e) \in Seq(Entry) /\ Len(Append(shipped, e)) = Len(shipped) + 1
        /\ \A i \in 1..Len(shipped) : Append(shipped, e)[i] = shipped[i]
        /\ Append(shipped, e)[Len(shipped) + 1] = e
    BY <2>0, AppendProperties
  <2> QED
    BY <1>1, <2>1
<1>6. /\ \A i \in 1..m : Sold(i)' = Sold(i)
      /\ \A i : i = m + 1 => Sold(i)' = batch
      /\ \A i \in 1..Len(shipped') : i \in 1..m \/ i = m + 1
  <2>1. \A i \in 1..Len(shipped') : i \in 1..m \/ i = m + 1
    BY <1>5
  <2> QED
    BY <1>4, <1>5, <2>1 DEF Sold
<1>7. RolloutTypes'
  BY <1>1, <1>2, <1>5, EmptyPlace DEF ShipInv, RolloutTypes, Entry
<1>8. GroupsFill' /\ TokensCounted'
  BY <1>1 DEF ShipInv, GroupsFill, TokensCounted
<1>9. OnlyComplete'
  <2>1. \A x : MayTrain(x) => MayTrain(x)'
    BY <1>1 DEF MayTrain
  <2>2. \A x \in ToSet(pendingBatch') \cup ToSet(Hand') : MayTrain(x)'
    BY <1>1, <1>2, <2>1, EmptyPlace DEF ShipInv, OnlyComplete
  <2>3. ASSUME NEW i \in 1..Len(shipped') PROVE \A x \in ToSet(Sold(i)') : MayTrain(x)'
    <3>1. CASE i \in 1..m
      BY <1>6, <2>1, <3>1 DEF ShipInv, OnlyComplete
    <3>2. CASE i = m + 1
      BY <1>2, <1>6, <2>1, <3>2 DEF ShipInv, OnlyComplete
    <3> QED
      BY <1>6, <3>1, <3>2
  <2> QED
    BY <2>2, <2>3 DEF OnlyComplete
<1>10. InOnePlace'
  <2>1. /\ IsInjective(pendingBatch') /\ IsInjective(Hand') /\ ToSet(Hand') = {}
    BY <1>1, <1>2, EmptyPlace DEF ShipInv, InOnePlace
  <2>2. /\ IsInjective(batch) /\ ToSet(batch) \cap ToSet(pendingBatch) = {}
        /\ \A i \in 1..m :
              /\ IsInjective(Sold(i))
              /\ ToSet(Sold(i)) \cap ToSet(batch) = {}
              /\ ToSet(Sold(i)) \cap ToSet(pendingBatch) = {}
              /\ \A j \in 1..m : i # j => ToSet(Sold(i)) \cap ToSet(Sold(j)) = {}
    BY <1>2 DEF ShipInv, InOnePlace
  <2>3. ASSUME NEW i \in 1..Len(shipped')
        PROVE  IsInjective(Sold(i)') /\ ToSet(Sold(i)') \cap ToSet(pendingBatch') = {}
    BY <1>1, <1>6, <2>2
  <2>4. ASSUME NEW i \in 1..Len(shipped'), NEW j \in 1..Len(shipped'), i # j
        PROVE  ToSet(Sold(i)') \cap ToSet(Sold(j)') = {}
    <3>1. CASE i \in 1..m /\ j \in 1..m
      BY <1>6, <2>2, <2>4, <3>1
    <3>2. CASE i \in 1..m /\ j = m + 1
      BY <1>6, <2>2, <3>2
    <3>3. CASE i = m + 1 /\ j \in 1..m
      BY <1>6, <2>2, <3>3
    <3> QED
      BY <1>6, <2>4, <3>1, <3>2, <3>3
  <2> QED
    BY <2>1, <2>3, <2>4 DEF InOnePlace
<1>11. RightSize'
  <2>1. /\ Trainable(batch) /\ Len(batch) = CutOf(config, batch)
        /\ \A i \in 1..m : /\ shipped[i].step = i - 1 /\ Trainable(Sold(i))
                           /\ Len(Sold(i)) = CutOf(config, Sold(i))
    BY <1>1, <1>2 DEF ShipInv, RightSize
  <2>2. ASSUME NEW i \in 1..Len(shipped')
        PROVE  /\ shipped'[i].step = i - 1 /\ Trainable(Sold(i)')
               /\ Len(Sold(i)') = CutOf(config', Sold(i)')
    <3>1. CASE i \in 1..m
      BY <1>1, <1>5, <1>6, <2>1, <3>1
    <3>2. CASE i = m + 1
      <4>1. shipped'[i].step = step /\ i - 1 = step
        BY <1>3, <1>4, <1>5, <3>2
      <4> QED
        BY <1>1, <1>6, <2>1, <3>2, <4>1
    <3> QED
      BY <1>6, <3>1, <3>2
  <2> QED
    BY <1>1, <2>2 DEF RightSize
<1> QED
  BY <1>7, <1>8, <1>9, <1>10, <1>11 DEF ShipInv

LEMMA InitShips == Init => ShipInv
<1> SUFFICES ASSUME Init PROVE ShipInv
  OBVIOUS
<1>1. /\ arrived = [g \in Group |-> <<>>] /\ pendingGroups = [g \in Group |-> <<>>]
      /\ pendingBatch = <<>> /\ pendingTokens = 0 /\ lpc = "get" /\ shipped = <<>>
  BY DEF Init
<1>2. Hand = <<>>
  BY <1>1 DEF Hand
<1>3. Len(<<>>) = 0 /\ 1..0 = {} /\ 0 \in Nat
  OBVIOUS
<1>4. RolloutTypes
  BY <1>1, <1>2, EmptyPlace DEF RolloutTypes
<1>5. GroupsFill
  BY <1>1, <1>3 DEF GroupsFill
<1>6. OnlyComplete /\ InOnePlace /\ RightSize
  BY <1>1, <1>2, <1>3, EmptyPlace DEF OnlyComplete, InOnePlace, RightSize
<1>7. TokensCounted
  BY <1>1, NoTokens DEF TokensCounted
<1> QED
  BY <1>4, <1>5, <1>6, <1>7 DEF ShipInv

LEMMA NextShips ==
    ASSUME TypeInv, ShipInv, [Next]_vars
    PROVE  ShipInv'
<1>1. CASE \/ OpenGroup \/ OpenExample \/ Finalize \/ Advance \/ GetEval \/ Exit
           \/ TrainerStep \/ UNCHANGED vars
  <2>1. /\ UNCHANGED <<config, arrived, pendingGroups, pendingBatch, pendingTokens, shipped>>
        /\ \/ Hand' = Hand /\ (lpc' \in {"finalize", "send"} => lpc \in {"finalize", "send"})
           \/ Hand' = <<>> /\ lpc' \notin {"finalize", "send"}
        /\ lpc' = "send" => lpc = "send" \/ Trainable(Hand')
    <3>1. CASE \/ OpenGroup \/ OpenExample \/ GetEval \/ TrainerStep \/ UNCHANGED vars
      BY <3>1 DEF OpenGroup, OpenExample, GetEval, TrainerStep, vars, sink, loop, Hand
    <3>2. CASE Finalize
      <4>1. /\ UNCHANGED <<config, arrived, pendingGroups, pendingBatch, pendingTokens,
                           batch, shipped>>
            /\ lpc = "finalize" /\ lpc' \in {"get", "send", "failed"}
            /\ lpc' = "send" => Trainable(batch)
        BY <3>2 DEF Finalize, sink
      <4> QED
        BY <4>1 DEF Hand
    <3>3. CASE Advance
      BY <3>3 DEF Advance, sink, Hand
    <3>4. CASE Exit
      BY <3>4 DEF Exit, sink, Hand
    <3> QED
      BY <1>1, <3>1, <3>2, <3>3, <3>4
  <2>2. \A i : Sold(i)' = Sold(i)
    BY <2>1 DEF Sold
  <2>3. \A x : MayTrain(x)' <=> MayTrain(x)
    BY <2>1 DEF MayTrain
  <2>4. /\ Hand' \in Seq(Rollout) /\ IsInjective(Hand') /\ ToSet(Hand') \subseteq ToSet(Hand)
    BY <2>1, EmptyPlace DEF ShipInv, RolloutTypes, InOnePlace
  <2>5. RolloutTypes' /\ GroupsFill' /\ TokensCounted'
    BY <2>1, <2>4 DEF ShipInv, RolloutTypes, GroupsFill, TokensCounted
  <2>6. OnlyComplete'
    <3>1. \A x \in ToSet(pendingBatch') \cup ToSet(Hand') : MayTrain(x)'
      BY <2>1, <2>3, <2>4 DEF ShipInv, OnlyComplete
    <3>2. \A i \in 1..Len(shipped') : \A x \in ToSet(Sold(i)') : MayTrain(x)'
      BY <2>1, <2>2, <2>3 DEF ShipInv, OnlyComplete
    <3> QED
      BY <3>1, <3>2 DEF OnlyComplete
  <2>7. InOnePlace'
    <3>1. IsInjective(pendingBatch') /\ ToSet(pendingBatch') \cap ToSet(Hand') = {}
      BY <2>1, <2>4 DEF ShipInv, InOnePlace
    <3>2. \A i \in 1..Len(shipped') :
             /\ IsInjective(Sold(i)')
             /\ ToSet(Sold(i)') \cap (ToSet(pendingBatch') \cup ToSet(Hand')) = {}
             /\ \A j \in 1..Len(shipped') : i # j => ToSet(Sold(i)') \cap ToSet(Sold(j)') = {}
      BY <2>1, <2>2, <2>4 DEF ShipInv, InOnePlace
    <3> QED
      BY <2>4, <3>1, <3>2 DEF InOnePlace
  <2>8. RightSize'
    BY <2>1, <2>2 DEF ShipInv, RightSize
  <2> QED
    BY <2>5, <2>6, <2>7, <2>8 DEF ShipInv
<1> QED
  BY <1>1, GetTrainShips, SendShips DEF Next, Dispatch, Loop

\* A rollout is shipped at most once, only of a complete group that may train
\* with the members it has lost, a shipped batch is trainable and of the right
\* size, and the running token total is exact (train_sink.py add, process_group,
\* process_batch, orchestrator.py finalize_train_batch).
THEOREM ShippedBatchesSound == Spec => []ShippedSound
<1>1. ShipInv /\ TypeInv /\ [Next]_vars => ShipInv'
  BY NextShips
<1>2. ShipInv => ShippedSound
  <2> SUFFICES ASSUME ShipInv PROVE ShippedSound
    OBVIOUS
  <2>1. DOMAIN shipped = 1..Len(shipped)
    BY DEF ShipInv, RolloutTypes
  <2>2. ASSUME NEW i \in DOMAIN shipped, NEW j \in DOMAIN shipped,
               NEW k \in DOMAIN Sold(i), NEW l \in DOMAIN Sold(j), Sold(i)[k] = Sold(j)[l]
        PROVE  i = j /\ k = l
    <3>1. i = j
      <4>1. Sold(i)[k] \in ToSet(Sold(i)) /\ Sold(i)[k] \in ToSet(Sold(j))
        BY <2>2 DEF ToSet
      <4> QED
        BY <2>1, <4>1 DEF ShipInv, InOnePlace
    <3>2. k = l
      BY <2>1, <2>2, <3>1 DEF ShipInv, InOnePlace, IsInjective
    <3> QED
      BY <3>1, <3>2
  <2>3. ASSUME NEW i \in DOMAIN shipped
        PROVE  /\ \A r \in ToSet(Sold(i)) :
                     /\ r.fate \in {"ok", "post"}
                     /\ r.g \in Scored => "error" \notin ToSet(arrived[r.g])
               /\ shipped[i].step = i - 1
               /\ Trainable(Sold(i))
               /\ Len(Sold(i)) = Cut(Sold(i))
    <3>1. Cut(Sold(i)) = CutOf(config, Sold(i))
      BY DEF Cut, CutOf
    <3> QED
      BY <2>1, <3>1 DEF ShipInv, OnlyComplete, MayTrain, RightSize
  <2> QED
    BY <2>2, <2>3 DEF ShippedSound, Sold, ShipInv
<1> QED
  BY <1>1, <1>2, InitShips, TypesHold, PTL DEF Spec
=============================================================================
