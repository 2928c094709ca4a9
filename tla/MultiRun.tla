------------------------------ MODULE MultiRun ------------------------------
(***************************************************************************)
(* One trainer serving several LoRA runs (trainer/runs.py, MultiPacker of  *)
(* trainer/rl/packer.py, the batch receivers of transport/, and the parts  *)
(* of the training loop that train and broadcast).                         *)
(*                                                                         *)
(* A run is a directory its owner creates, writes batches for and may      *)
(* delete at any time.  The master rank discovers runs on disk, gives each *)
(* a slot, buffers its samples and packs them; the other ranks learn of    *)
(* the runs at synchronize_state, once per training step.  What is indexed *)
(* by slot (adapter, buffers, progress, ready_to_update) outlives a run    *)
(* unless somebody resets it.  A directory created again under the same    *)
(* name is another incarnation of the run.                                 *)
(***************************************************************************)
EXTENDS Integers, Sequences, FiniteSets, FiniteSetsExt, Functions

CONSTANTS
    Run,            \* run ids
    MaxRuns,        \* slots (max_concurrent_runs)
    Transports,     \* subset of {"filesystem", "zmq"}
    Kinds,          \* kinds of batches, a subset of {"ok", "empty", "bad"}
    Starts,         \* values of config.ckpt.resume_step (0 for none)
    PerBatch,       \* samples of a batch; a sample is one unit of tokens
    Budget,         \* seq_len * dp_world_size, in the same unit
    Batches,        \* bound: batches an incarnation of each run sends
    MaxGen          \* bound: incarnations of a run id

ASSUME MultiRunAssumption ==
    /\ MaxRuns \in Nat \ {0, 1} /\ PerBatch \in Nat \ {0}
    /\ Budget \in Nat \ {0} /\ Batches \in [Run -> Nat] /\ MaxGen \in Nat \ {0}
    /\ Transports # {} /\ Transports \subseteq {"filesystem", "zmq"}
    /\ Kinds \subseteq {"ok", "empty", "bad"} /\ Starts \subseteq Nat

Slot == 1..MaxRuns
Rank == {"master", "other"}

\* The outside: what is on disk and on the wire.
VARIABLES
    transport,      \* chosen at start-up, never changed
    disk,           \* per run: its directory, incarnation and batch files
    wire            \* ZMQ messages not yet drained

\* The master rank.
VARIABLES
    mpc,            \* where the training loop is
    waited,         \* pack() has slept: more than TIMEOUT_SECONDS have passed
    idxOf,          \* id_2_idx, 0 for absent (idx_2_id is its inverse)
    progress,       \* progress[slot].step
    ready,          \* ready_to_update
    buffers,        \* samples per slot
    rrPos,          \* _round_robin_position
    received,       \* _received_steps (filesystem), -1 for absent
    pending,        \* _pending (zmq), per run id
    lastSynced,     \* _last_synced_id_2_idx
    grid            \* the micro batches of this step

VARIABLES
    rankIdx,        \* id_2_idx of the other ranks
    adapter,        \* history, per rank and slot: the incarnations whose
                    \* samples the parameters learnt from since their reset
    trained,        \* history: samples trained
    weights,        \* history: [run, gen, step] broadcast
    crashed         \* a failed assertion or a KeyError, "no" if none

outside == <<disk, wire>>
packer == <<buffers, rrPos, received, pending>>
ranks == <<lastSynced, rankIdx, adapter>>
vars == <<transport, outside, mpc, waited, idxOf, progress, ready, packer, ranks, grid,
          trained, weights, crashed>>

Init ==
    /\ transport \in Transports
    /\ disk = [r \in Run |-> [state |-> "none", evicted |-> FALSE, gen |-> 0,
                              start |-> 0, next |-> 0, files |-> {}]]
    /\ wire = <<>>
    /\ mpc = "discover" /\ waited = FALSE
    /\ idxOf = [r \in Run |-> 0] /\ lastSynced = idxOf /\ rankIdx = idxOf
    /\ progress = [s \in Slot |-> 0] /\ ready = [s \in Slot |-> FALSE]
    /\ buffers = [s \in Slot |-> <<>>] /\ rrPos = 1
    /\ received = [s \in Slot |-> -1] /\ pending = [r \in Run |-> {}]
    /\ adapter = [k \in Rank |-> [s \in Slot |-> {}]]
    /\ grid = {} /\ trained = {} /\ weights = {} /\ crashed = "no"

RunAt(s) == CHOOSE r \in Run : idxOf[r] = s
Used == {idxOf[r] : r \in Run} \ {0}

-----------------------------------------------------------------------------
(* The owners of the runs.  A directory is there before its orch.toml. *)

ownerUnchanged == UNCHANGED <<transport, mpc, waited, idxOf, progress, ready, packer,
                              ranks, grid, trained, weights, crashed>>

MakeRunDir(r) ==
    /\ disk[r].state = "none" /\ disk[r].gen < MaxGen
    /\ disk' = [disk EXCEPT ![r].state = "bare", ![r].gen = @ + 1]
    /\ UNCHANGED wire /\ ownerUnchanged

WriteConfig(r) ==
    /\ disk[r].state = "bare" /\ ~disk[r].evicted
    /\ \E n \in Starts :
         disk' = [disk EXCEPT ![r].state = "ready", ![r].start = n, ![r].next = n]
    /\ UNCHANGED wire /\ ownerUnchanged

\* The orchestrator of a run sends its next batch.
SendBatch(r) ==
    /\ disk[r].state = "ready" /\ ~disk[r].evicted
    /\ disk[r].next < disk[r].start + Batches[r]
    /\ \E kind \in Kinds :
         LET batch == [step |-> disk[r].next, kind |-> kind] IN
         IF transport = "filesystem"
         THEN /\ disk' = [disk EXCEPT ![r].next = @ + 1, ![r].files = @ \cup {batch}]
              /\ UNCHANGED wire
         ELSE /\ disk' = [disk EXCEPT ![r].next = @ + 1]
              /\ wire' = Append(wire, [run |-> r, gen |-> disk[r].gen, batch |-> batch])
    /\ ownerUnchanged

DeleteRunDir(r) ==
    /\ disk[r].state # "none"
    /\ disk' = [disk EXCEPT ![r].state = "none", ![r].evicted = FALSE, ![r].files = {}]
    /\ UNCHANGED wire /\ ownerUnchanged

-----------------------------------------------------------------------------
(* discover_runs, on the master. *)

Listed(r) == disk[r].state # "none" /\ ~disk[r].evicted

\* Mutant of Assignments: a slot in use is given out again.
AssignmentsAny(fresh, free) ==
    UNION {Bijection(chosen, 1..Cardinality(chosen)) :
              chosen \in kSubset(Min({Cardinality(fresh), MaxRuns}), fresh)}

\* The runs that get a slot: as many as fit, in any order, the lowest free
\* slots first.
Assignments(fresh, free) ==
    LET n == Min({Cardinality(fresh), Cardinality(free)})
        low == {s \in free : Cardinality({t \in free : t < s}) < n}
    IN  UNION {Bijection(chosen, low) : chosen \in kSubset(n, fresh)}

\* Mutant of ResetSlot: the forgotten hook leaves the buffer alone.
ResetSlotKeeps(freed) ==
    /\ received' = [s \in Slot |-> IF s \in freed THEN -1 ELSE received[s]]
    /\ UNCHANGED <<buffers, pending>>

\* The forgotten hook: the buffer, and the receiver's reset_run, which the
\* ZMQ receiver does not have.
ResetSlot(freed) ==
    /\ received' = [s \in Slot |-> IF s \in freed THEN -1 ELSE received[s]]
    /\ buffers' = [s \in Slot |-> IF s \in freed THEN <<>> ELSE buffers[s]]
    /\ UNCHANGED pending

DiscoverRuns ==
    LET gone == {r \in Run : idxOf[r] # 0 /\ ~Listed(r)}
        freed == {idxOf[r] : r \in gone}
        kept == [r \in Run |-> IF r \in gone THEN 0 ELSE idxOf[r]]
        fresh == {r \in Run : Listed(r) /\ kept[r] = 0 /\ disk[r].state = "ready"}
    IN \E new \in Assignments(fresh, Slot \ Range(kept)) :
         /\ idxOf' = [r \in Run |-> IF r \in DOMAIN new THEN new[r] ELSE kept[r]]
         /\ progress' = [s \in Slot |->
                IF s \in Range(new) THEN disk[CHOOSE r \in DOMAIN new : new[r] = s].start
                ELSE IF s \in freed THEN 0 ELSE progress[s]]
         /\ ResetSlot(freed)

\* MultiPacker._get_batch: discover, receive, discover again.
Discover ==
    /\ mpc \in {"discover", "rediscover"} /\ crashed = "no"
    /\ DiscoverRuns
    /\ mpc' = IF mpc = "discover" THEN "receive" ELSE "pack"
    /\ UNCHANGED <<transport, waited, outside, ready, rrPos, ranks, grid, trained,
                   weights, crashed>>

-----------------------------------------------------------------------------
(* Receiving: at most one batch per slot, none for a slot that is waiting  *)
(* for its broadcast.                                                      *)

Open == {s \in Used : ~ready[s]}

\* The samples of a batch the packer keeps: it stops at the first bad one.
Kept(kind) == IF kind = "ok" THEN PerBatch ELSE IF kind = "bad" THEN PerBatch - 1 ELSE 0

Samples(r, gen, batch) ==
    [i \in 1..Kept(batch.kind) |-> [run |-> r, gen |-> gen, step |-> batch.step, n |-> i]]

\* Buffer what was received (got[s] is a sequence of samples, bad the slots
\* whose run is evicted); evict_run makes the directory if it is gone.
Take(got, bad) ==
    /\ buffers' = [s \in Slot |-> IF s \in DOMAIN got THEN buffers[s] \o got[s] ELSE buffers[s]]
    /\ disk' = [r \in Run |->
          IF idxOf[r] \in bad
          THEN [disk[r] EXCEPT !.evicted = TRUE, !.state = IF @ = "none" THEN "bare" ELSE @]
          ELSE disk[r]]

\* Mutant of Advance: the step to receive next is not counted.
AdvanceNot(at, found) == at

\* The step to receive next, per slot.
Advance(at, found) == [s \in Slot |-> IF s \in found THEN at[s] + 1 ELSE at[s]]

ReceiveFiles ==
    /\ mpc = "receive" /\ transport = "filesystem" /\ crashed = "no"
    /\ LET at == [s \in Slot |-> IF s \in Used /\ received[s] = -1 THEN progress[s] ELSE received[s]]
           found == {s \in Open : \E b \in disk[RunAt(s)].files : b.step = at[s]}
           file(s) == CHOOSE b \in disk[RunAt(s)].files : b.step = at[s]
       IN  /\ received' = Advance(at, found)
           /\ Take([s \in found |-> Samples(RunAt(s), disk[RunAt(s)].gen, file(s))],
                   {s \in found : file(s).kind # "ok"})
    /\ mpc' = "rediscover"
    /\ UNCHANGED <<transport, waited, wire, idxOf, progress, ready, rrPos, pending,
                   ranks, grid, trained, weights, crashed>>

\* Two batches of one step for one run id fail an assertion.
Drained(r) == pending[r] \cup {wire[i] : i \in {j \in DOMAIN wire : wire[j].run = r}}

Clash ==
    \E r \in Run :
        LET mine == {i \in DOMAIN wire : wire[i].run = r}
        IN  \/ \E i \in mine, m \in pending[r] : wire[i].batch.step = m.batch.step
            \/ \E i, j \in mine : i # j /\ wire[i].batch.step = wire[j].batch.step

ReceiveMessages ==
    /\ mpc = "receive" /\ transport = "zmq" /\ crashed = "no"
    /\ crashed' = IF Clash THEN "zmq step already pending" ELSE "no"
    /\ LET found == {s \in Open : Drained(RunAt(s)) # {}}
           oldest(r) == CHOOSE m \in Drained(r) : \A q \in Drained(r) : m.batch.step <= q.batch.step
       IN  /\ pending' = [r \in Run |->
                  IF idxOf[r] \in found THEN Drained(r) \ {oldest(r)} ELSE Drained(r)]
           /\ Take([s \in found |-> Samples(RunAt(s), oldest(RunAt(s)).gen, oldest(RunAt(s)).batch)],
                   {s \in found : oldest(RunAt(s)).batch.kind # "ok"})
    /\ wire' = <<>>
    /\ mpc' = "rediscover"
    /\ UNCHANGED <<transport, waited, idxOf, progress, ready, rrPos, received, ranks,
                   grid, trained, weights>>

-----------------------------------------------------------------------------
(* Packing. *)

\* Samples at the head of a buffer that are of the current step.
Current(s) ==
    IF s \notin Used THEN 0
    ELSE LET due == {i \in 0..Len(buffers[s]) :
                        \A j \in 1..i : buffers[s][j].step <= progress[s]}
         IN  Max(due)

\* The samples at the head of each of the slots, how many of each.
Heads(count, slots) == UNION {{s} \X (1..count[s]) : s \in slots}

CurrentTotal == Cardinality(Heads([s \in Slot |-> Current(s)], Slot))

\* Round robin from rrPos: each slot in turn gives what it has of the current
\* step, unless the budget is spent with it.
Turn(s) == (s - rrPos) % MaxRuns

Selected(take) ==
    LET spent(s) == Cardinality(Heads(take, {t \in Slot : Turn(t) <= Turn(s)}))
    IN  \A s \in Slot :
            /\ take[s] <= Current(s) /\ spent(s) <= Budget
            /\ take[s] = Current(s) \/ spent(s) = Budget

\* Mutant of StepDone: a step counts as done as soon as some of it is packed.
StepDoneEarly(s, rest) == TRUE

\* _update_run_progress: nothing of the current step is left in the buffer.
StepDone(s, rest) == rest = <<>> \/ rest[1].step > progress[s]

\* Mutant of Enough: the packer waits for a full step for ever.
EnoughFull == CurrentTotal >= Budget

\* Enough samples, or TIMEOUT_SECONDS have passed (they are less than one
\* sleep) and there are some.
Enough == CurrentTotal >= Budget \/ (waited /\ CurrentTotal > 0)

\* Not enough for a step: sleep, and look again.
WaitForSamples ==
    /\ mpc = "pack" /\ crashed = "no"
    /\ ~Enough
    /\ mpc' = "discover" /\ waited' = TRUE
    /\ UNCHANGED <<transport, outside, idxOf, progress, ready, packer, ranks,
                   grid, trained, weights, crashed>>

Pack ==
    /\ mpc = "pack" /\ crashed = "no"
    /\ Enough
    /\ waited' = FALSE
    /\ \E take \in [Slot -> 0..Budget] :
         LET from == {s \in Slot : take[s] > 0}
             rest == [s \in Slot |-> SubSeq(buffers[s], take[s] + 1, Len(buffers[s]))]
             done == {s \in from : StepDone(s, rest[s])}
             last == CHOOSE s \in from : \A t \in from : Turn(t) <= Turn(s)
         IN  /\ Selected(take)
             /\ crashed' = IF from = {} THEN "no samples selected"
                           ELSE IF \E s \in from : \E i \in 1..take[s] :
                                       buffers[s][i].step # buffers[s][1].step
                           THEN "two steps in a micro batch" ELSE "no"
             /\ grid' = {[slot |-> s, run |-> RunAt(s), samples |-> SubSeq(buffers[s], 1, take[s])] :
                            s \in from}
             /\ buffers' = rest
             /\ rrPos' = IF from = {} THEN rrPos ELSE (last % MaxRuns) + 1
             /\ progress' = [s \in Slot |-> IF s \in done THEN progress[s] + 1 ELSE progress[s]]
             /\ ready' = [s \in Slot |-> ready[s] \/ s \in done]
    /\ mpc' = "sync"
    /\ UNCHANGED <<transport, outside, idxOf, received, pending, ranks, trained,
                   weights>>

-----------------------------------------------------------------------------
(* synchronize_state, on every rank, and the training step. *)

\* The runs that are new in after.  Their slots are reset.
Created(before, after) == {r \in Run : before[r] = 0 /\ after[r] # 0}

\* Mutant of KeptView: the other ranks do not forget deleted runs.
KeptViewAll == rankIdx

\* What the other ranks keep of their map.
KeptView == [r \in Run |-> IF idxOf[r] = 0 THEN 0 ELSE rankIdx[r]]

\* The creation hooks.
ResetFor(k, view, new) ==
    [s \in Slot |-> IF \E r \in new : view[r] = s THEN {} ELSE adapter[k][s]]

Synchronize ==
    /\ mpc = "sync" /\ crashed = "no"
    /\ LET kept == KeptView
           new == Created(rankIdx, idxOf)
           view == [r \in Run |-> IF r \in new THEN idxOf[r] ELSE kept[r]]
       IN  /\ crashed' = IF \E r \in new, q \in Run : kept[q] # 0 /\ idxOf[r] = kept[q]
                         THEN "slot not unused" ELSE "no"
           /\ rankIdx' = view
           /\ adapter' = [master |-> ResetFor("master", idxOf, Created(lastSynced, idxOf)),
                          other |-> ResetFor("other", view, new)]
    /\ lastSynced' = idxOf
    /\ mpc' = "train"
    /\ UNCHANGED <<transport, waited, outside, idxOf, progress, ready, packer, grid,
                   trained, weights>>

InGrid == UNION {Range(m.samples) : m \in grid}

LearntFrom(s) ==
    {[run |-> x.run, gen |-> x.gen] : x \in UNION {Range(m.samples) : m \in {n \in grid : n.slot = s}}}

Train ==
    /\ mpc = "train" /\ crashed = "no"
    /\ trained' = trained \cup InGrid
    /\ adapter' = [k \in Rank |-> [s \in Slot |-> adapter[k][s] \cup LearntFrom(s)]]
    /\ grid' = {}
    /\ mpc' = "broadcast"
    /\ UNCHANGED <<transport, waited, outside, idxOf, progress, ready, packer,
                   lastSynced, rankIdx, weights, crashed>>

\* FileSystemWeightBroadcast: writing makes a deleted directory again, and a
\* directory without a config is removed.
Broadcast ==
    /\ mpc = "broadcast" /\ crashed = "no"
    /\ LET to == {r \in Run : idxOf[r] # 0 /\ ready[idxOf[r]]}
       IN  /\ weights' = weights \cup
                  {[run |-> r, gen |-> disk[r].gen, start |-> disk[r].start,
                    step |-> progress[idxOf[r]]] :
                       r \in {q \in to : disk[q].state = "ready"}}
           /\ disk' = [r \in Run |->
                  IF r \in to /\ disk[r].state # "ready"
                  THEN [disk[r] EXCEPT !.state = "none", !.evicted = FALSE, !.files = {}]
                  ELSE disk[r]]
    /\ ready' = [s \in Slot |-> FALSE]
    /\ mpc' = "discover"
    /\ UNCHANGED <<transport, waited, wire, idxOf, progress, packer, ranks, grid,
                   trained, crashed>>

-----------------------------------------------------------------------------
Owner == \E r \in Run : MakeRunDir(r) \/ WriteConfig(r) \/ SendBatch(r) \/ DeleteRunDir(r)

Receive == ReceiveFiles \/ ReceiveMessages

Trainer ==
    \/ Discover \/ Receive \/ WaitForSamples \/ Pack
    \/ Synchronize \/ Train \/ Broadcast

Next == Owner \/ Trainer

Spec == Init /\ [][Next]_vars

\* The training loop runs; nothing is assumed of the owners.
FairSpec == Spec /\ WF_vars(Trainer)

-----------------------------------------------------------------------------
SampleType == [run : Run, gen : 1..MaxGen, step : Nat, n : 1..PerBatch]

TypeOK ==
    /\ transport \in Transports
    /\ \A r \in Run : /\ disk[r].state \in {"none", "bare", "ready"}
                      /\ disk[r].gen \in 0..MaxGen
                      /\ \A m \in pending[r] : m.run = r
    /\ waited \in BOOLEAN
    /\ mpc \in {"discover", "receive", "rediscover", "pack", "sync", "train", "broadcast"}
    /\ \A f \in {idxOf, rankIdx, lastSynced} : f \in [Run -> 0..MaxRuns]
    /\ \A r, q \in Run : r # q /\ idxOf[r] = idxOf[q] => idxOf[r] = 0
    /\ progress \in [Slot -> Nat] /\ ready \in [Slot -> BOOLEAN]
    /\ buffers \in [Slot -> Seq(SampleType)] /\ rrPos \in Slot
    /\ received \in [Slot -> Nat \cup {-1}]
    /\ trained \subseteq SampleType

\* A slot that is handed from a run to another carries nothing over: on every
\* rank the parameters of a slot learn from one incarnation of one run between
\* two resets, and a micro batch is stamped with the run that sent its samples.
OneRunPerAdapter ==
    /\ \A k \in Rank, s \in Slot : Cardinality(adapter[k][s]) <= 1
    /\ \A m \in grid : \A x \in Range(m.samples) : x.run = m.run

\* Weights announced to a run at step n have been trained on the whole of its
\* batches before n, however these were split over training steps.
WeightsCoverSteps ==
    \A w \in weights : \A t \in w.start..(w.step - 1) : \A i \in 1..PerBatch :
        [run |-> w.run, gen |-> w.gen, step |-> t, n |-> i] \in trained

\* No sample is trained twice: not by reading a file again, nor from a buffer
\* that outlived its run.
TrainedOnce == [][trained' # trained => InGrid \cap trained = {}]_vars

\* Neither the receiver's and the packer's assertions nor the lookup of a free
\* slot on the other ranks fail, whatever runs appear and disappear.
NeverCrashes == crashed = "no"

\* A batch a run has sent is trained, unless the run is deleted or evicted:
\* when there are slots enough, other runs that come and go, and batches too
\* small to fill a step, do not hold it up for ever.
SentIsTrained ==
    Cardinality(Run) <= MaxRuns =>
        \A r \in Run : \A n \in UNION {m..(m + Batches[r] - 1) : m \in Starts} :
            n \in disk[r].start..(disk[r].next - 1) ~>
                \/ \E x \in trained : x.run = r /\ x.step = n
                \/ disk[r].evicted \/ disk[r].state = "none"
=============================================================================
