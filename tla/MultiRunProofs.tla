---------------------------- MODULE MultiRunProofs ----------------------------
(***************************************************************************)
(* A slot carries nothing over from one run to the next, no sample is      *)
(* trained twice, and weights are announced when the steps they stand for  *)
(* have been trained on, for any runs, slots, batches and sizes.  Types,   *)
(* and that nothing is trained twice, hold however often a run is created  *)
(* again; the rest holds as long as a run id is not used again             *)
(* (MaxGen = 1).                                                           *)
(***************************************************************************)
EXTENDS MultiRun, FiniteSetTheorems, WellFoundedInduction, TLAPS

LEMMA Sizes ==
    /\ MaxRuns \in Nat \ {0, 1} /\ PerBatch \in Nat \ {0} /\ Budget \in Nat \ {0}
    /\ MaxGen \in Nat \ {0} /\ Kinds \subseteq {"ok", "empty", "bad"} /\ Starts \subseteq Nat
    /\ Slot \subseteq Nat \ {0}
BY MultiRunAssumption DEF MultiRunAssumption, Slot

USE Sizes

-----------------------------------------------------------------------------
(* Helpers. *)

Less == {p \in Nat \X Nat : p[1] < p[2]}

\* A set of numbers up to n has a largest one.
LEMMA MaxIn ==
    ASSUME NEW n \in Nat, NEW S \in SUBSET (0..n), S # {}
    PROVE  Max(S) \in S /\ \A y \in S : Max(S) >= y
<1> DEFINE T == {i \in Nat : n - i \in S}
<1>1. IsWellFoundedOn(Less, Nat)
  BY NatLessThanWellFounded, Zenon DEF OpToRel, Less
<1>2. T \subseteq Nat /\ T # {}
  <2>1. PICK t \in S : TRUE
    OBVIOUS
  <2>2. n - t \in Nat /\ n - (n - t) = t
    BY <2>1
  <2> QED
    BY <2>1, <2>2
<1>3. PICK x \in T : \A y \in T : <<y, x>> \notin Less
  <2> HIDE DEF T
  <2> QED
    BY <1>1, <1>2, WFMin
<1>4. \A y \in T : x <= y
  <2> HIDE DEF T
  <2> TAKE y \in T
  <2>1. x \in Nat /\ y \in Nat /\ <<y, x>> \notin Less
    BY <1>2, <1>3
  <2>2. <<y, x>> \in Nat \X Nat /\ <<y, x>>[1] = y /\ <<y, x>>[2] = x
    BY <2>1
  <2>3. ~(y < x)
    BY <2>1, <2>2 DEF Less
  <2> QED
    BY <2>1, <2>3
<1>5. n - x \in S /\ \A t \in S : n - x >= t
  <2>1. n - x \in S /\ x \in Nat
    BY <1>3
  <2>2. ASSUME NEW t \in S PROVE n - x >= t
    <3>1. n - t \in Nat /\ n - (n - t) = t
      OBVIOUS
    <3>2. x <= n - t
      BY <1>4, <3>1
    <3> QED
      BY <2>1, <3>2
  <2> QED
    BY <2>1, <2>2
<1> QED
  BY <1>5 DEF Max

LEMMA RangeCat ==
    ASSUME NEW S, NEW p \in Seq(S), NEW q \in Seq(S)
    PROVE  /\ p \o q \in Seq(S) /\ Len(p \o q) = Len(p) + Len(q)
           /\ \A i \in 1..Len(p \o q) :
                \/ i \in 1..Len(p) /\ (p \o q)[i] = p[i]
                \/ i > Len(p) /\ i - Len(p) \in 1..Len(q) /\ (p \o q)[i] = q[i - Len(p)]
           /\ Range(p \o q) = Range(p) \cup Range(q)
<1>1. /\ p \o q \in Seq(S) /\ Len(p \o q) = Len(p) + Len(q)
      /\ \A i \in 1..Len(p \o q) :
           \/ i \in 1..Len(p) /\ (p \o q)[i] = p[i]
           \/ i > Len(p) /\ i - Len(p) \in 1..Len(q) /\ (p \o q)[i] = q[i - Len(p)]
  OBVIOUS
<1>2. DOMAIN (p \o q) = 1..(Len(p) + Len(q)) /\ DOMAIN p = 1..Len(p) /\ DOMAIN q = 1..Len(q)
      /\ Len(p) \in Nat /\ Len(q) \in Nat
  BY <1>1
<1>3. Range(p \o q) \subseteq Range(p) \cup Range(q)
  BY <1>1, <1>2 DEF Range
<1>4. ASSUME NEW i \in 1..Len(p) PROVE i \in DOMAIN (p \o q) /\ (p \o q)[i] = p[i]
  BY <1>2
<1>5. ASSUME NEW i \in 1..Len(q) PROVE i + Len(p) \in DOMAIN (p \o q) /\ (p \o q)[i + Len(p)] = q[i]
  BY <1>2
<1>6. Range(p) \cup Range(q) \subseteq Range(p \o q)
  BY <1>2, <1>4, <1>5 DEF Range
<1> QED
  BY <1>1, <1>3, <1>6

LEMMA RangeCut ==
    ASSUME NEW S, NEW q \in Seq(S), NEW n \in 0..Len(q)
    PROVE  LET front == SubSeq(q, 1, n)
               rest == SubSeq(q, n + 1, Len(q))
           IN  /\ front \in Seq(S) /\ Len(front) = n /\ \A i \in 1..n : front[i] = q[i]
               /\ rest \in Seq(S) /\ Len(rest) = Len(q) - n
               /\ \A i \in 1..Len(rest) : rest[i] = q[i + n] /\ i + n \in 1..Len(q)
               /\ Range(q) = Range(front) \cup Range(rest)
<1> DEFINE front == SubSeq(q, 1, n)
           rest == SubSeq(q, n + 1, Len(q))
<1>1. /\ front \in Seq(S) /\ Len(front) = n /\ \A i \in 1..n : front[i] = q[i]
      /\ rest \in Seq(S) /\ Len(rest) = Len(q) - n
      /\ \A i \in 1..Len(rest) : rest[i] = q[i + n] /\ i + n \in 1..Len(q)
  OBVIOUS
<1> HIDE DEF front, rest
<1>2. DOMAIN front = 1..n /\ DOMAIN rest = 1..(Len(q) - n) /\ DOMAIN q = 1..Len(q)
      /\ Len(q) \in Nat
  BY <1>1
<1>3. ASSUME NEW i \in 1..Len(q) PROVE q[i] \in Range(front) \cup Range(rest)
  <2>1. CASE i \in 1..n
    BY <1>1, <1>2, <2>1 DEF Range
  <2>2. CASE i > n
    <3>1. i - n \in DOMAIN rest /\ rest[i - n] = q[i]
      BY <1>1, <1>2, <2>2
    <3> QED
      BY <3>1 DEF Range
  <2> QED
    BY <2>1, <2>2
<1>4. Range(front) \cup Range(rest) \subseteq Range(q)
  <2>1. \A i \in 1..n : front[i] = q[i] /\ i \in DOMAIN q
    BY <1>1, <1>2
  <2>2. \A i \in DOMAIN rest : rest[i] = q[i + n] /\ i + n \in DOMAIN q
    BY <1>1, <1>2
  <2> QED
    BY <1>2, <2>1, <2>2 DEF Range
<1>5. Range(q) \subseteq Range(front) \cup Range(rest)
  BY <1>2, <1>3 DEF Range
<1> QED
  BY <1>1, <1>4, <1>5 DEF front, rest

-----------------------------------------------------------------------------
(* Types. *)

Batch == [step : Nat, kind : Kinds]
Message == [run : Run, gen : 1..MaxGen, batch : Batch]
RunDir == [state : {"none", "bare", "ready"}, evicted : BOOLEAN, gen : 0..MaxGen,
           start : Nat, next : Nat, files : SUBSET Batch]
MicroBatch == [slot : Slot, run : Run, samples : Seq(SampleType)]

OutsideTypes ==
    /\ transport \in Transports
    /\ disk \in [Run -> RunDir] /\ wire \in Seq(Message)
    /\ pending \in [Run -> SUBSET Message]
    /\ \A r \in Run : \A m \in pending[r] : m.run = r

\* Two runs are in one slot only if neither is in any; a run with a slot, or
\* with a directory, has been created.
SlotTypes ==
    /\ idxOf \in [Run -> 0..MaxRuns] /\ rankIdx \in [Run -> 0..MaxRuns]
    /\ lastSynced \in [Run -> 0..MaxRuns]
    /\ \A r, q \in Run : r # q /\ idxOf[r] = idxOf[q] => idxOf[r] = 0
    /\ \A r \in Run : idxOf[r] # 0 \/ disk[r].state # "none" => disk[r].gen >= 1

PackerTypes ==
    /\ progress \in [Slot -> Nat] /\ received \in [Slot -> Nat \cup {-1}]
    /\ buffers \in [Slot -> Seq(SampleType)] /\ rrPos \in Slot
    /\ mpc \in {"discover", "receive", "rediscover", "pack", "sync", "train", "broadcast"}

FlagTypes == waited \in BOOLEAN /\ ready \in [Slot -> BOOLEAN]

TrainTypes == grid \subseteq MicroBatch /\ trained \subseteq SampleType

TypeInv == OutsideTypes /\ SlotTypes /\ PackerTypes /\ FlagTypes /\ TrainTypes

LEMMA InitTypes == Init => TypeInv
<1> SUFFICES ASSUME Init PROVE TypeInv
  OBVIOUS
<1>1. OutsideTypes
  <2>1. disk \in [Run -> RunDir]
    BY DEF Init, RunDir
  <2>2. wire \in Seq(Message) /\ pending \in [Run -> SUBSET Message]
        /\ \A r \in Run : \A m \in pending[r] : m.run = r
    BY DEF Init
  <2> QED
    BY <2>1, <2>2 DEF Init, OutsideTypes
<1>2. SlotTypes
  BY DEF Init, SlotTypes
<1>3. PackerTypes
  <2>1. buffers \in [Slot -> Seq(SampleType)]
    <3>1. <<>> \in Seq(SampleType)
      OBVIOUS
    <3> QED
      BY <3>1 DEF Init
  <2> QED
    BY <2>1 DEF Init, PackerTypes, Slot
<1>4. FlagTypes
  BY Zenon DEF Init, FlagTypes
<1>5. TrainTypes
  BY DEF Init, TrainTypes
<1> QED
  BY <1>1, <1>2, <1>3, <1>4, <1>5 DEF TypeInv

\* The run in a slot in use.
LEMMA RunInSlot ==
    ASSUME TypeInv, NEW s \in Used
    PROVE  /\ s \in Slot /\ RunAt(s) \in Run /\ idxOf[RunAt(s)] = s
           /\ \A r \in Run : idxOf[r] = s => r = RunAt(s)
<1>1. PICK r \in Run : idxOf[r] = s /\ s # 0
  BY DEF Used
<1>2. RunAt(s) \in Run /\ idxOf[RunAt(s)] = s
  BY <1>1 DEF RunAt
<1>3. s \in Slot
  BY <1>1 DEF Slot, TypeInv, SlotTypes
<1> QED
  BY <1>1, <1>2, <1>3 DEF TypeInv, SlotTypes

LEMMA Assigned ==
    ASSUME NEW fresh, NEW free, NEW new \in Assignments(fresh, free)
    PROVE  \E chosen \in SUBSET fresh, low \in SUBSET free :
              new \in [chosen -> low] /\ \A r, q \in chosen : new[r] = new[q] => r = q
<1> DEFINE n == Min({Cardinality(fresh), Cardinality(free)})
           low == {s \in free : Cardinality({t \in free : t < s}) < n}
<1>1. PICK chosen \in kSubset(n, fresh) : new \in Bijection(chosen, low)
  BY DEF Assignments
<1>2. chosen \in SUBSET fresh /\ low \in SUBSET free
  BY DEF kSubset
<1> HIDE DEF low
<1>3. new \in [chosen -> low] /\ \A r, q \in chosen : new[r] = new[q] => r = q
  BY <1>1 DEF Bijection, Injection, IsInjective
<1> QED
  BY <1>2, <1>3

\* What discover_runs does, run by run and slot by slot: a run keeps its slot
\* if its directory is listed; a run gets one only if it is listed, had none,
\* and nobody keeps it; a slot whose run is gone is emptied.
LEMMA Discovered ==
    ASSUME TypeInv, DiscoverRuns
    PROVE  /\ idxOf' \in [Run -> 0..MaxRuns] /\ pending' = pending
           /\ progress' \in [Slot -> Nat] /\ received' \in [Slot -> Nat \cup {-1}]
           /\ buffers' \in [Slot -> Seq(SampleType)]
           /\ \A r, q \in Run : r # q /\ idxOf'[r] = idxOf'[q] => idxOf'[r] = 0
           /\ \A r \in Run :
                \/ idxOf'[r] = 0 /\ (idxOf[r] # 0 => ~Listed(r))
                \/ /\ idxOf'[r] # 0 /\ idxOf[r] = idxOf'[r] /\ Listed(r)
                   /\ progress'[idxOf[r]] = progress[idxOf[r]]
                \/ /\ idxOf'[r] # 0 /\ idxOf[r] = 0 /\ Listed(r) /\ disk[r].state = "ready"
                   /\ progress'[idxOf'[r]] = disk[r].start
                   /\ \A q \in Run : idxOf[q] = idxOf'[r] => ~Listed(q)
           /\ \A s \in Slot :
                \/ /\ \E q \in Run : idxOf[q] = s /\ ~Listed(q)
                   /\ buffers'[s] = <<>> /\ received'[s] = -1
                \/ /\ \A q \in Run : idxOf[q] = s => Listed(q)
                   /\ buffers'[s] = buffers[s] /\ received'[s] = received[s]
<1> DEFINE gone == {r \in Run : idxOf[r] # 0 /\ ~Listed(r)}
           freed == {idxOf[r] : r \in gone}
           kept == [r \in Run |-> IF r \in gone THEN 0 ELSE idxOf[r]]
           fresh == {r \in Run : Listed(r) /\ kept[r] = 0 /\ disk[r].state = "ready"}
<1>1. PICK new \in Assignments(fresh, Slot \ Range(kept)) :
         /\ idxOf' = [r \in Run |-> IF r \in DOMAIN new THEN new[r] ELSE kept[r]]
         /\ progress' = [s \in Slot |->
                IF s \in Range(new) THEN disk[CHOOSE r \in DOMAIN new : new[r] = s].start
                ELSE IF s \in freed THEN 0 ELSE progress[s]]
         /\ ResetSlot(freed)
  BY DEF DiscoverRuns
<1>2. /\ DOMAIN new \subseteq fresh
      /\ \A r \in DOMAIN new : new[r] \in Slot /\ \A q \in Run : kept[q] # new[r]
      /\ \A r, q \in DOMAIN new : new[r] = new[q] => r = q
  <2> HIDE DEF fresh, kept
  <2>1. PICK chosen \in SUBSET fresh, low \in SUBSET (Slot \ Range(kept)) :
          new \in [chosen -> low] /\ \A r, q \in chosen : new[r] = new[q] => r = q
    BY <1>1, Assigned
  <2>2. DOMAIN kept = Run
    BY DEF kept
  <2> QED
    BY <2>1, <2>2, ZenonT(30) DEF Range
<1>3. /\ kept \in [Run -> 0..MaxRuns] /\ \A s \in Slot : s # 0
      /\ \A r, q \in Run : kept[r] = kept[q] /\ kept[r] # 0 => r = q
  BY DEF TypeInv, SlotTypes
<1>4. ASSUME NEW r \in Run
      PROVE  \/ r \notin DOMAIN new /\ idxOf'[r] = kept[r]
             \/ r \in DOMAIN new /\ idxOf'[r] = new[r] /\ idxOf'[r] \in Slot
  BY <1>1, <1>2
<1>5. idxOf' \in [Run -> 0..MaxRuns]
  BY <1>1, <1>2, <1>3, <1>4 DEF Slot
<1>6. \A r, q \in Run : r # q /\ idxOf'[r] = idxOf'[q] => idxOf'[r] = 0
  BY <1>2, <1>3, <1>4
<1>7. /\ pending' = pending
      /\ received' = [s \in Slot |-> IF s \in freed THEN -1 ELSE received[s]]
      /\ buffers' = [s \in Slot |-> IF s \in freed THEN <<>> ELSE buffers[s]]
  BY <1>1 DEF ResetSlot
<1>8. received' \in [Slot -> Nat \cup {-1}] /\ buffers' \in [Slot -> Seq(SampleType)]
  <2>1. <<>> \in Seq(SampleType)
    OBVIOUS
  <2> HIDE DEF freed
  <2> QED
    BY <1>7, <2>1 DEF TypeInv, PackerTypes
<1>9. ASSUME NEW r \in DOMAIN new
      PROVE  /\ r \in Run /\ disk[r].start \in Nat
             /\ progress'[new[r]] = disk[r].start
  <2>1. new[r] \in Range(new) /\ new[r] \in Slot /\ r \in Run
    BY <1>2 DEF Range
  <2>2. (CHOOSE q \in DOMAIN new : new[q] = new[r]) = r
    BY <1>2
  <2> QED
    BY <1>1, <2>1, <2>2 DEF TypeInv, OutsideTypes, RunDir
<1>10. ASSUME NEW s \in Slot, s \notin Range(new)
       PROVE  progress'[s] = IF s \in freed THEN 0 ELSE progress[s]
  BY <1>1, <1>10
<1>11. progress' \in [Slot -> Nat]
  <2>1. progress' = [s \in Slot |-> progress'[s]]
    BY <1>1
  <2>2. ASSUME NEW s \in Slot PROVE progress'[s] \in Nat
    <3>1. CASE s \in Range(new)
      <4>1. PICK r \in DOMAIN new : new[r] = s
        BY <3>1 DEF Range
      <4> QED
        BY <1>9, <4>1
    <3>2. CASE s \notin Range(new)
      <4> HIDE DEF freed
      <4> QED
        BY <1>10, <3>2 DEF TypeInv, PackerTypes
    <3> QED
      BY <3>1, <3>2
  <2> QED
    BY <2>1, <2>2
<1>12. ASSUME NEW r \in Run
       PROVE  \/ idxOf'[r] = 0 /\ (idxOf[r] # 0 => ~Listed(r))
              \/ /\ idxOf'[r] # 0 /\ idxOf[r] = idxOf'[r] /\ Listed(r)
                 /\ progress'[idxOf[r]] = progress[idxOf[r]]
              \/ /\ idxOf'[r] # 0 /\ idxOf[r] = 0 /\ Listed(r) /\ disk[r].state = "ready"
                 /\ progress'[idxOf'[r]] = disk[r].start
                 /\ \A q \in Run : idxOf[q] = idxOf'[r] => ~Listed(q)
  <2>1. CASE r \in DOMAIN new
    <3>1. r \in fresh /\ idxOf'[r] = new[r] /\ idxOf'[r] \in Slot
      BY <1>2, <1>4, <2>1
    <3>2. idxOf[r] = 0 /\ Listed(r) /\ disk[r].state = "ready"
      BY <3>1
    <3>3. \A q \in Run : idxOf[q] = idxOf'[r] => ~Listed(q)
      BY <1>2, <1>3, <2>1, <3>1
    <3> QED
      BY <1>3, <1>9, <2>1, <3>1, <3>2, <3>3
  <2>2. CASE r \notin DOMAIN new /\ r \in gone
    BY <1>4, <2>2
  <2>3. CASE r \notin DOMAIN new /\ r \notin gone
    <3>1. idxOf'[r] = idxOf[r] /\ kept[r] = idxOf[r]
      BY <1>4, <2>3
    <3>2. CASE idxOf[r] = 0
      BY <3>1, <3>2
    <3>3. CASE idxOf[r] # 0
      <4>1. Listed(r) /\ idxOf[r] \in Slot
        BY <2>3, <3>3 DEF TypeInv, SlotTypes, Slot
      <4>2. idxOf[r] \notin Range(new)
        BY <1>2, <3>1 DEF Range
      <4>3. idxOf[r] \notin freed
        BY <2>3, <3>3 DEF TypeInv, SlotTypes
      <4> QED
        BY <1>10, <3>1, <3>3, <4>1, <4>2, <4>3
    <3> QED
      BY <3>2, <3>3
  <2> QED
    BY <2>1, <2>2, <2>3
<1>13. ASSUME NEW s \in Slot
       PROVE  \/ /\ \E q \in Run : idxOf[q] = s /\ ~Listed(q)
                 /\ buffers'[s] = <<>> /\ received'[s] = -1
              \/ /\ \A q \in Run : idxOf[q] = s => Listed(q)
                 /\ buffers'[s] = buffers[s] /\ received'[s] = received[s]
  BY <1>3, <1>7
<1> QED
  BY <1>5, <1>6, <1>7, <1>8, <1>11, <1>12, <1>13

LEMMA CurrentBound ==
    ASSUME TypeInv, NEW s \in Slot
    PROVE  /\ Current(s) \in 0..Len(buffers[s]) /\ (s \notin Used => Current(s) = 0)
           /\ \A j \in 1..Current(s) : buffers[s][j].step <= progress[s]
<1> DEFINE due == {i \in 0..Len(buffers[s]) : \A j \in 1..i : buffers[s][j].step <= progress[s]}
<1>1. Len(buffers[s]) \in Nat
  BY DEF TypeInv, PackerTypes
<1>2. due \in SUBSET (0..Len(buffers[s])) /\ 0 \in due
  BY <1>1
<1>3. Max(due) \in due
  <2> HIDE DEF due
  <2> QED
    BY <1>1, <1>2, MaxIn
<1>4. Current(s) = IF s \notin Used THEN 0 ELSE Max(due)
  BY DEF Current
<1> QED
  BY <1>1, <1>3, <1>4

\* A pack takes a sample of some slot: the counts are not all zero.
LEMMA SomeSelected ==
    ASSUME TypeInv, Enough, NEW take \in [Slot -> 0..Budget], Selected(take)
    PROVE  \E s \in Slot : take[s] > 0
<1> SUFFICES ASSUME \A s \in Slot : ~(take[s] > 0) PROVE FALSE
  OBVIOUS
<1>1. \A s \in Slot : take[s] = 0
  OBVIOUS
<1>2. ASSUME NEW s \in Slot PROVE Current(s) = 0
  <2> DEFINE upTo == {t \in Slot : Turn(t) <= Turn(s)}
  <2>1. Heads(take, upTo) = {}
    <3>1. \A t \in upTo : {t} \X (1..take[t]) = {}
      BY <1>1
    <3> QED
      BY <3>1, Zenon DEF Heads
  <2>2. Cardinality(Heads(take, upTo)) = 0
    BY <2>1, FS_EmptySet
  <2>3. take[s] = Current(s) \/ Cardinality(Heads(take, upTo)) = Budget
    BY DEF Selected
  <2> QED
    BY <1>1, <2>2, <2>3
<1>3. Heads([t \in Slot |-> Current(t)], Slot) = {}
  BY <1>2 DEF Heads
<1>4. CurrentTotal = 0
  BY <1>3, FS_EmptySet DEF CurrentTotal
<1> QED
  BY <1>4 DEF Enough

\* The rest of the buffers, and the slots that have given their last sample of
\* the current step.
Rest(take) == [s \in Slot |-> SubSeq(buffers[s], take[s] + 1, Len(buffers[s]))]
Finished(take) == {s \in Slot : take[s] > 0 /\ StepDone(s, Rest(take)[s])}

Packs(take) ==
    /\ \A s \in Slot : /\ take[s] \in 0..Len(buffers[s]) /\ (take[s] > 0 => s \in Used)
                       /\ \A j \in 1..take[s] : buffers[s][j].step <= progress[s]
    /\ crashed' = IF \E s \in Slot : \E i \in 1..take[s] : buffers[s][i].step # buffers[s][1].step
                  THEN "two steps in a micro batch" ELSE "no"
    /\ grid' = {[slot |-> s, run |-> RunAt(s), samples |-> SubSeq(buffers[s], 1, take[s])] :
                   s \in {t \in Slot : take[t] > 0}}
    /\ buffers' = Rest(take)
    /\ progress' = [s \in Slot |-> IF s \in Finished(take) THEN progress[s] + 1 ELSE progress[s]]
    /\ ready' = [s \in Slot |-> ready[s] \/ s \in Finished(take)]

\* What a pack does: of each slot it takes the head of the buffer, samples of
\* its current step, and only of slots in use.
LEMMA Packed ==
    ASSUME TypeInv, Pack
    PROVE  (\E take \in [Slot -> Nat] : Packs(take)) /\ rrPos' \in Slot
<1>1. PICK take \in [Slot -> 0..Budget] :
         LET from == {s \in Slot : take[s] > 0}
             rest == [s \in Slot |-> SubSeq(buffers[s], take[s] + 1, Len(buffers[s]))]
             done == {s \in from : StepDone(s, rest[s])}
             last == CHOOSE s \in from : \A t \in from : Turn(t) <= Turn(s)
         IN  /\ Selected(take)
             /\ crashed' = IF from = {} THEN "no samples selected"
                           ELSE IF \E s \in from : \E i \in 1..take[s] :
                                       buffers[s][i].step # buffers[s][1].step
                           THEN "two steps in a micro batch" ELSE "no"
             /\ grid' = {[slot |-> s, run |-> RunAt(s), samples |-> SubSeq(buffers[s], 1, take[s])] :
                            s \in from}
             /\ buffers' = rest
             /\ rrPos' = IF from = {} THEN rrPos ELSE (last % MaxRuns) + 1
             /\ progress' = [s \in Slot |-> IF s \in done THEN progress[s] + 1 ELSE progress[s]]
             /\ ready' = [s \in Slot |-> ready[s] \/ s \in done]
  BY DEF Pack
<1>2. Enough /\ Selected(take)
  BY <1>1 DEF Pack
<1>3. PICK one \in Slot : take[one] > 0
  BY <1>2, SomeSelected
<1>4. ASSUME NEW s \in Slot
      PROVE  /\ take[s] \in 0..Len(buffers[s]) /\ (take[s] > 0 => s \in Used)
             /\ \A j \in 1..take[s] : buffers[s][j].step <= progress[s]
  <2>1. take[s] <= Current(s) /\ take[s] \in Nat
    <3>1. take[s] <= Current(s)
      BY <1>2, Zenon DEF Selected
    <3> QED
      BY <3>1
  <2>2. Len(buffers[s]) \in Nat
    BY DEF TypeInv, PackerTypes
  <2> QED
    BY <2>1, <2>2, CurrentBound
<1> DEFINE from == {s \in Slot : take[s] > 0}
           last == CHOOSE s \in from : \A t \in from : Turn(t) <= Turn(s)
<1>5. last \in from
  <2> DEFINE turns == {i \in 0..(MaxRuns - 1) : \E s \in from : Turn(s) = i}
  <2>1. \A s \in Slot : Turn(s) \in 0..(MaxRuns - 1)
    BY DEF Turn, Slot, TypeInv, PackerTypes
  <2>2. MaxRuns - 1 \in Nat /\ turns \in SUBSET (0..(MaxRuns - 1)) /\ Turn(one) \in turns
    BY <1>3, <2>1
  <2>3. Max(turns) \in turns /\ \A i \in turns : Max(turns) >= i
    <3> HIDE DEF turns
    <3> QED
      BY <2>2, MaxIn
  <2>4. PICK s \in from : Turn(s) = Max(turns)
    BY <2>3
  <2>5. ASSUME NEW t \in from PROVE Turn(t) <= Turn(s)
    <3>1. Turn(t) \in turns /\ Turn(t) \in 0..(MaxRuns - 1)
      BY <2>1
    <3>2. Max(turns) >= Turn(t) /\ Max(turns) \in 0..(MaxRuns - 1)
      BY <2>3, <3>1
    <3> HIDE DEF turns
    <3> QED
      BY <2>4, <3>1, <3>2
  <2> QED
    BY <2>5
<1>6. rrPos' = (last % MaxRuns) + 1
  BY <1>1, <1>3
<1>7. rrPos' \in Slot
  <2>1. last \in 1..MaxRuns
    BY <1>5 DEF Slot
  <2> HIDE DEF last
  <2>2. last % MaxRuns \in 0..(MaxRuns - 1)
    BY <2>1
  <2> QED
    BY <1>6, <2>2 DEF Slot
<1>8. take \in [Slot -> Nat]
  OBVIOUS
<1>9. from # {}
  BY <1>3
<1>10. \A s \in Slot : \A i \in 1..take[s] : s \in from
  OBVIOUS
<1>11. crashed' = IF \E s \in Slot : \E i \in 1..take[s] : buffers[s][i].step # buffers[s][1].step
                  THEN "two steps in a micro batch" ELSE "no"
  BY <1>1, <1>9, <1>10
<1>12. Finished(take) = {s \in from : StepDone(s, Rest(take)[s])}
  BY DEF Finished
<1>13. Packs(take)
  BY <1>1, <1>4, <1>11, <1>12 DEF Packs, Rest
<1> QED
  BY <1>7, <1>8, <1>13

\* Of some messages one has the least step.
LEMMA OldestOf ==
    ASSUME NEW D \in SUBSET Message, D # {}
    PROVE  \E m \in D : \A q \in D : m.batch.step <= q.batch.step
<1> DEFINE T == {m.batch.step : m \in D}
<1>1. IsWellFoundedOn(Less, Nat)
  BY NatLessThanWellFounded, Zenon DEF OpToRel, Less
<1>2. T \subseteq Nat /\ T # {}
  BY DEF Message, Batch
<1>3. PICK x \in T : \A y \in T : <<y, x>> \notin Less
  <2> HIDE DEF T
  <2> QED
    BY <1>1, <1>2, WFMin
<1>4. \A y \in T : x <= y
  <2> HIDE DEF T
  <2> TAKE y \in T
  <2>1. x \in Nat /\ y \in Nat
    BY <1>2, <1>3
  <2>2. <<y, x>> \in Nat \X Nat /\ <<y, x>>[1] = y /\ <<y, x>>[2] = x
    BY <2>1
  <2> QED
    BY <1>3, <2>1, <2>2 DEF Less
<1>5. PICK m \in D : m.batch.step = x
  BY <1>3
<1>6. \A q \in D : q.batch.step \in T
  OBVIOUS
<1> QED
  BY <1>4, <1>5, <1>6

LEMMA DrainedTypes ==
    ASSUME TypeInv, NEW r \in Run
    PROVE  Drained(r) \in SUBSET Message /\ \A m \in Drained(r) : m.run = r
<1>1. \A i \in DOMAIN wire : wire[i] \in Message
  BY DEF TypeInv, OutsideTypes
<1> QED
  BY <1>1 DEF Drained, TypeInv, OutsideTypes

LEMMA SamplesOf ==
    ASSUME NEW r \in Run, NEW gen \in 1..MaxGen, NEW b \in Batch
    PROVE  LET q == Samples(r, gen, b)
           IN  /\ q \in Seq(SampleType) /\ Len(q) = Kept(b.kind) /\ Len(q) \in 0..PerBatch
               /\ \A i \in 1..Len(q) : q[i] = [run |-> r, gen |-> gen, step |-> b.step, n |-> i]
               /\ b.kind = "ok" => Len(q) = PerBatch
<1> DEFINE q == Samples(r, gen, b)
           n == Kept(b.kind)
<1>1. n \in 0..PerBatch /\ (b.kind = "ok" => n = PerBatch)
  BY DEF Kept
<1>2. q = [i \in 1..n |-> [run |-> r, gen |-> gen, step |-> b.step, n |-> i]]
  BY DEF Samples
<1> HIDE DEF n
<1>3. \A i \in 1..n : [run |-> r, gen |-> gen, step |-> b.step, n |-> i] \in SampleType
  BY <1>1 DEF SampleType, Batch
<1>4. q \in Seq(SampleType) /\ Len(q) = n
  <2> HIDE DEF q
  <2> QED
    BY <1>1, <1>2, <1>3
<1> QED
  BY <1>1, <1>2, <1>4 DEF n

New(item, s) == Samples(RunAt(s), item[s].gen, item[s].batch)

\* The slots found have received the batch of item; bad ones evict their run.
Buffered(found, item) ==
    /\ \A s \in found : item[s].run = RunAt(s)
    /\ buffers' = [s \in Slot |-> IF s \in found
          THEN buffers[s] \o New(item, s) ELSE buffers[s]]
    /\ disk' = [r \in Run |->
          IF \E s \in found : idxOf[r] = s /\ item[s].batch.kind # "ok"
          THEN [disk[r] EXCEPT !.evicted = TRUE, !.state = IF @ = "none" THEN "bare" ELSE @]
          ELSE disk[r]]

\* The step to receive next, per slot.
NextStep == [s \in Slot |-> IF s \in Used /\ received[s] = -1 THEN progress[s] ELSE received[s]]

\* The batches are files, of the step that is due.
FromFiles(found, item) ==
    /\ transport = "filesystem" /\ UNCHANGED <<wire, pending, crashed>>
    /\ received' = [s \in Slot |-> IF s \in found THEN NextStep[s] + 1 ELSE NextStep[s]]
    /\ \A s \in found : /\ item[s].batch \in disk[RunAt(s)].files
                        /\ item[s].gen = disk[RunAt(s)].gen
                        /\ item[s].batch.step = NextStep[s]

\* The batches are messages, the oldest of each run.
FromMessages(found, item) ==
    /\ transport = "zmq" /\ wire' = <<>> /\ UNCHANGED received
    /\ pending' = [r \in Run |-> IF idxOf[r] \in found
          THEN Drained(r) \ {item[idxOf[r]]} ELSE Drained(r)]
    /\ \A s \in found : /\ item[s] \in Drained(RunAt(s))
                        /\ \A q \in Drained(RunAt(s)) : item[s].batch.step <= q.batch.step
    /\ crashed' = IF Clash THEN "zmq step already pending" ELSE "no"

\* What a receive does, over either transport: some of the slots in use get
\* the samples of a batch their run has sent, and a run whose batch is bad is
\* evicted.
LEMMA Received ==
    ASSUME TypeInv, Receive
    PROVE  \E found \in SUBSET Used : \E item \in [found -> Message] :
              Buffered(found, item) /\ (FromFiles(found, item) \/ FromMessages(found, item))
<1>1. CASE ReceiveFiles
  <2> DEFINE at == [s \in Slot |-> IF s \in Used /\ received[s] = -1 THEN progress[s] ELSE received[s]]
             found == {s \in Open : \E b \in disk[RunAt(s)].files : b.step = at[s]}
             file(s) == CHOOSE b \in disk[RunAt(s)].files : b.step = at[s]
             item == [s \in found |-> [run |-> RunAt(s), gen |-> disk[RunAt(s)].gen, batch |-> file(s)]]
  <2>1. /\ received' = Advance(at, found)
        /\ Take([s \in found |-> Samples(RunAt(s), disk[RunAt(s)].gen, file(s))],
                {s \in found : file(s).kind # "ok"})
        /\ transport = "filesystem" /\ UNCHANGED <<wire, pending, crashed>>
    BY <1>1 DEF ReceiveFiles
  <2>2. found \in SUBSET Used /\ found \subseteq Slot
    BY RunInSlot DEF Open
  <2>3. ASSUME NEW s \in found
        PROVE  /\ file(s) \in disk[RunAt(s)].files /\ file(s).step = at[s]
               /\ file(s) \in Batch /\ RunAt(s) \in Run /\ disk[RunAt(s)].gen \in 1..MaxGen
    <3>1. \E b \in disk[RunAt(s)].files : b.step = at[s]
      OBVIOUS
    <3>2. file(s) \in disk[RunAt(s)].files /\ file(s).step = at[s]
      <4> HIDE DEF at
      <4> QED
        BY <3>1
    <3>3. RunAt(s) \in Run /\ idxOf[RunAt(s)] # 0
      BY <2>2, RunInSlot DEF Used
    <3> QED
      BY <3>2, <3>3 DEF TypeInv, OutsideTypes, SlotTypes, RunDir
  <2> HIDE DEF at, file
  <2>4. item \in [found -> Message]
    BY <2>3 DEF Message
  <2>5. \A s \in found : /\ item[s].run = RunAt(s) /\ item[s].gen = disk[RunAt(s)].gen
                         /\ item[s].batch = file(s)
    OBVIOUS
  <2> HIDE DEF found, item
  <2>6. buffers' = [s \in Slot |-> IF s \in found
                      THEN buffers[s] \o New(item, s) ELSE buffers[s]]
    BY <2>1, <2>5 DEF Take, New
  <2>7. disk' = [r \in Run |->
                   IF \E s \in found : idxOf[r] = s /\ item[s].batch.kind # "ok"
                   THEN [disk[r] EXCEPT !.evicted = TRUE, !.state = IF @ = "none" THEN "bare" ELSE @]
                   ELSE disk[r]]
    BY <2>1, <2>5, ZenonT(30) DEF Take
  <2>8. received' = [s \in Slot |-> IF s \in found THEN at[s] + 1 ELSE at[s]]
    BY <2>1 DEF Advance
  <2>9. /\ \A s \in found : item[s].run = RunAt(s)
        /\ \A s \in found : /\ item[s].batch \in disk[RunAt(s)].files
                            /\ item[s].gen = disk[RunAt(s)].gen
                            /\ item[s].batch.step = at[s]
    BY <2>3, <2>5
  <2>10. found \in SUBSET Used
    BY <2>2
  <2> WITNESS found \in SUBSET Used
  <2> WITNESS item \in [found -> Message]
  <2> QED
    BY <2>1, <2>6, <2>7, <2>8, <2>9 DEF at, Buffered, FromFiles, NextStep
<1>2. CASE ReceiveMessages
  <2> DEFINE found == {s \in Open : Drained(RunAt(s)) # {}}
             oldest(r) == CHOOSE m \in Drained(r) : \A q \in Drained(r) : m.batch.step <= q.batch.step
             item == [s \in found |-> oldest(RunAt(s))]
  <2>1. /\ pending' = [r \in Run |->
                IF idxOf[r] \in found THEN Drained(r) \ {oldest(r)} ELSE Drained(r)]
        /\ Take([s \in found |-> Samples(RunAt(s), oldest(RunAt(s)).gen, oldest(RunAt(s)).batch)],
                {s \in found : oldest(RunAt(s)).batch.kind # "ok"})
        /\ transport = "zmq" /\ wire' = <<>> /\ UNCHANGED received
        /\ crashed' = IF Clash THEN "zmq step already pending" ELSE "no"
    BY <1>2 DEF ReceiveMessages
  <2>2. found \in SUBSET Used
    BY DEF Open
  <2>3. ASSUME NEW s \in found
        PROVE  /\ oldest(RunAt(s)) \in Drained(RunAt(s)) /\ oldest(RunAt(s)) \in Message
               /\ oldest(RunAt(s)).run = RunAt(s)
               /\ \A q \in Drained(RunAt(s)) : oldest(RunAt(s)).batch.step <= q.batch.step
    <3>1. RunAt(s) \in Run /\ Drained(RunAt(s)) # {}
      BY <2>2, RunInSlot
    <3>2. \E m \in Drained(RunAt(s)) : \A q \in Drained(RunAt(s)) : m.batch.step <= q.batch.step
      BY <3>1, DrainedTypes, OldestOf
    <3>3. /\ oldest(RunAt(s)) \in Drained(RunAt(s))
          /\ \A q \in Drained(RunAt(s)) : oldest(RunAt(s)).batch.step <= q.batch.step
      BY <3>2
    <3> HIDE DEF oldest
    <3> QED
      BY <3>1, <3>3, DrainedTypes
  <2> HIDE DEF oldest
  <2>4. item \in [found -> Message] /\ \A s \in found : item[s] = oldest(RunAt(s))
    BY <2>3
  <2>5. \A r \in Run : idxOf[r] \in found => RunAt(idxOf[r]) = r
    BY <2>2, RunInSlot
  <2> HIDE DEF found, item
  <2>6. buffers' = [s \in Slot |-> IF s \in found
                      THEN buffers[s] \o New(item, s) ELSE buffers[s]]
    BY <2>1, <2>4 DEF Take, New
  <2>7. disk' = [r \in Run |->
                   IF \E s \in found : idxOf[r] = s /\ item[s].batch.kind # "ok"
                   THEN [disk[r] EXCEPT !.evicted = TRUE, !.state = IF @ = "none" THEN "bare" ELSE @]
                   ELSE disk[r]]
    BY <2>1, <2>4 DEF Take
  <2>8. pending' = [r \in Run |-> IF idxOf[r] \in found
                      THEN Drained(r) \ {item[idxOf[r]]} ELSE Drained(r)]
    BY <2>1, <2>4, <2>5
  <2>9. \A s \in found : /\ item[s].run = RunAt(s) /\ item[s] \in Drained(RunAt(s))
                         /\ \A q \in Drained(RunAt(s)) : item[s].batch.step <= q.batch.step
    BY <2>3, <2>4
  <2>10. item \in [found -> Message]
    BY <2>4
  <2> WITNESS found \in SUBSET Used
  <2> WITNESS item \in [found -> Message]
  <2> QED
    BY <2>1, <2>6, <2>7, <2>8, <2>9 DEF Buffered, FromMessages
<1> QED
  BY <1>1, <1>2 DEF Receive

\* The entries of a directory.
LEMMA RunDirs ==
    ASSUME NEW d \in RunDir
    PROVE  /\ d.state \in {"none", "bare", "ready"} /\ d.evicted \in BOOLEAN
           /\ d.gen \in 0..MaxGen /\ d.gen \in Nat /\ d.start \in Nat /\ d.next \in Nat
           /\ d.files \in SUBSET Batch
BY DEF RunDir

\* What may happen to the directory of a run: it is made, configured, its run
\* sends a batch, it is removed, or its run is evicted.
Made(r) ==
    /\ disk[r].state = "none" /\ disk'[r].state = "bare" /\ disk[r].gen < MaxGen
    /\ disk'[r].gen = disk[r].gen + 1 /\ disk'[r].evicted = disk[r].evicted
    /\ disk'[r].start = disk[r].start /\ disk'[r].next = disk[r].next
    /\ disk'[r].files = disk[r].files

Configured(r) ==
    /\ disk[r].state = "bare" /\ ~disk[r].evicted
    /\ disk'[r].state = "ready" /\ ~disk'[r].evicted /\ disk'[r].gen = disk[r].gen
    /\ disk'[r].next = disk'[r].start /\ disk'[r].files = disk[r].files

NextBatch(r, kind) == [step |-> disk[r].next, kind |-> kind]

Sent(r, kind) ==
    /\ disk[r].state = "ready" /\ ~disk[r].evicted
    /\ disk'[r].state = "ready" /\ ~disk'[r].evicted /\ disk'[r].gen = disk[r].gen
    /\ disk'[r].start = disk[r].start /\ disk'[r].next = disk[r].next + 1
    /\ \/ /\ transport = "filesystem" /\ wire' = wire
          /\ disk'[r].files = disk[r].files \cup {NextBatch(r, kind)}
       \/ /\ transport # "filesystem" /\ disk'[r].files = disk[r].files
          /\ wire' = Append(wire, [run |-> r, gen |-> disk[r].gen, batch |-> NextBatch(r, kind)])

Removed(r) ==
    /\ disk'[r].state = "none" /\ ~disk'[r].evicted /\ disk'[r].files = {}
    /\ disk'[r].gen = disk[r].gen /\ disk'[r].start = disk[r].start
    /\ disk'[r].next = disk[r].next

Evicted(r) ==
    /\ disk'[r].evicted /\ disk'[r].state # "none" /\ disk'[r].files = disk[r].files
    /\ disk'[r].gen = disk[r].gen /\ disk'[r].start = disk[r].start
    /\ disk'[r].next = disk[r].next

\* An owner changes the directory of one run, and may send a message.
OwnerChanges(r) ==
    /\ \A q \in Run : q # r => disk'[q] = disk[q]
    /\ \/ wire' = wire /\ (Made(r) \/ Configured(r) \/ (disk[r].state # "none" /\ Removed(r)))
       \/ \E kind \in Kinds : Sent(r, kind)

LEMMA OwnerStep ==
    ASSUME TypeInv, Owner
    PROVE  /\ disk' \in [Run -> RunDir] /\ \E r \in Run : OwnerChanges(r)
           /\ UNCHANGED <<transport, mpc, waited, idxOf, progress, ready, packer,
                          ranks, grid, trained, weights, crashed>>
<1>1. PICK r \in Run : MakeRunDir(r) \/ WriteConfig(r) \/ SendBatch(r) \/ DeleteRunDir(r)
  BY DEF Owner
<1>2. UNCHANGED <<transport, mpc, waited, idxOf, progress, ready, packer, ranks, grid,
                  trained, weights, crashed>>
  BY <1>1 DEF MakeRunDir, WriteConfig, SendBatch, DeleteRunDir, ownerUnchanged
<1>3. disk[r] \in RunDir /\ disk \in [Run -> RunDir]
  BY DEF TypeInv, OutsideTypes
<1>5. ASSUME NEW d \in RunDir, disk' = [disk EXCEPT ![r] = d]
      PROVE  disk' \in [Run -> RunDir] /\ disk'[r] = d /\ \A q \in Run : q # r => disk'[q] = disk[q]
  BY <1>3, <1>5
<1>6. CASE MakeRunDir(r)
  <2> DEFINE d == [disk[r] EXCEPT !.state = "bare", !.gen = disk[r].gen + 1]
  <2>1. disk' = [disk EXCEPT ![r] = d] /\ wire' = wire
    BY <1>3, <1>6 DEF MakeRunDir
  <2>2. disk[r].gen + 1 \in 0..MaxGen /\ disk[r].state = "none" /\ disk[r].gen < MaxGen
    BY <1>3, <1>6, RunDirs DEF MakeRunDir
  <2>3. d \in RunDir /\ d.state = "bare" /\ d.gen = disk[r].gen + 1 /\ d.evicted = disk[r].evicted
        /\ d.start = disk[r].start /\ d.next = disk[r].next /\ d.files = disk[r].files
    BY <1>3, <2>2 DEF RunDir
  <2> HIDE DEF d
  <2>4. disk' \in [Run -> RunDir] /\ disk'[r] = d /\ \A q \in Run : q # r => disk'[q] = disk[q]
    BY <1>5, <2>1, <2>3
  <2> QED
    BY <1>2, <2>1, <2>2, <2>3, <2>4 DEF OwnerChanges, Made
<1>7. CASE WriteConfig(r)
  <2>1. PICK n \in Starts : disk' = [disk EXCEPT ![r] =
                                [disk[r] EXCEPT !.state = "ready", !.start = n, !.next = n]]
    BY <1>3, <1>7 DEF WriteConfig
  <2> DEFINE d == [disk[r] EXCEPT !.state = "ready", !.start = n, !.next = n]
  <2>2. d \in RunDir /\ d.state = "ready" /\ d.gen = disk[r].gen /\ d.evicted = disk[r].evicted
        /\ d.start = d.next /\ d.files = disk[r].files
    BY <1>3 DEF RunDir
  <2>3. disk[r].state = "bare" /\ ~disk[r].evicted /\ wire' = wire
    BY <1>7 DEF WriteConfig
  <2>4. disk' = [disk EXCEPT ![r] = d]
    BY <2>1
  <2> HIDE DEF d
  <2>5. disk' \in [Run -> RunDir] /\ disk'[r] = d /\ \A q \in Run : q # r => disk'[q] = disk[q]
    BY <1>5, <2>2, <2>4
  <2> QED
    BY <1>2, <2>2, <2>3, <2>5 DEF OwnerChanges, Configured
<1>8. CASE SendBatch(r)
  <2>1. PICK kind \in Kinds :
          \/ /\ transport = "filesystem" /\ wire' = wire
             /\ disk' = [disk EXCEPT ![r] = [disk[r] EXCEPT !.next = disk[r].next + 1,
                                                 !.files = disk[r].files \cup {NextBatch(r, kind)}]]
          \/ /\ transport # "filesystem"
             /\ wire' = Append(wire, [run |-> r, gen |-> disk[r].gen, batch |-> NextBatch(r, kind)])
             /\ disk' = [disk EXCEPT ![r] = [disk[r] EXCEPT !.next = disk[r].next + 1]]
    BY <1>3, <1>8 DEF SendBatch, NextBatch
  <2>2. disk[r].state = "ready" /\ ~disk[r].evicted
    BY <1>8 DEF SendBatch
  <2>3. disk[r].next + 1 \in Nat /\ NextBatch(r, kind) \in Batch
        /\ disk[r].files \cup {NextBatch(r, kind)} \in SUBSET Batch
    BY <1>3, RunDirs DEF NextBatch, Batch
  <2> DEFINE c == [disk[r] EXCEPT !.next = disk[r].next + 1,
                                  !.files = disk[r].files \cup {NextBatch(r, kind)}]
             d == [disk[r] EXCEPT !.next = disk[r].next + 1]
  <2>4. c \in RunDir /\ c.state = disk[r].state /\ c.gen = disk[r].gen
        /\ c.evicted = disk[r].evicted /\ c.start = disk[r].start
        /\ c.next = disk[r].next + 1 /\ c.files = disk[r].files \cup {NextBatch(r, kind)}
    BY <1>3, <2>3 DEF RunDir
  <2>5. d \in RunDir /\ d.state = disk[r].state /\ d.gen = disk[r].gen
        /\ d.evicted = disk[r].evicted /\ d.start = disk[r].start
        /\ d.next = disk[r].next + 1 /\ d.files = disk[r].files
    BY <1>3, <2>3 DEF RunDir
  <2>6. \/ transport = "filesystem" /\ wire' = wire /\ disk' = [disk EXCEPT ![r] = c]
        \/ /\ transport # "filesystem" /\ disk' = [disk EXCEPT ![r] = d]
           /\ wire' = Append(wire, [run |-> r, gen |-> disk[r].gen, batch |-> NextBatch(r, kind)])
    BY <2>1
  <2> HIDE DEF c, d
  <2>7. disk' \in [Run -> RunDir] /\ (\A q \in Run : q # r => disk'[q] = disk[q]) /\ Sent(r, kind)
    <3>1. CASE transport = "filesystem"
      <4>1. disk' \in [Run -> RunDir] /\ disk'[r] = c /\ \A q \in Run : q # r => disk'[q] = disk[q]
        BY <1>5, <2>4, <2>6, <3>1
      <4> QED
        BY <2>2, <2>4, <2>6, <3>1, <4>1 DEF Sent
    <3>2. CASE transport # "filesystem"
      <4>1. disk' \in [Run -> RunDir] /\ disk'[r] = d /\ \A q \in Run : q # r => disk'[q] = disk[q]
        BY <1>5, <2>5, <2>6, <3>2
      <4> QED
        BY <2>2, <2>5, <2>6, <3>2, <4>1 DEF Sent
    <3> QED
      BY <3>1, <3>2
  <2> QED
    BY <1>2, <2>7 DEF OwnerChanges
<1>9. CASE DeleteRunDir(r)
  <2> DEFINE d == [disk[r] EXCEPT !.state = "none", !.evicted = FALSE, !.files = {}]
  <2>1. disk' = [disk EXCEPT ![r] = d] /\ wire' = wire /\ disk[r].state # "none"
    BY <1>3, <1>9 DEF DeleteRunDir
  <2>2. d \in RunDir /\ d.state = "none" /\ ~d.evicted /\ d.files = {} /\ d.gen = disk[r].gen
        /\ d.start = disk[r].start /\ d.next = disk[r].next
    BY <1>3 DEF RunDir
  <2> HIDE DEF d
  <2>3. disk' \in [Run -> RunDir] /\ disk'[r] = d /\ \A q \in Run : q # r => disk'[q] = disk[q]
    BY <1>5, <2>1, <2>2
  <2> QED
    BY <1>2, <2>1, <2>2, <2>3 DEF OwnerChanges, Removed
<1> QED
  BY <1>1, <1>6, <1>7, <1>8, <1>9

LEMMA OwnerTypes ==
    ASSUME TypeInv, Owner
    PROVE  TypeInv'
<1>1. PICK r \in Run : OwnerChanges(r)
  BY OwnerStep
<1>2. disk' \in [Run -> RunDir]
      /\ UNCHANGED <<transport, mpc, waited, idxOf, progress, ready, packer, ranks, grid,
                     trained, weights, crashed>>
  BY OwnerStep
<1>3. \A q \in Run : disk[q] \in RunDir /\ disk[q].gen \in Nat /\ disk[q].gen \in 0..MaxGen
                     /\ disk[q].next \in Nat /\ disk'[q].gen \in Nat
  BY <1>2, RunDirs DEF TypeInv, OutsideTypes
<1>4. wire' \in Seq(Message)
  <2>1. CASE wire' = wire
    BY <2>1 DEF TypeInv, OutsideTypes
  <2>2. ASSUME NEW kind \in Kinds, Sent(r, kind) PROVE wire' \in Seq(Message)
    <3>1. disk[r].gen \in 1..MaxGen /\ NextBatch(r, kind) \in Batch
      BY <1>3, <2>2 DEF Sent, TypeInv, SlotTypes, NextBatch, Batch
    <3>2. [run |-> r, gen |-> disk[r].gen, batch |-> NextBatch(r, kind)] \in Message
      BY <3>1 DEF Message
    <3> QED
      BY <2>2, <3>2, SMTT(30) DEF Sent, TypeInv, OutsideTypes
  <2> QED
    BY <1>1, <2>1, <2>2 DEF OwnerChanges
<1>5. OutsideTypes'
  BY <1>2, <1>4 DEF TypeInv, OutsideTypes, packer
<1>6. SlotTypes'
  <2>1. ASSUME NEW q \in Run, idxOf[q] # 0 \/ disk'[q].state # "none" PROVE disk'[q].gen >= 1
    <3>1. CASE q = r
      <4>1. \/ disk'[r].gen = disk[r].gen + 1
            \/ disk'[r].gen = disk[r].gen /\ disk[r].state # "none"
        BY <1>1 DEF OwnerChanges, Made, Configured, Sent, Removed
      <4> QED
        BY <1>3, <3>1, <4>1 DEF TypeInv, SlotTypes
    <3>2. CASE q # r
      BY <1>1, <2>1, <3>2 DEF OwnerChanges, TypeInv, SlotTypes
    <3> QED
      BY <3>1, <3>2
  <2> QED
    BY <1>2, <2>1 DEF TypeInv, SlotTypes, ranks
<1> QED
  BY <1>2, <1>5, <1>6 DEF TypeInv, PackerTypes, FlagTypes, TrainTypes, packer

\* Receiving evicts at most runs that have a slot; broadcasting removes at most
\* directories of such runs.
LEMMA OtherDirs ==
    ASSUME TypeInv, NEW r \in Run, Receive \/ Broadcast
    PROVE  \/ disk'[r] = disk[r]
           \/ idxOf[r] # 0 /\ Receive /\ Evicted(r)
           \/ idxOf[r] # 0 /\ Broadcast /\ Removed(r)
<1>1. disk[r] \in RunDir
  BY DEF TypeInv, OutsideTypes
<1>2. CASE Receive
  <2> DEFINE d == [disk[r] EXCEPT !.evicted = TRUE, !.state = IF @ = "none" THEN "bare" ELSE @]
  <2>1. PICK found \in SUBSET Used : \E item \in [found -> Message] : Buffered(found, item)
    BY <1>2, Received
  <2>2. disk'[r] = disk[r] \/ (idxOf[r] # 0 /\ disk'[r] = d)
    <3>1. PICK item \in [found -> Message] : Buffered(found, item)
      BY <2>1
    <3>2. \/ disk'[r] = disk[r]
          \/ (\E s \in found : idxOf[r] = s) /\ disk'[r] = d
      BY <3>1 DEF Buffered
    <3> HIDE DEF d
    <3> QED
      BY <3>2 DEF Used
  <2>3. d.evicted /\ d.state # "none" /\ d.files = disk[r].files /\ d.gen = disk[r].gen
        /\ d.start = disk[r].start /\ d.next = disk[r].next
    BY <1>1 DEF RunDir
  <2> HIDE DEF d
  <2> QED
    BY <1>2, <2>2, <2>3 DEF Evicted
<1>3. CASE Broadcast
  <2> DEFINE d == [disk[r] EXCEPT !.state = "none", !.evicted = FALSE, !.files = {}]
  <2>1. disk'[r] = disk[r] \/ (idxOf[r] # 0 /\ disk'[r] = d)
    BY <1>3 DEF Broadcast
  <2>2. d.state = "none" /\ ~d.evicted /\ d.files = {} /\ d.gen = disk[r].gen
        /\ d.start = disk[r].start /\ d.next = disk[r].next
    BY <1>1 DEF RunDir
  <2> HIDE DEF d
  <2> QED
    BY <1>3, <2>1, <2>2 DEF Removed
<1> QED
  BY <1>2, <1>3

\* Receiving fills buffers and may evict.
LEMMA ReceiveTypes ==
    ASSUME TypeInv, Receive
    PROVE  TypeInv'
<1>0. PICK found \in SUBSET Used : \E item \in [found -> Message] :
        Buffered(found, item) /\ (FromFiles(found, item) \/ FromMessages(found, item))
  BY Received
<1>1. PICK item \in [found -> Message] :
        Buffered(found, item) /\ (FromFiles(found, item) \/ FromMessages(found, item))
  BY <1>0
<1>2. UNCHANGED <<transport, waited, idxOf, progress, ready, rrPos, ranks, grid, trained>>
      /\ mpc' = "rediscover"
  BY DEF Receive, ReceiveFiles, ReceiveMessages
<1>3. ASSUME NEW r \in Run
      PROVE  disk'[r] \in RunDir /\ disk'[r].gen = disk[r].gen
             /\ (disk'[r].state = "none" \/ disk[r].state # "none" \/ idxOf[r] # 0)
  <2> DEFINE d == [disk[r] EXCEPT !.evicted = TRUE, !.state = IF @ = "none" THEN "bare" ELSE @]
  <2>1. disk[r] \in RunDir
    BY DEF TypeInv, OutsideTypes
  <2>2. d \in RunDir /\ d.gen = disk[r].gen
    BY <2>1 DEF RunDir
  <2> HIDE DEF d
  <2>3. CASE \E s \in found : idxOf[r] = s /\ item[s].batch.kind # "ok"
    <3>1. disk'[r] = d
      BY <1>1, <2>3 DEF d, Buffered
    <3>2. idxOf[r] # 0
      BY <2>3 DEF Used
    <3> QED
      BY <2>2, <3>1, <3>2
  <2>4. CASE ~\E s \in found : idxOf[r] = s /\ item[s].batch.kind # "ok"
    BY <1>1, <2>1, <2>4 DEF Buffered
  <2> QED
    BY <2>3, <2>4
<1>4. disk' \in [Run -> RunDir]
  <2>1. disk' = [r \in Run |-> disk'[r]]
    BY <1>1 DEF Buffered
  <2> QED
    BY <1>3, <2>1
<1>5. OutsideTypes'
  <2>1. wire' \in Seq(Message) /\ pending' \in [Run -> SUBSET Message]
        /\ \A r \in Run : \A m \in pending'[r] : m.run = r
    <3>1. CASE UNCHANGED <<wire, pending>>
      BY <3>1 DEF TypeInv, OutsideTypes
    <3>2. CASE /\ wire' = <<>>
               /\ pending' = [r \in Run |-> IF idxOf[r] \in found
                     THEN Drained(r) \ {item[idxOf[r]]} ELSE Drained(r)]
      <4>1. wire' \in Seq(Message)
        BY <3>2
      <4>2. \A r \in Run : pending'[r] \subseteq Drained(r)
        BY <3>2
      <4> QED
        BY <3>2, <4>1, <4>2, DrainedTypes
    <3> QED
      BY <1>1, <3>1, <3>2 DEF FromFiles, FromMessages
  <2> QED
    BY <1>2, <1>4, <2>1 DEF TypeInv, OutsideTypes
<1>6. SlotTypes'
  BY <1>2, <1>3 DEF TypeInv, SlotTypes, ranks
<1>7. PackerTypes'
  <2>1. buffers' \in [Slot -> Seq(SampleType)]
    <3>1. ASSUME NEW s \in found
          PROVE  buffers[s] \o New(item, s) \in Seq(SampleType)
      <4>1. RunAt(s) \in Run /\ s \in Slot
        BY RunInSlot
      <4>2. item[s].gen \in 1..MaxGen /\ item[s].batch \in Batch
        BY DEF Message
      <4>3. New(item, s) \in Seq(SampleType)
        BY <4>1, <4>2, SamplesOf DEF New
      <4> QED
        BY <4>1, <4>3, RangeCat DEF TypeInv, PackerTypes
    <3> QED
      BY <1>1, <3>1 DEF Buffered, TypeInv, PackerTypes
  <2>2. received' \in [Slot -> Nat \cup {-1}]
    <3>1. \A s \in Slot : NextStep[s] \in Nat \cup {-1}
      BY DEF NextStep, TypeInv, PackerTypes
    <3>2. \/ received' = received
          \/ received' = [s \in Slot |-> IF s \in found THEN NextStep[s] + 1 ELSE NextStep[s]]
      BY <1>1 DEF FromFiles, FromMessages
    <3>3. \A s \in Slot : NextStep[s] + 1 \in Nat \cup {-1}
      BY <3>1
    <3> QED
      BY <3>1, <3>2, <3>3 DEF TypeInv, PackerTypes
  <2> QED
    BY <1>2, <2>1, <2>2 DEF TypeInv, PackerTypes
<1> QED
  BY <1>2, <1>5, <1>6, <1>7 DEF TypeInv, FlagTypes, TrainTypes

LEMMA DiscoverTypes ==
    ASSUME TypeInv, Discover
    PROVE  TypeInv'
<1>1. /\ DiscoverRuns /\ mpc' \in {"receive", "pack"}
      /\ UNCHANGED <<transport, waited, outside, ready, rrPos, ranks, grid, trained>>
  BY DEF Discover
<1>2. OutsideTypes'
  BY <1>1, Discovered DEF TypeInv, OutsideTypes, outside
<1>3. ASSUME NEW r \in Run, idxOf'[r] # 0 \/ disk[r].state # "none"
      PROVE  disk[r].gen >= 1
  BY <1>1, <1>3, Discovered DEF TypeInv, SlotTypes, Listed
<1>4. SlotTypes'
  BY <1>1, <1>3, Discovered DEF TypeInv, SlotTypes, outside, ranks
<1>5. PackerTypes'
  BY <1>1, Discovered DEF TypeInv, PackerTypes
<1> QED
  BY <1>1, <1>2, <1>4, <1>5 DEF TypeInv, FlagTypes, TrainTypes

LEMMA PackTypes ==
    ASSUME TypeInv, Pack
    PROVE  TypeInv'
<1>1. PICK take \in [Slot -> Nat] : Packs(take)
  BY Packed
<1>2. UNCHANGED <<transport, outside, idxOf, received, pending, ranks, trained>>
      /\ mpc' = "sync" /\ waited' = FALSE
  BY DEF Pack
<1>3. \A s \in Slot : /\ SubSeq(buffers[s], 1, take[s]) \in Seq(SampleType)
                      /\ SubSeq(buffers[s], take[s] + 1, Len(buffers[s])) \in Seq(SampleType)
  BY <1>1, RangeCut DEF Packs, TypeInv, PackerTypes
<1>4. PackerTypes'
  <2>1. buffers' \in [Slot -> Seq(SampleType)]
    BY <1>1, <1>3 DEF Packs, Rest
  <2>2. progress' \in [Slot -> Nat]
    <3>1. \A s \in Slot : progress[s] \in Nat /\ progress[s] + 1 \in Nat
      BY DEF TypeInv, PackerTypes
    <3> QED
      BY <1>1, <3>1 DEF Packs
  <2>3. rrPos' \in Slot
    BY Packed
  <2> QED
    BY <1>2, <2>1, <2>2, <2>3 DEF TypeInv, PackerTypes
<1>5. FlagTypes'
  <2>1. ready' = [s \in Slot |-> ready[s] \/ s \in Finished(take)]
    BY <1>1 DEF Packs
  <2>2. ready' \in [Slot -> BOOLEAN]
    BY <2>1, Zenon
  <2>3. waited' \in BOOLEAN
    BY <1>2, Zenon
  <2> QED
    BY <2>2, <2>3 DEF FlagTypes
<1>6. TrainTypes'
  <2>1. ASSUME NEW s \in Slot, take[s] > 0
        PROVE  [slot |-> s, run |-> RunAt(s), samples |-> SubSeq(buffers[s], 1, take[s])] \in MicroBatch
    <3>1. s \in Used
      BY <1>1, <2>1 DEF Packs
    <3>2. RunAt(s) \in Run
      BY <3>1, RunInSlot
    <3> QED
      BY <1>3, <3>2 DEF MicroBatch
  <2> QED
    BY <1>1, <1>2, <2>1 DEF Packs, TypeInv, TrainTypes
<1>7. OutsideTypes' /\ SlotTypes'
  BY <1>2 DEF TypeInv, OutsideTypes, SlotTypes, outside, ranks
<1> QED
  BY <1>4, <1>5, <1>6, <1>7 DEF TypeInv

LEMMA InGridTypes ==
    ASSUME TypeInv
    PROVE  /\ InGrid \subseteq SampleType
           /\ \A x : x \in InGrid <=> \E m \in grid : x \in Range(m.samples)
<1>1. \A m \in grid : m.samples \in Seq(SampleType)
  BY DEF TypeInv, TrainTypes, MicroBatch
<1>2. \A m \in grid : Range(m.samples) \subseteq SampleType
  BY <1>1 DEF Range
<1> QED
  BY <1>2 DEF InGrid

LEMMA NextTypes ==
    ASSUME TypeInv, [Next]_vars
    PROVE  TypeInv'
<1>1. CASE WaitForSamples
  <2>1. /\ UNCHANGED <<transport, outside, idxOf, progress, ready, packer, ranks, grid, trained>>
        /\ mpc' = "discover" /\ waited' = TRUE
    BY <1>1 DEF WaitForSamples
  <2> QED
    BY <2>1 DEF TypeInv, OutsideTypes, SlotTypes, PackerTypes, FlagTypes, TrainTypes,
       outside, packer, ranks
<1>2. CASE Synchronize
  <2>1. /\ UNCHANGED <<transport, waited, outside, idxOf, progress, ready, packer, grid, trained>>
        /\ mpc' = "train" /\ lastSynced' = idxOf
        /\ rankIdx' = [r \in Run |-> IF r \in Created(rankIdx, idxOf) THEN idxOf[r] ELSE KeptView[r]]
    BY <1>2 DEF Synchronize
  <2>2. rankIdx' \in [Run -> 0..MaxRuns]
    BY <2>1 DEF KeptView, TypeInv, SlotTypes
  <2> QED
    BY <2>1, <2>2 DEF TypeInv, OutsideTypes, SlotTypes, PackerTypes, FlagTypes, TrainTypes,
       outside, packer
<1>3. CASE Train
  <2>1. /\ UNCHANGED <<transport, waited, outside, idxOf, progress, ready, packer,
                       lastSynced, rankIdx>>
        /\ mpc' = "broadcast" /\ grid' = {} /\ trained' = trained \cup InGrid
    BY <1>3 DEF Train
  <2> QED
    BY <2>1, InGridTypes DEF TypeInv, OutsideTypes, SlotTypes, PackerTypes, FlagTypes,
       TrainTypes, outside, packer
<1>4. CASE Broadcast
  <2>1. /\ UNCHANGED <<transport, waited, wire, idxOf, progress, packer, ranks, grid, trained>>
        /\ mpc' = "discover" /\ ready' = [s \in Slot |-> FALSE]
    BY <1>4 DEF Broadcast
  <2>2. PICK to : disk' = [r \in Run |->
                  IF r \in to /\ disk[r].state # "ready"
                  THEN [disk[r] EXCEPT !.state = "none", !.evicted = FALSE, !.files = {}]
                  ELSE disk[r]]
    BY <1>4 DEF Broadcast
  <2>3. ASSUME NEW r \in Run
        PROVE  /\ disk'[r] \in RunDir /\ disk'[r].gen = disk[r].gen
               /\ disk'[r].state # "none" => disk[r].state # "none"
    <3> DEFINE d == [disk[r] EXCEPT !.state = "none", !.evicted = FALSE, !.files = {}]
    <3>1. disk[r] \in RunDir
      BY DEF TypeInv, OutsideTypes
    <3>2. d \in RunDir /\ d.gen = disk[r].gen /\ d.state = "none"
      BY <3>1 DEF RunDir
    <3> HIDE DEF d
    <3>3. disk'[r] \in {d, disk[r]}
      BY <2>2 DEF d
    <3> QED
      BY <3>1, <3>2, <3>3
  <2>4. disk' \in [Run -> RunDir]
    BY <2>2, <2>3
  <2>5. ready' \in [Slot -> BOOLEAN]
    BY <2>1, Zenon
  <2>6. FlagTypes'
    BY <2>1, <2>5 DEF TypeInv, FlagTypes
  <2> QED
    BY <2>1, <2>3, <2>4, <2>6 DEF TypeInv, OutsideTypes, SlotTypes, PackerTypes,
       TrainTypes, packer, ranks
<1>5. CASE UNCHANGED vars
  BY <1>5 DEF vars, TypeInv, OutsideTypes, SlotTypes, PackerTypes, FlagTypes, TrainTypes,
     outside, packer, ranks
<1> QED
  BY <1>1, <1>2, <1>3, <1>4, <1>5, OwnerTypes, ReceiveTypes, DiscoverTypes, PackTypes
  DEF Next, Trainer

LEMMA TypesHold == Spec => []TypeInv
<1>1. TypeInv /\ [Next]_vars => TypeInv'
  BY NextTypes
<1> QED
  BY <1>1, InitTypes, PTL DEF Spec

\* The state keeps its types, however often a run id is used: no two runs are
\* in one slot, and what the ZMQ receiver holds for a run that run has sent
\* (trainer/runs.py discover_runs, packer.py, transport/zmq.py).
THEOREM TypeCorrect == Spec => []TypeOK
<1>1. TypeInv => TypeOK
  <2> SUFFICES ASSUME TypeInv PROVE TypeOK
    OBVIOUS
  <2>1. \A r \in Run : disk[r].state \in {"none", "bare", "ready"} /\ disk[r].gen \in 0..MaxGen
    BY RunDirs DEF TypeInv, OutsideTypes
  <2> QED
    BY <2>1 DEF TypeInv, OutsideTypes, SlotTypes, PackerTypes, FlagTypes, TrainTypes, TypeOK
<1> QED
  BY <1>1, TypesHold, PTL

-----------------------------------------------------------------------------
(* What a step may do to a directory, to the messages of a run, to what has *)
(* been taken.                                                              *)

LEMMA DirSteps ==
    ASSUME TypeInv, [Next]_vars, NEW r \in Run
    PROVE  \/ disk'[r] = disk[r]
           \/ Made(r) \/ Configured(r) \/ \E kind \in Kinds : Sent(r, kind)
           \/ Removed(r) /\ (disk[r].state # "none" \/ idxOf[r] # 0)
           \/ Evicted(r) /\ idxOf[r] # 0 /\ Receive
<1>1. CASE Owner
  <2>1. PICK q \in Run : OwnerChanges(q)
    BY <1>1, OwnerStep
  <2>2. CASE q = r
    BY <2>1, <2>2 DEF OwnerChanges
  <2>3. CASE q # r
    BY <2>1, <2>3 DEF OwnerChanges
  <2> QED
    BY <2>2, <2>3
<1>2. CASE Receive \/ Broadcast
  BY <1>2, OtherDirs
<1>3. CASE Discover \/ WaitForSamples \/ Pack \/ Synchronize \/ Train \/ UNCHANGED vars
  BY <1>3 DEF Discover, WaitForSamples, Pack, Synchronize, Train, vars, outside
<1> QED
  BY <1>1, <1>2, <1>3 DEF Next, Trainer

LEMMA DrainedSteps ==
    ASSUME TypeInv, [Next]_vars, NEW r \in Run
    PROVE  \/ \A m : m \in Drained(r)' => m \in Drained(r)
           \/ \E kind \in Kinds :
                 /\ Sent(r, kind) /\ transport # "filesystem"
                 /\ \A m : m \in Drained(r)' <=>
                       \/ m \in Drained(r)
                       \/ m = [run |-> r, gen |-> disk[r].gen, batch |-> NextBatch(r, kind)]
<1> DEFINE mine(w) == {w[i] : i \in {j \in DOMAIN w : w[j].run = r}}
<1>1. Drained(r) = pending[r] \cup mine(wire) /\ Drained(r)' = pending'[r] \cup mine(wire')
  BY DEF Drained
<1>2. CASE UNCHANGED <<pending, wire>>
  BY <1>1, <1>2
<1>3. CASE Owner
  <2>1. PICK q \in Run : OwnerChanges(q)
    BY <1>3, OwnerStep
  <2>2. pending' = pending
    BY <1>3, OwnerStep DEF packer
  <2>3. ASSUME NEW kind \in Kinds, Sent(q, kind), wire' # wire
        PROVE  \/ \A m : m \in Drained(r)' => m \in Drained(r)
               \/ /\ r = q /\ transport # "filesystem"
                  /\ \A m : m \in Drained(r)' <=>
                       \/ m \in Drained(r)
                       \/ m = [run |-> r, gen |-> disk[r].gen, batch |-> NextBatch(r, kind)]
    <3> DEFINE new == [run |-> q, gen |-> disk[q].gen, batch |-> NextBatch(q, kind)]
    <3>1. wire' = Append(wire, new) /\ transport # "filesystem" /\ new.run = q
      BY <2>3 DEF Sent
    <3> HIDE DEF new
    <3>2. /\ DOMAIN wire' = 1..(Len(wire) + 1) /\ DOMAIN wire = 1..Len(wire) /\ Len(wire) \in Nat
          /\ wire'[Len(wire) + 1] = new /\ \A i \in 1..Len(wire) : wire'[i] = wire[i]
      <4>1. wire \in Seq(Message)
        BY DEF TypeInv, OutsideTypes
      <4> QED
        BY <3>1, <4>1
    <3>3. ASSUME q # r PROVE mine(wire') = mine(wire)
      BY <3>1, <3>2, <3>3
    <3>4. ASSUME q = r PROVE mine(wire') = mine(wire) \cup {new}
      <4>1. mine(wire') \subseteq mine(wire) \cup {new}
        BY <3>1, <3>2, <3>4
      <4>2. mine(wire) \subseteq mine(wire')
        BY <3>2
      <4>3. new \in mine(wire')
        BY <3>1, <3>2, <3>4
      <4> QED
        BY <4>1, <4>2, <4>3
    <3> HIDE DEF mine
    <3> QED
      BY <1>1, <2>2, <3>1, <3>3, <3>4 DEF new
  <2> QED
    BY <1>2, <2>1, <2>2, <2>3 DEF OwnerChanges
<1>4. CASE Receive
  <2>1. PICK found \in SUBSET Used : \E item \in [found -> Message] :
          FromFiles(found, item) \/ FromMessages(found, item)
    BY <1>4, Received
  <2>2. PICK item \in [found -> Message] : FromFiles(found, item) \/ FromMessages(found, item)
    BY <2>1
  <2>3. CASE FromFiles(found, item)
    BY <1>2, <2>3 DEF FromFiles
  <2>4. CASE FromMessages(found, item)
    <3>1. pending'[r] \subseteq Drained(r) /\ wire' = <<>>
      BY <2>4 DEF FromMessages
    <3>2. mine(wire') = {}
      BY <3>1
    <3> QED
      BY <1>1, <3>1, <3>2
  <2> QED
    BY <2>2, <2>3, <2>4
<1>5. CASE Discover
  <2>1. pending' = pending
    BY <1>5, Discovered DEF Discover
  <2> QED
    BY <1>2, <1>5, <2>1 DEF Discover, outside
<1>6. CASE WaitForSamples \/ Pack \/ Synchronize \/ Train \/ Broadcast \/ UNCHANGED vars
  BY <1>2, <1>6 DEF WaitForSamples, Pack, Synchronize, Train, Broadcast, vars, outside, packer
<1> QED
  BY <1>3, <1>4, <1>5, <1>6 DEF Next, Trainer

-----------------------------------------------------------------------------
(* What has been taken off the transport. *)

\* The samples taken off the transport so far.
Taken == trained \cup InGrid \cup UNION {Range(buffers[s]) : s \in Slot}

LEMMA InTaken ==
    \A x : x \in Taken <=> \/ x \in trained \/ x \in InGrid
                           \/ \E s \in Slot : x \in Range(buffers[s])
BY DEF Taken

LEMMA TakenTypes ==
    ASSUME TypeInv
    PROVE  /\ \A s \in Slot : Range(buffers[s]) \subseteq SampleType
           /\ InGrid \subseteq SampleType /\ trained \subseteq SampleType /\ Taken \subseteq SampleType
<1>1. \A s \in Slot : Range(buffers[s]) \subseteq SampleType
  <2>1. ASSUME NEW s \in Slot PROVE buffers[s] \in Seq(SampleType)
    BY DEF TypeInv, PackerTypes
  <2>2. \A s \in Slot : \A i \in DOMAIN buffers[s] : buffers[s][i] \in SampleType
    BY <2>1
  <2> QED
    BY <2>2 DEF Range
<1> QED
  BY <1>1, InGridTypes, InTaken DEF TypeInv, TrainTypes

\* The samples of the batch a slot has received.
LEMMA NewSamples ==
    ASSUME TypeInv, NEW found \in SUBSET Used, NEW item \in [found -> Message], NEW s \in found
    PROVE  /\ s \in Slot /\ RunAt(s) \in Run /\ idxOf[RunAt(s)] = s /\ idxOf[RunAt(s)] # 0
           /\ item[s] \in Message /\ item[s].gen \in 1..MaxGen /\ item[s].batch \in Batch
           /\ item[s].batch.step \in Nat /\ item[s].batch.kind \in Kinds
           /\ New(item, s) \in Seq(SampleType)
           /\ \A i \in 1..Len(New(item, s)) :
                 New(item, s)[i] = [run |-> RunAt(s), gen |-> item[s].gen,
                                    step |-> item[s].batch.step, n |-> i]
           /\ Len(New(item, s)) \in 0..PerBatch
           /\ item[s].batch.kind = "ok" => Len(New(item, s)) = PerBatch
<1>1. s \in Slot /\ RunAt(s) \in Run /\ idxOf[RunAt(s)] = s /\ idxOf[RunAt(s)] # 0
  BY RunInSlot DEF Used
<1>2. /\ item[s] \in Message /\ item[s].gen \in 1..MaxGen /\ item[s].batch \in Batch
      /\ item[s].batch.step \in Nat /\ item[s].batch.kind \in Kinds
  BY DEF Message, Batch
<1>3. /\ New(item, s) \in Seq(SampleType)
      /\ \A i \in 1..Len(New(item, s)) :
            New(item, s)[i] = [run |-> RunAt(s), gen |-> item[s].gen,
                               step |-> item[s].batch.step, n |-> i]
      /\ Len(New(item, s)) \in 0..PerBatch
      /\ item[s].batch.kind = "ok" => Len(New(item, s)) = PerBatch
  BY <1>1, <1>2, SamplesOf DEF New
<1> QED
  BY <1>1, <1>2, <1>3

LEMMA NewSample ==
    ASSUME TypeInv, NEW found \in SUBSET Used, NEW item \in [found -> Message], NEW s \in found,
           NEW x \in Range(New(item, s))
    PROVE  /\ x.run \in Run /\ x.run = RunAt(s) /\ idxOf[x.run] = s /\ idxOf[x.run] # 0
           /\ x.gen = item[s].gen /\ x.step = item[s].batch.step /\ x.step \in Nat
<1>1. DOMAIN New(item, s) = 1..Len(New(item, s))
  BY NewSamples
<1>2. PICK i \in 1..Len(New(item, s)) : x = New(item, s)[i]
  BY <1>1 DEF Range
<1>3. x = [run |-> RunAt(s), gen |-> item[s].gen, step |-> item[s].batch.step, n |-> i]
  BY <1>2, NewSamples
<1> QED
  BY <1>3, NewSamples

\* What a slot has received.
LEMMA Appended ==
    ASSUME TypeInv, NEW found \in SUBSET Used, NEW item \in [found -> Message],
           Buffered(found, item), NEW s \in Slot
    PROVE  /\ s \notin found => buffers'[s] = buffers[s]
           /\ s \in found => buffers'[s] = buffers[s] \o New(item, s)
           /\ \A x : x \in Range(buffers'[s]) <=>
                 x \in Range(buffers[s]) \/ (s \in found /\ x \in Range(New(item, s)))
<1>1. CASE s \notin found
  BY <1>1 DEF Buffered
<1>2. CASE s \in found
  <2>1. buffers[s] \in Seq(SampleType) /\ New(item, s) \in Seq(SampleType)
    BY <1>2, NewSamples, ZenonT(30) DEF TypeInv, PackerTypes
  <2>2. buffers'[s] = buffers[s] \o New(item, s)
    BY <1>2 DEF Buffered
  <2>3. Range(buffers'[s]) = Range(buffers[s]) \cup Range(New(item, s))
    BY <2>1, <2>2, RangeCat
  <2> QED
    BY <1>2, <2>2, <2>3
<1> QED
  BY <1>1, <1>2

\* What a slot gives to a pack and what it keeps.
Share(take, s) == SubSeq(buffers[s], 1, take[s])

LEMMA Given ==
    ASSUME TypeInv, NEW take \in [Slot -> Nat], Packs(take), NEW s \in Slot
    PROVE  /\ buffers[s] \in Seq(SampleType) /\ take[s] \in 0..Len(buffers[s])
           /\ Share(take, s) \in Seq(SampleType) /\ Len(Share(take, s)) = take[s]
           /\ buffers'[s] \in Seq(SampleType) /\ Len(buffers'[s]) = Len(buffers[s]) - take[s]
           /\ \A i \in 1..take[s] : Share(take, s)[i] = buffers[s][i]
           /\ \A i \in 1..Len(buffers'[s]) : /\ buffers'[s][i] = buffers[s][i + take[s]]
                                             /\ i + take[s] \in 1..Len(buffers[s])
           /\ Range(buffers[s]) = Range(Share(take, s)) \cup Range(buffers'[s])
           /\ take[s] = 0 => Range(Share(take, s)) = {}
<1>1. buffers[s] \in Seq(SampleType) /\ take[s] \in 0..Len(buffers[s])
  BY DEF Packs, TypeInv, PackerTypes
<1>2. buffers'[s] = SubSeq(buffers[s], take[s] + 1, Len(buffers[s]))
  BY DEF Packs, Rest
<1>3. /\ Share(take, s) \in Seq(SampleType) /\ Len(Share(take, s)) = take[s]
      /\ buffers'[s] \in Seq(SampleType) /\ Len(buffers'[s]) = Len(buffers[s]) - take[s]
      /\ \A i \in 1..take[s] : Share(take, s)[i] = buffers[s][i]
      /\ \A i \in 1..Len(buffers'[s]) : /\ buffers'[s][i] = buffers[s][i + take[s]]
                                        /\ i + take[s] \in 1..Len(buffers[s])
      /\ Range(buffers[s]) = Range(Share(take, s)) \cup Range(buffers'[s])
  <2> DEFINE q == buffers[s]
             n == take[s]
  <2>1. Share(take, s) = SubSeq(q, 1, n) /\ buffers'[s] = SubSeq(q, n + 1, Len(q))
    BY <1>2 DEF Share
  <2>2. q \in Seq(SampleType) /\ n \in 0..Len(q)
    BY <1>1
  <2> HIDE DEF q, n
  <2>3. LET front == SubSeq(q, 1, n)
            rest == SubSeq(q, n + 1, Len(q))
        IN  /\ front \in Seq(SampleType) /\ Len(front) = n /\ \A i \in 1..n : front[i] = q[i]
            /\ rest \in Seq(SampleType) /\ Len(rest) = Len(q) - n
            /\ \A i \in 1..Len(rest) : rest[i] = q[i + n] /\ i + n \in 1..Len(q)
            /\ Range(q) = Range(front) \cup Range(rest)
    BY <2>2, RangeCut
  <2> QED
    BY <2>1, <2>3, Zenon DEF q, n
<1>4. ASSUME take[s] = 0 PROVE Range(Share(take, s)) = {}
  <2>1. DOMAIN Share(take, s) = {}
    BY <1>3, <1>4
  <2> QED
    BY <2>1 DEF Range
<1> QED
  BY <1>1, <1>3, <1>4

LEMMA GridAfter ==
    ASSUME TypeInv, NEW take \in [Slot -> Nat], Packs(take)
    PROVE  /\ \A m \in grid' : \E s \in Slot : /\ take[s] > 0 /\ s \in Used /\ m.slot = s
                                               /\ m.run = RunAt(s) /\ m.samples = Share(take, s)
           /\ \A x : x \in InGrid' <=> \E s \in Slot : x \in Range(Share(take, s))
<1>1. grid' = {[slot |-> s, run |-> RunAt(s), samples |-> Share(take, s)] :
                  s \in {t \in Slot : take[t] > 0}}
  BY DEF Packs, Share
<1>2. ASSUME NEW m \in grid'
      PROVE  \E s \in Slot : /\ take[s] > 0 /\ s \in Used /\ m.slot = s
                             /\ m.run = RunAt(s) /\ m.samples = Share(take, s)
  <2>1. PICK s \in Slot : /\ take[s] > 0
                          /\ m = [slot |-> s, run |-> RunAt(s), samples |-> Share(take, s)]
    BY <1>1
  <2>2. s \in Used
    BY <2>1 DEF Packs
  <2> QED
    BY <2>1, <2>2
<1>3. \A x : x \in InGrid' <=> \E m \in grid' : x \in Range(m.samples)
  BY DEF InGrid
<1>4. ASSUME NEW s \in Slot, NEW x \in Range(Share(take, s)) PROVE x \in InGrid'
  <2>1. take[s] > 0
    BY <1>4, Given
  <2> DEFINE m == [slot |-> s, run |-> RunAt(s), samples |-> Share(take, s)]
  <2>2. m \in grid' /\ m.samples = Share(take, s)
    BY <1>1, <2>1
  <2> QED
    BY <1>3, <1>4, <2>2
<1>5. ASSUME NEW x \in InGrid' PROVE \E s \in Slot : x \in Range(Share(take, s))
  BY <1>2, <1>3
<1> QED
  BY <1>2, <1>4, <1>5

\* Only a receive takes more.
LEMMA TakenSteps ==
    ASSUME TypeInv, [Next]_vars
    PROVE  \/ \A x : x \in Taken' => x \in Taken
           \/ Receive
<1>0. \A x : x \in Taken' <=> \/ x \in trained' \/ x \in InGrid'
                              \/ \E s \in Slot : x \in Range(buffers'[s])
  BY DEF Taken
<1>1. CASE Discover
  <2>1. UNCHANGED <<trained, grid>> /\ DiscoverRuns
    BY <1>1 DEF Discover
  <2>2. \A s \in Slot : buffers'[s] = <<>> \/ buffers'[s] = buffers[s]
    BY <2>1, Discovered
  <2>3. Range(<<>>) = {}
    BY DEF Range
  <2>4. InGrid' = InGrid
    BY <2>1 DEF InGrid
  <2> QED
    BY <1>0, <2>1, <2>2, <2>3, <2>4, InTaken
<1>2. CASE Pack
  <2>1. PICK take \in [Slot -> Nat] : Packs(take)
    BY <1>2, Packed
  <2>2. trained' = trained
    BY <1>2 DEF Pack
  <2>3. \A s \in Slot : Range(buffers[s]) = Range(Share(take, s)) \cup Range(buffers'[s])
    BY <2>1, Given
  <2>4. \A x : x \in InGrid' <=> \E s \in Slot : x \in Range(Share(take, s))
    BY <2>1, GridAfter
  <2> QED
    BY <1>0, <2>2, <2>3, <2>4, InTaken
<1>3. CASE Train
  <2>1. trained' = trained \cup InGrid /\ grid' = {} /\ buffers' = buffers
    BY <1>3 DEF Train, packer
  <2>2. InGrid' = {}
    BY <2>1 DEF InGrid
  <2> QED
    BY <1>0, <2>1, <2>2, InTaken
<1>4. CASE Owner \/ WaitForSamples \/ Synchronize \/ Broadcast \/ UNCHANGED vars
  <2>1. UNCHANGED <<trained, grid, buffers>>
    BY <1>4, OwnerStep DEF WaitForSamples, Synchronize, Broadcast, vars, packer
  <2>2. InGrid' = InGrid
    BY <2>1 DEF InGrid
  <2> QED
    BY <1>0, <2>1, <2>2, InTaken
<1> QED
  BY <1>1, <1>2, <1>3, <1>4 DEF Next, Trainer

LEMMA TakenByReceive ==
    ASSUME TypeInv, NEW found \in SUBSET Used, NEW item \in [found -> Message],
           Buffered(found, item), Receive, NEW x \in Taken'
    PROVE  \/ x \in Taken
           \/ \E s \in found : x \in Range(New(item, s))
<1>1. UNCHANGED <<trained, grid>>
  BY DEF Receive, ReceiveFiles, ReceiveMessages
<1>2. InGrid' = InGrid
  BY <1>1 DEF InGrid
<1>3. x \in trained \/ x \in InGrid \/ \E s \in Slot : x \in Range(buffers'[s])
  BY <1>1, <1>2 DEF Taken
<1>4. ASSUME NEW s \in Slot, x \in Range(buffers'[s])
      PROVE  \/ x \in Range(buffers[s])
             \/ s \in found /\ x \in Range(New(item, s))
  BY <1>4, Appended
<1> QED
  BY <1>3, <1>4, InTaken

LEMMA InitBuffers == Init => \A x : x \notin Taken
  BY DEF Init, Taken, InGrid, Range

LEMMA OldOrNew ==
    ASSUME TypeInv, [Next]_vars, NEW x \in Taken', x \notin Taken
    PROVE  \E found \in SUBSET Used : \E item \in [found -> Message] :
              /\ Receive /\ Buffered(found, item)
              /\ FromFiles(found, item) \/ FromMessages(found, item)
              /\ \E s \in found : x \in Range(New(item, s))
<1>1. Receive
  BY TakenSteps
<1>2. PICK found \in SUBSET Used : \E item \in [found -> Message] :
        Buffered(found, item) /\ (FromFiles(found, item) \/ FromMessages(found, item))
  BY <1>1, Received
<1>3. PICK item \in [found -> Message] :
        Buffered(found, item) /\ (FromFiles(found, item) \/ FromMessages(found, item))
  BY <1>2
<1>4. PICK s \in found : x \in Range(New(item, s))
  BY <1>1, <1>2, <1>3, TakenByReceive
<1> QED
  BY <1>1, <1>2, <1>3, <1>4

LEMMA TakenRun ==
    ASSUME TypeInv, NEW x \in Taken
    PROVE  x.run \in Run /\ x.step \in Nat /\ x.gen \in 1..MaxGen
<1>1. x \in SampleType
  BY TakenTypes
<1> QED
  BY <1>1 DEF SampleType

-----------------------------------------------------------------------------
(* No sample is trained twice, however often a run id is used: what a life *)
(* of a run has given is told from what it has still to give by the step to   *)
(* read next, or by the messages that are left.                              *)

\* Buffers and micro batches hold samples of the run in their slot.
Stamped ==
    /\ \A s \in Slot : \A x \in Range(buffers[s]) : idxOf[x.run] = s
    /\ \A m \in grid : /\ idxOf[m.run] = m.slot
                       /\ \A x \in Range(m.samples) : x.run = m.run
    /\ mpc \notin {"sync", "train"} => grid = {}

\* A life that has not reached a slot since its config was written.
Idle(r) == Listed(r) /\ (idxOf[r] = 0 \/ disk[r].state # "ready")

\* Nothing is of a later life than the directory; a directory without a config
\* has no batches, and an idle life has given no samples.
Begins ==
    \A r \in Run :
        /\ disk[r].state # "ready" /\ ~disk[r].evicted => disk[r].files = {}
        /\ \A x \in Taken : x.run = r => x.gen <= disk[r].gen
        /\ Idle(r) => \A x \in Taken : x.run = r => x.gen # disk[r].gen

\* A message is of a step its life has sent, and no other message and no sample
\* is of that step of that life.
Posted ==
    \A r \in Run :
        /\ \A m \in Drained(r) :
             /\ transport # "filesystem" /\ m.gen <= disk[r].gen
             /\ m.gen = disk[r].gen =>
                   ~(Listed(r) /\ disk[r].state # "ready") /\ m.batch.step < disk[r].next
             /\ \A q \in Drained(r) : q.gen = m.gen /\ q.batch.step = m.batch.step => q = m
             /\ \A x \in Taken : x.run = r /\ x.gen = m.gen => x.step # m.batch.step
        /\ transport # "filesystem" =>
              \A x \in Taken : x.run = r /\ x.gen = disk[r].gen => x.step < disk[r].next

\* What was read of the present life is before the step to read next.
ReadInOrder ==
    transport = "filesystem" =>
        \A r \in Run : idxOf[r] # 0 =>
            \A x \in Taken : x.run = r /\ x.gen = disk[r].gen => x.step < received[idxOf[r]]

\* No sample is in two places.
Apart ==
    /\ \A s \in Slot :
          /\ \A i, j \in DOMAIN buffers[s] : buffers[s][i] = buffers[s][j] => i = j
          /\ Range(buffers[s]) \cap (trained \cup InGrid) = {}
    /\ InGrid \cap trained = {}

OnceInv == Stamped /\ Begins /\ Posted /\ ReadInOrder /\ Apart

LEMMA StampedKept ==
    ASSUME TypeInv, Stamped, [Next]_vars
    PROVE  Stamped'
<1>1. ASSUME UNCHANGED <<idxOf, buffers>>, grid' = grid \/ grid' = {},
             mpc' \notin {"sync", "train"} => mpc \notin {"sync", "train"} \/ grid' = {}
      PROVE  Stamped'
  BY <1>1 DEF Stamped
<1>2. CASE Owner \/ Train \/ WaitForSamples \/ Synchronize \/ Broadcast \/ UNCHANGED vars
  <2>1. UNCHANGED <<idxOf, buffers>> /\ (grid' = grid \/ grid' = {})
    BY <1>2, OwnerStep
    DEF Train, WaitForSamples, Synchronize, Broadcast, vars, packer
  <2>2. mpc' \notin {"sync", "train"} => mpc \notin {"sync", "train"} \/ grid' = {}
    BY <1>2, OwnerStep DEF Train, WaitForSamples, Synchronize, Broadcast, vars
  <2> QED
    BY <1>1, <2>1, <2>2
<1>3. CASE Discover
  <2>1. DiscoverRuns /\ grid' = grid /\ mpc \notin {"sync", "train"}
    BY <1>3 DEF Discover
  <2>2. grid' = {}
    BY <2>1 DEF Stamped
  <2>3. ASSUME NEW s \in Slot, NEW x \in Range(buffers'[s]) PROVE idxOf'[x.run] = s
    <3>1. buffers'[s] = buffers[s] /\ \A q \in Run : idxOf[q] = s => Listed(q)
      <4>1. Range(<<>>) = {}
        BY DEF Range
      <4> QED
        BY <2>1, <2>3, <4>1, Discovered
    <3>2. idxOf[x.run] = s /\ x.run \in Run /\ s # 0
      <4>1. x \in Range(buffers[s])
        BY <3>1
      <4>2. x \in SampleType /\ idxOf[x.run] = s
        BY <4>1, TakenTypes DEF Stamped
      <4> QED
        BY <4>2 DEF SampleType
    <3>3. \/ idxOf'[x.run] = 0 /\ (idxOf[x.run] # 0 => ~Listed(x.run))
          \/ idxOf'[x.run] # 0 /\ idxOf[x.run] = idxOf'[x.run]
          \/ idxOf'[x.run] # 0 /\ idxOf[x.run] = 0
      BY <2>1, <3>2, Discovered
    <3> QED
      BY <3>1, <3>2, <3>3
  <2> QED
    BY <2>2, <2>3 DEF Stamped
<1>4. CASE Receive
  <2>1. PICK found \in SUBSET Used : \E item \in [found -> Message] : Buffered(found, item)
    BY <1>4, Received
  <2>2. PICK item \in [found -> Message] : Buffered(found, item)
    BY <2>1
  <2>3. idxOf' = idxOf /\ grid' = grid /\ mpc \notin {"sync", "train"}
    BY <1>4 DEF Receive, ReceiveFiles, ReceiveMessages
  <2>4. ASSUME NEW s \in Slot, NEW x \in Range(buffers'[s]) PROVE idxOf[x.run] = s
    <3>1. CASE s \notin found
      BY <2>2, <2>4, <3>1, Appended DEF Stamped
    <3>2. CASE s \in found
      <4>1. x \in Range(buffers[s]) \/ x \in Range(New(item, s))
        BY <2>2, <2>4, <3>2, Appended
      <4>2. ASSUME x \in Range(New(item, s)) PROVE idxOf[x.run] = s
        BY <3>2, <4>2, NewSample
      <4> QED
        BY <4>1, <4>2 DEF Stamped
    <3> QED
      BY <3>1, <3>2
  <2> QED
    BY <2>3, <2>4 DEF Stamped
<1>5. CASE Pack
  <2>1. PICK take \in [Slot -> Nat] : Packs(take)
    BY <1>5, Packed
  <2>2. idxOf' = idxOf /\ mpc' = "sync"
    BY <1>5 DEF Pack
  <2>3. \A s \in Slot : Range(buffers[s]) = Range(Share(take, s)) \cup Range(buffers'[s])
    BY <2>1, Given
  <2>4. ASSUME NEW m \in grid'
        PROVE  idxOf[m.run] = m.slot /\ \A x \in Range(m.samples) : x.run = m.run
    <3>1. PICK s \in Slot : /\ s \in Used /\ m.slot = s /\ m.run = RunAt(s)
                            /\ m.samples = Share(take, s)
      BY <2>1, GridAfter
    <3>2. ASSUME NEW x \in Range(m.samples) PROVE x.run = m.run
      <4>1. x \in Range(buffers[s])
        BY <2>3, <3>1, <3>2
      <4>2. idxOf[x.run] = s /\ x.run \in Run
        BY <4>1, TakenTypes DEF Stamped, SampleType
      <4> QED
        BY <3>1, <4>2, RunInSlot
    <3> QED
      BY <3>1, <3>2, RunInSlot
  <2> QED
    BY <2>2, <2>3, <2>4 DEF Stamped
<1> QED
  BY <1>2, <1>3, <1>4, <1>5 DEF Next, Trainer

\* How the step to receive next changes.
LEMMA ReceivedSteps ==
    ASSUME TypeInv, [Next]_vars, NEW r \in Run, idxOf'[r] # 0
    PROVE  \/ idxOf'[r] = idxOf[r] /\ received'[idxOf[r]] = received[idxOf[r]]
           \/ Discover /\ idxOf[r] = 0 /\ (received'[idxOf'[r]] # -1 => received[idxOf'[r]] # -1 /\ idxOf'[r] \notin Used)
           \/ /\ ReceiveFiles /\ idxOf'[r] = idxOf[r] /\ progress' = progress
              /\ \/ received'[idxOf[r]] = NextStep[idxOf[r]]
                 \/ received'[idxOf[r]] = NextStep[idxOf[r]] + 1
<1>1. CASE Discover
  <2>1. DiscoverRuns
    BY <1>1 DEF Discover
  <2>2. idxOf' \in [Run -> 0..MaxRuns]
    BY <2>1, Discovered
  <2>3. idxOf'[r] \in Slot
    BY <2>2 DEF Slot
  <2>4. \/ idxOf[r] = idxOf'[r] /\ Listed(r)
        \/ idxOf[r] = 0 /\ \A q \in Run : idxOf[q] = idxOf'[r] => ~Listed(q)
    BY <2>1, Discovered
  <2>5. \/ /\ \E q \in Run : idxOf[q] = idxOf'[r] /\ ~Listed(q)
           /\ received'[idxOf'[r]] = -1
        \/ /\ \A q \in Run : idxOf[q] = idxOf'[r] => Listed(q)
           /\ received'[idxOf'[r]] = received[idxOf'[r]]
    BY <2>1, <2>3, Discovered
  <2>6. CASE idxOf[r] = idxOf'[r] /\ Listed(r)
    <3>1. \A q \in Run : idxOf[q] = idxOf'[r] => q = r
      BY <2>6 DEF TypeInv, SlotTypes
    <3> QED
      BY <2>5, <2>6, <3>1
  <2>7. CASE idxOf[r] = 0 /\ \A q \in Run : idxOf[q] = idxOf'[r] => ~Listed(q)
    BY <1>1, <2>5, <2>7 DEF Used
  <2> QED
    BY <2>4, <2>6, <2>7
<1>2. CASE ReceiveFiles
  <2>1. Receive /\ idxOf' = idxOf /\ progress' = progress /\ transport = "filesystem"
    BY <1>2 DEF Receive, ReceiveFiles
  <2>2. PICK found \in SUBSET Used : \E item \in [found -> Message] :
          FromFiles(found, item) \/ FromMessages(found, item)
    BY <2>1, Received
  <2>3. PICK item \in [found -> Message] : FromFiles(found, item)
    BY <2>1, <2>2 DEF FromMessages
  <2>4. idxOf[r] \in Slot
    BY <2>1 DEF TypeInv, SlotTypes, Slot
  <2> QED
    BY <1>2, <2>1, <2>3, <2>4 DEF FromFiles
<1>3. CASE Owner \/ ReceiveMessages \/ WaitForSamples \/ Pack \/ Synchronize \/ Train
             \/ Broadcast \/ UNCHANGED vars
  <2>1. UNCHANGED <<idxOf, received>>
    BY <1>3, OwnerStep DEF ReceiveMessages, WaitForSamples, Pack, Synchronize,
       Train, Broadcast, vars, packer
  <2> QED
    BY <2>1
<1> QED
  BY <1>1, <1>2, <1>3 DEF Next, Trainer, Receive

LEMMA TransportStays ==
    ASSUME TypeInv, [Next]_vars
    PROVE  transport' = transport
<1>1. Owner => transport' = transport
  BY OwnerStep
<1> QED
  BY <1>1 DEF Next, Trainer, Discover, Receive, ReceiveFiles, ReceiveMessages, WaitForSamples,
     Pack, Synchronize, Train, Broadcast, vars

\* A run enters a slot when it is listed and ready, and leaves it when it is
\* not listed.
LEMMA SlotChanges ==
    ASSUME TypeInv, [Next]_vars, NEW r \in Run
    PROVE  \/ idxOf'[r] = idxOf[r]
           \/ disk' = disk /\ idxOf'[r] = 0 /\ ~Listed(r)
           \/ disk' = disk /\ idxOf'[r] # 0 /\ idxOf[r] = 0 /\ Listed(r) /\ disk[r].state = "ready"
<1>1. CASE Discover
  <2>1. DiscoverRuns /\ disk' = disk
    BY <1>1 DEF Discover, outside
  <2>2. \/ idxOf'[r] = 0 /\ (idxOf[r] # 0 => ~Listed(r))
        \/ idxOf'[r] # 0 /\ idxOf[r] = idxOf'[r] /\ Listed(r)
        \/ idxOf'[r] # 0 /\ idxOf[r] = 0 /\ Listed(r) /\ disk[r].state = "ready"
    BY <2>1, Discovered
  <2> QED
    BY <2>1, <2>2
<1>2. CASE Owner
  BY <1>2, OwnerStep
<1>3. CASE Receive \/ WaitForSamples \/ Pack \/ Synchronize \/ Train \/ Broadcast \/ UNCHANGED vars
  BY <1>3 DEF Receive, ReceiveFiles, ReceiveMessages, WaitForSamples, Pack, Synchronize,
     Train, Broadcast, vars
<1> QED
  BY <1>1, <1>2, <1>3 DEF Next, Trainer

\* A life goes on in the same directory, or the next begins.
LEMMA LifeSteps ==
    ASSUME TypeInv, [Next]_vars, NEW r \in Run
    PROVE  /\ disk[r].gen \in Nat /\ disk'[r].gen \in Nat /\ disk[r].next \in Nat
           /\ disk[r].gen <= disk'[r].gen
           /\ disk'[r].gen = disk[r].gen =>
                 \/ disk'[r] = disk[r]
                 \/ Configured(r) \/ \E kind \in Kinds : Sent(r, kind)
                 \/ Removed(r) \/ Evicted(r)
<1>1. disk[r].gen \in Nat /\ disk[r].next \in Nat
  <2>1. disk[r] \in RunDir
    BY DEF TypeInv, OutsideTypes
  <2> QED
    BY <2>1, RunDirs
<1>2. CASE disk'[r] = disk[r]
  BY <1>1, <1>2
<1>3. CASE Made(r)
  BY <1>1, <1>3 DEF Made
<1>4. CASE Configured(r) \/ Removed(r) \/ Evicted(r)
  BY <1>1, <1>4 DEF Configured, Removed, Evicted
<1>5. ASSUME NEW kind \in Kinds, Sent(r, kind) PROVE disk'[r].gen = disk[r].gen
  BY <1>5 DEF Sent
<1> QED
  BY <1>1, <1>2, <1>3, <1>4, <1>5, DirSteps

\* An idle life has been idle, or has just begun.
LEMMA IdleStays ==
    ASSUME TypeInv, [Next]_vars, NEW r \in Run, Idle(r)', disk'[r].gen = disk[r].gen
    PROVE  Idle(r)
<1>1. ASSUME idxOf'[r] = idxOf[r] PROVE Idle(r)
  <2>1. CASE disk'[r] = disk[r]
    BY <1>1, <2>1 DEF Idle, Listed
  <2>2. CASE Configured(r)
    BY <2>2 DEF Configured, Idle, Listed
  <2>3. ASSUME NEW kind \in Kinds, Sent(r, kind) PROVE Idle(r)
    BY <1>1, <2>3 DEF Sent, Idle, Listed
  <2>4. CASE Removed(r) \/ Evicted(r)
    BY <2>4 DEF Removed, Evicted, Idle, Listed
  <2> QED
    BY <2>1, <2>2, <2>3, <2>4, LifeSteps
<1> QED
  BY <1>1, SlotChanges DEF Idle, Listed

\* A sample that is taken comes from the file that is due or from a message,
\* which is gone with it.
LEMMA NewTaken ==
    ASSUME TypeInv, [Next]_vars, NEW x \in Taken', x \notin Taken
    PROVE  /\ x.run \in Run /\ x.gen \in Nat /\ x.step \in Nat /\ idxOf[x.run] # 0
           /\ idxOf'[x.run] = idxOf[x.run]
           /\ disk'[x.run] = disk[x.run] \/ Evicted(x.run)
           /\ \/ /\ transport = "filesystem" /\ x.gen = disk[x.run].gen
                 /\ disk[x.run].files # {} /\ received'[idxOf[x.run]] = x.step + 1
              \/ /\ transport # "filesystem"
                 /\ \E m \in Drained(x.run) :
                       /\ m.gen = x.gen /\ m.batch.step = x.step
                       /\ \A q \in Drained(x.run)' : q \in Drained(x.run) /\ q # m
<1>1. PICK found \in SUBSET Used : \E item \in [found -> Message] :
        /\ Receive /\ Buffered(found, item)
        /\ FromFiles(found, item) \/ FromMessages(found, item)
        /\ \E s \in found : x \in Range(New(item, s))
  BY OldOrNew
<1>2. PICK item \in [found -> Message] :
        /\ Receive /\ Buffered(found, item)
        /\ FromFiles(found, item) \/ FromMessages(found, item)
        /\ \E s \in found : x \in Range(New(item, s))
  BY <1>1
<1>3. PICK s \in found : x \in Range(New(item, s))
  BY <1>2
<1>4. /\ x.run \in Run /\ x.run = RunAt(s) /\ idxOf[x.run] = s /\ idxOf[x.run] # 0
      /\ x.gen = item[s].gen /\ x.step = item[s].batch.step /\ x.step \in Nat
  BY <1>1, <1>2, <1>3, NewSample
<1>5. item[s].gen \in 1..MaxGen /\ s \in Slot
  BY <1>1, <1>2, <1>3, NewSamples
<1>6. x.gen \in Nat /\ idxOf' = idxOf
  <2>1. idxOf' = idxOf
    BY <1>2 DEF Receive, ReceiveFiles, ReceiveMessages
  <2>2. x.gen \in Nat
    BY <1>4, <1>5
  <2> QED
    BY <2>1, <2>2
<1>7. disk'[x.run] = disk[x.run] \/ Evicted(x.run)
  <2>1. ~Broadcast
    BY <1>2 DEF Receive, ReceiveFiles, ReceiveMessages, Broadcast
  <2> QED
    BY <1>2, <1>4, <2>1, OtherDirs
<1>8. CASE FromFiles(found, item)
  <2>1. /\ transport = "filesystem" /\ item[s].batch \in disk[x.run].files
        /\ item[s].gen = disk[x.run].gen /\ item[s].batch.step = NextStep[s]
        /\ received'[s] = NextStep[s] + 1
    BY <1>4, <1>5, <1>8 DEF FromFiles
  <2> QED
    BY <1>4, <1>6, <1>7, <2>1
<1>9. CASE FromMessages(found, item)
  <2>1. /\ transport # "filesystem" /\ item[s] \in Drained(x.run) /\ wire' = <<>>
        /\ pending'[x.run] = Drained(x.run) \ {item[s]}
    BY <1>4, <1>9 DEF FromMessages
  <2>2. ASSUME NEW q \in Drained(x.run)' PROVE q \in Drained(x.run) /\ q # item[s]
    <3>1. q \in pending'[x.run]
      BY <2>1, <2>2 DEF Drained
    <3> QED
      BY <2>1, <3>1
  <2> QED
    BY <1>4, <1>6, <1>7, <2>1, <2>2
<1> QED
  BY <1>2, <1>8, <1>9

LEMMA BeginsKept ==
    ASSUME TypeInv, Begins, Posted, [Next]_vars
    PROVE  Begins'
<1> SUFFICES ASSUME NEW r \in Run
             PROVE  /\ disk'[r].state # "ready" /\ ~disk'[r].evicted => disk'[r].files = {}
                    /\ \A x \in Taken' : x.run = r => x.gen <= disk'[r].gen
                    /\ Idle(r)' => \A x \in Taken' : x.run = r => x.gen # disk'[r].gen
  BY DEF Begins
<1>1. disk'[r].state # "ready" /\ ~disk'[r].evicted => disk'[r].files = {}
  <2>1. disk[r].state # "ready" /\ ~disk[r].evicted => disk[r].files = {}
    BY DEF Begins
  <2>2. ASSUME NEW kind \in Kinds, Sent(r, kind) PROVE disk'[r].state = "ready"
    BY <2>2 DEF Sent
  <2>3. CASE Made(r) \/ Configured(r) \/ Removed(r) \/ Evicted(r)
    BY <2>1, <2>3 DEF Made, Configured, Removed, Evicted
  <2> QED
    BY <2>1, <2>2, <2>3, DirSteps
<1>2. ASSUME NEW x \in Taken', x.run = r, x \notin Taken
      PROVE  x.gen <= disk[r].gen /\ x.gen \in Nat /\ (x.gen = disk[r].gen => ~Idle(r))
  <2>1. /\ x.gen \in Nat /\ idxOf[r] # 0
        /\ \/ x.gen = disk[r].gen /\ disk[r].files # {}
           \/ \E m \in Drained(r) : m.gen = x.gen
    BY <1>2, NewTaken
  <2>2. CASE x.gen = disk[r].gen /\ disk[r].files # {}
    BY <2>1, <2>2, LifeSteps DEF Begins, Idle, Listed
  <2>3. ASSUME NEW m \in Drained(r), m.gen = x.gen
        PROVE  x.gen <= disk[r].gen /\ (x.gen = disk[r].gen => ~Idle(r))
    BY <2>1, <2>3 DEF Posted, Idle
  <2> QED
    BY <2>1, <2>2, <2>3
<1>3. ASSUME NEW x \in Taken', x.run = r
      PROVE  x.gen <= disk[r].gen /\ x.gen \in Nat /\ (x.gen = disk[r].gen => ~Idle(r))
  <2>1. CASE x \in Taken
    BY <1>3, <2>1, TakenRun DEF Begins
  <2> QED
    BY <1>2, <1>3, <2>1
<1>4. disk[r].gen \in Nat /\ disk'[r].gen \in Nat /\ disk[r].gen <= disk'[r].gen
  BY LifeSteps
<1>5. ASSUME NEW x \in Taken', x.run = r PROVE x.gen <= disk'[r].gen
  BY <1>3, <1>4, <1>5
<1>6. ASSUME Idle(r)', NEW x \in Taken', x.run = r PROVE x.gen # disk'[r].gen
  <2>1. CASE disk'[r].gen = disk[r].gen
    BY <1>3, <1>6, <2>1, IdleStays
  <2>2. CASE disk'[r].gen # disk[r].gen
    BY <1>3, <1>4, <1>6, <2>2
  <2> QED
    BY <2>1, <2>2
<1> QED
  BY <1>1, <1>5, <1>6

LEMMA PostedKept ==
    ASSUME TypeInv, Begins, Posted, [Next]_vars
    PROVE  Posted'
<1> SUFFICES ASSUME NEW r \in Run
             PROVE  /\ \A m \in Drained(r)' :
                         /\ transport' # "filesystem" /\ m.gen <= disk'[r].gen
                         /\ m.gen = disk'[r].gen =>
                               /\ ~(Listed(r)' /\ disk'[r].state # "ready")
                               /\ m.batch.step < disk'[r].next
                         /\ \A q \in Drained(r)' :
                               q.gen = m.gen /\ q.batch.step = m.batch.step => q = m
                         /\ \A x \in Taken' :
                               x.run = r /\ x.gen = m.gen => x.step # m.batch.step
                    /\ transport' # "filesystem" =>
                          \A x \in Taken' : x.run = r /\ x.gen = disk'[r].gen => x.step < disk'[r].next
  BY DEF Posted
<1>1. transport' = transport
  BY TransportStays
<1>2. disk[r].gen \in Nat /\ disk'[r].gen \in Nat /\ disk[r].gen <= disk'[r].gen
      /\ disk[r].next \in Nat
  BY LifeSteps
<1>3. ASSUME NEW m \in Drained(r)
      PROVE  /\ m.gen \in Nat /\ m.batch.step \in Nat
             /\ transport # "filesystem" /\ m.gen <= disk[r].gen
             /\ m.gen = disk[r].gen =>
                   ~(Listed(r) /\ disk[r].state # "ready") /\ m.batch.step < disk[r].next
  <2>1. m \in Message
    BY DrainedTypes
  <2>2. m.gen \in Nat /\ m.batch.step \in Nat
    BY <2>1 DEF Message, Batch
  <2> QED
    BY <2>2 DEF Posted
\* A message that was there before.
<1>4. ASSUME NEW m \in Drained(r)
      PROVE  /\ m.gen <= disk'[r].gen
             /\ m.gen = disk'[r].gen =>
                   ~(Listed(r)' /\ disk'[r].state # "ready") /\ m.batch.step < disk'[r].next
  <2>1. m.gen <= disk'[r].gen
    BY <1>2, <1>3
  <2>2. ASSUME m.gen = disk'[r].gen
        PROVE  ~(Listed(r)' /\ disk'[r].state # "ready") /\ m.batch.step < disk'[r].next
    <3>1. disk'[r].gen = disk[r].gen /\ m.gen = disk[r].gen
      BY <1>2, <1>3, <2>2
    <3>2. ~(Listed(r) /\ disk[r].state # "ready") /\ m.batch.step < disk[r].next
          /\ m.batch.step \in Nat
      BY <1>3, <3>1
    <3>3. CASE disk'[r] = disk[r]
      BY <3>2, <3>3 DEF Listed
    <3>4. CASE Configured(r)
      BY <3>2, <3>4 DEF Configured, Listed
    <3>5. ASSUME NEW kind \in Kinds, Sent(r, kind)
          PROVE  disk'[r].state = "ready" /\ m.batch.step < disk'[r].next
      BY <1>2, <3>2, <3>5 DEF Sent
    <3>6. CASE Removed(r) \/ Evicted(r)
      BY <3>2, <3>6 DEF Removed, Evicted, Listed
    <3> QED
      BY <3>1, <3>3, <3>4, <3>5, <3>6, LifeSteps
  <2> QED
    BY <2>1, <2>2
<1>5. ASSUME NEW kind \in Kinds, Sent(r, kind)
      PROVE  /\ disk'[r].gen = disk[r].gen /\ disk'[r].state = "ready"
             /\ disk'[r].next = disk[r].next + 1
             /\ NextBatch(r, kind).step = disk[r].next
  BY <1>5 DEF Sent, NextBatch
\* What was taken of the present life.
<1>6. ASSUME transport # "filesystem", NEW x \in Taken', x.run = r, x.gen = disk'[r].gen
      PROVE  x.step < disk'[r].next
  <2>1. CASE x \in Taken
    <3>1. x.gen <= disk[r].gen /\ x.step \in Nat
      BY <1>6, <2>1, TakenRun DEF Begins
    <3>2. disk'[r].gen = disk[r].gen /\ x.gen = disk[r].gen
      BY <1>2, <1>6, <3>1
    <3>3. x.step < disk[r].next
      BY <1>6, <2>1, <3>2 DEF Posted
    <3>4. ~Configured(r)
      BY <1>6, <2>1, <3>2 DEF Configured, Begins, Idle, Listed
    <3>5. ASSUME NEW kind \in Kinds, Sent(r, kind) PROVE x.step < disk'[r].next
      BY <1>2, <1>5, <3>1, <3>3, <3>5
    <3>6. CASE disk'[r] = disk[r] \/ Removed(r) \/ Evicted(r)
      BY <3>3, <3>6 DEF Removed, Evicted
    <3> QED
      BY <3>2, <3>4, <3>5, <3>6, LifeSteps
  <2>2. CASE x \notin Taken
    <3>1. disk'[r] = disk[r] \/ Evicted(r)
      BY <1>6, <2>2, NewTaken
    <3>2. PICK m \in Drained(r) : m.gen = x.gen /\ m.batch.step = x.step
      BY <1>6, <2>2, NewTaken
    <3>3. disk'[r].gen = disk[r].gen /\ disk'[r].next = disk[r].next
      BY <3>1 DEF Evicted
    <3> QED
      BY <1>3, <1>6, <3>2, <3>3
  <2> QED
    BY <2>1, <2>2
\* A sample taken now takes its message along.
<1>7. ASSUME NEW m \in Drained(r)', NEW x \in Taken', x.run = r, x.gen = m.gen, x \notin Taken,
             transport # "filesystem"
      PROVE  x.step # m.batch.step
  <2>1. PICK q \in Drained(r) : /\ q.gen = x.gen /\ q.batch.step = x.step
                                /\ \A p \in Drained(r)' : p \in Drained(r) /\ p # q
    BY <1>7, NewTaken
  <2>2. m \in Drained(r) /\ m # q
    BY <2>1
  <2> QED
    BY <1>7, <2>1, <2>2 DEF Posted
<1>8. CASE \A m : m \in Drained(r)' => m \in Drained(r)
  <2>1. ASSUME NEW m \in Drained(r)', NEW x \in Taken', x.run = r, x.gen = m.gen
        PROVE  x.step # m.batch.step
    <3>1. m \in Drained(r) /\ transport # "filesystem"
      BY <1>3, <1>8
    <3> QED
      BY <1>7, <2>1, <3>1 DEF Posted
  <2>2. ASSUME NEW m \in Drained(r)', NEW q \in Drained(r)',
               q.gen = m.gen, q.batch.step = m.batch.step
        PROVE  q = m
    BY <1>8, <2>2 DEF Posted
  <2> QED
    BY <1>1, <1>3, <1>4, <1>6, <1>8, <2>1, <2>2
<1>9. ASSUME NEW kind \in Kinds, Sent(r, kind), transport # "filesystem",
             \A m : m \in Drained(r)' <=>
                \/ m \in Drained(r)
                \/ m = [run |-> r, gen |-> disk[r].gen, batch |-> NextBatch(r, kind)]
      PROVE  \A m \in Drained(r)' :
                /\ m.gen <= disk'[r].gen
                /\ m.gen = disk'[r].gen =>
                      /\ ~(Listed(r)' /\ disk'[r].state # "ready")
                      /\ m.batch.step < disk'[r].next
                /\ \A q \in Drained(r)' :
                      q.gen = m.gen /\ q.batch.step = m.batch.step => q = m
                /\ \A x \in Taken' : x.run = r /\ x.gen = m.gen => x.step # m.batch.step
  <2> DEFINE new == [run |-> r, gen |-> disk[r].gen, batch |-> NextBatch(r, kind)]
  <2>1. new.gen = disk[r].gen /\ new.batch.step = disk[r].next
    BY <1>5, <1>9
  <2> HIDE DEF new
  <2>2. \A m : m \in Drained(r)' <=> m \in Drained(r) \/ m = new
    BY <1>9 DEF new
  <2>3. /\ new.gen <= disk'[r].gen
        /\ ~(Listed(r)' /\ disk'[r].state # "ready")
        /\ new.batch.step < disk'[r].next
    BY <1>2, <1>5, <1>9, <2>1
  <2>4. ASSUME NEW q \in Drained(r), q.gen = new.gen PROVE q.batch.step # new.batch.step
    BY <1>2, <1>3, <2>1, <2>4
  <2>5. ASSUME NEW x \in Taken', x.run = r, x.gen = new.gen PROVE x.step # new.batch.step
    <3>1. CASE x \in Taken
      <4>1. x.step < disk[r].next /\ x.step \in Nat
        BY <1>9, <2>1, <2>5, <3>1, TakenRun DEF Posted
      <4> QED
        BY <1>2, <2>1, <4>1
    <3>2. CASE x \notin Taken
      <4>1. disk'[r] = disk[r] \/ Evicted(r)
        BY <2>5, <3>2, NewTaken
      <4> QED
        BY <1>2, <1>5, <1>9, <4>1 DEF Evicted
    <3> QED
      BY <3>1, <3>2
  <2>6. ASSUME NEW m \in Drained(r)', NEW q \in Drained(r)',
               q.gen = m.gen, q.batch.step = m.batch.step
        PROVE  q = m
    <3>1. CASE m \in Drained(r) /\ q \in Drained(r)
      BY <2>6, <3>1 DEF Posted
    <3> QED
      BY <2>2, <2>4, <2>6, <3>1
  <2>7. ASSUME NEW m \in Drained(r)', NEW x \in Taken', x.run = r, x.gen = m.gen
        PROVE  x.step # m.batch.step
    <3>1. CASE m \in Drained(r) /\ x \in Taken
      BY <2>7, <3>1 DEF Posted
    <3> QED
      BY <1>7, <1>9, <2>2, <2>5, <2>7, <3>1
  <2>8. ASSUME NEW m \in Drained(r)'
        PROVE  /\ m.gen <= disk'[r].gen
               /\ m.gen = disk'[r].gen =>
                      /\ ~(Listed(r)' /\ disk'[r].state # "ready")
                      /\ m.batch.step < disk'[r].next
    BY <1>4, <2>2, <2>3
  <2> QED
    BY <2>6, <2>7, <2>8
<1> QED
  BY <1>1, <1>6, <1>8, <1>9, DrainedSteps

LEMMA ReadInOrderKept ==
    ASSUME TypeInv, Begins, ReadInOrder, [Next]_vars
    PROVE  ReadInOrder'
<1> SUFFICES ASSUME transport' = "filesystem", NEW r \in Run, idxOf'[r] # 0,
                    NEW x \in Taken', x.run = r, x.gen = disk'[r].gen
             PROVE  x.step < received'[idxOf'[r]]
  BY DEF ReadInOrder
<1>1. transport = "filesystem"
  BY TransportStays
<1>2. CASE x \notin Taken
  <2>1. received'[idxOf[r]] = x.step + 1 /\ x.step \in Nat /\ idxOf'[r] = idxOf[r]
    BY <1>1, <1>2, NewTaken
  <2> QED
    BY <2>1
<1>3. CASE x \in Taken
  <2>1. x.gen <= disk[r].gen /\ x.step \in Nat /\ x.gen \in Nat
    BY <1>3, TakenRun DEF Begins
  <2>2. x.gen = disk[r].gen
    BY <2>1, LifeSteps
  <2>3. idxOf[r] # 0 => x.step < received[idxOf[r]]
    BY <1>1, <1>3, <2>2 DEF ReadInOrder
  <2>4. CASE idxOf'[r] = idxOf[r] /\ received'[idxOf[r]] = received[idxOf[r]]
    BY <2>3, <2>4
  <2>5. CASE idxOf[r] = 0
    <3>1. Listed(r) /\ idxOf[r] = 0
      BY <2>5, SlotChanges
    <3> QED
      BY <1>3, <2>2, <3>1 DEF Begins, Idle
  <2>6. CASE /\ idxOf'[r] = idxOf[r]
             /\ \/ received'[idxOf[r]] = NextStep[idxOf[r]]
                \/ received'[idxOf[r]] = NextStep[idxOf[r]] + 1
    <3>1. idxOf[r] \in Slot
      BY <2>6 DEF TypeInv, SlotTypes, Slot
    <3>2. received[idxOf[r]] \in Nat \cup {-1} /\ x.step < received[idxOf[r]]
      BY <2>3, <2>6, <3>1 DEF TypeInv, PackerTypes
    <3>3. NextStep[idxOf[r]] = received[idxOf[r]] /\ received[idxOf[r]] \in Nat
      BY <2>1, <3>1, <3>2 DEF NextStep
    <3> QED
      BY <2>1, <2>6, <3>2, <3>3
  <2> QED
    BY <2>4, <2>5, <2>6, ReceivedSteps
<1> QED
  BY <1>2, <1>3

\* What a receive adds to a buffer was never taken before.
LEMMA NewNotTaken ==
    ASSUME TypeInv, Posted, ReadInOrder, NEW found \in SUBSET Used, NEW item \in [found -> Message],
           FromFiles(found, item) \/ FromMessages(found, item), NEW s \in found,
           NEW x \in Range(New(item, s))
    PROVE  x \notin Taken
<1>1. /\ x.run \in Run /\ x.run = RunAt(s) /\ idxOf[x.run] = s /\ idxOf[x.run] # 0
      /\ x.gen = item[s].gen /\ x.step = item[s].batch.step /\ x.step \in Nat
  BY NewSample
<1>2. s \in Slot /\ s \in Used
  BY NewSamples
<1>3. CASE FromFiles(found, item)
  <2>1. transport = "filesystem" /\ x.gen = disk[x.run].gen /\ x.step = NextStep[s]
    BY <1>1, <1>3 DEF FromFiles
  <2>2. x \in Taken => x.step < received[s]
    BY <1>1, <2>1 DEF ReadInOrder
  <2>3. received[s] \in Nat \cup {-1} /\ progress[s] \in Nat
    BY <1>2 DEF TypeInv, PackerTypes
  <2>4. NextStep[s] = IF received[s] = -1 THEN progress[s] ELSE received[s]
    BY <1>2 DEF NextStep
  <2> QED
    BY <1>1, <2>1, <2>2, <2>3, <2>4
<1>4. CASE FromMessages(found, item)
  <2>1. item[s] \in Drained(x.run)
    BY <1>1, <1>4 DEF FromMessages
  <2> QED
    BY <1>1, <2>1 DEF Posted
<1> QED
  BY <1>3, <1>4

LEMMA ApartKept ==
    ASSUME TypeInv, Stamped, Posted, ReadInOrder, Apart, [Next]_vars
    PROVE  Apart'
<1>1. CASE UNCHANGED <<buffers, trained, grid>>
  <2>1. InGrid' = InGrid
    BY <1>1 DEF InGrid
  <2> QED
    BY <1>1, <2>1 DEF Apart
<1>2. CASE Discover
  <2>1. DiscoverRuns /\ UNCHANGED <<trained, grid>>
    BY <1>2 DEF Discover
  <2>2. \A s \in Slot : buffers'[s] = <<>> \/ buffers'[s] = buffers[s]
    BY <2>1, Discovered
  <2>3. DOMAIN <<>> = {} /\ Range(<<>>) = {} /\ InGrid' = InGrid
    BY <2>1 DEF Range, InGrid
  <2> QED
    BY <2>1, <2>2, <2>3 DEF Apart
<1>3. CASE Receive
  <2>1. UNCHANGED <<trained, grid>>
    BY <1>3 DEF Receive, ReceiveFiles, ReceiveMessages
  <2>2. InGrid' = InGrid
    BY <2>1 DEF InGrid
  <2>3. PICK found \in SUBSET Used : \E item \in [found -> Message] :
          Buffered(found, item) /\ (FromFiles(found, item) \/ FromMessages(found, item))
    BY <1>3, Received
  <2>4. PICK item \in [found -> Message] :
          Buffered(found, item) /\ (FromFiles(found, item) \/ FromMessages(found, item))
    BY <2>3
  <2> SUFFICES ASSUME NEW s \in Slot
               PROVE  /\ \A i, j \in DOMAIN buffers'[s] : buffers'[s][i] = buffers'[s][j] => i = j
                      /\ Range(buffers'[s]) \cap (trained \cup InGrid) = {}
    BY <2>1, <2>2 DEF Apart
  <2>5. CASE s \notin found
    BY <2>3, <2>4, <2>5, Appended DEF Apart
  <2>6. CASE s \in found
    <3> DEFINE old == buffers[s]
               new == New(item, s)
    <3>1. /\ old \in Seq(SampleType) /\ new \in Seq(SampleType)
          /\ buffers'[s] = old \o new
      BY <2>3, <2>4, <2>6, NewSamples, ZenonT(30) DEF Buffered, TypeInv, PackerTypes
    <3>2. ASSUME NEW x \in Range(new) PROVE x \notin Taken
      BY <2>3, <2>4, <2>6, NewNotTaken
    <3>3. ASSUME NEW i \in 1..Len(new), NEW j \in 1..Len(new), new[i] = new[j] PROVE i = j
      <4>1. /\ new[i] = [run |-> RunAt(s), gen |-> item[s].gen, step |-> item[s].batch.step, n |-> i]
            /\ new[j] = [run |-> RunAt(s), gen |-> item[s].gen, step |-> item[s].batch.step, n |-> j]
        BY <2>6, NewSamples
      <4>2. new[i].n = i /\ new[j].n = j
        <5> HIDE DEF new
        <5> QED
          BY <4>1
      <4> QED
        BY <3>3, <4>2
    <3>4. \A x \in Range(old) : x \in Taken
      BY InTaken
    <3> HIDE DEF old, new
    <3>5. /\ Len(old \o new) = Len(old) + Len(new)
          /\ \A i \in 1..Len(old \o new) :
               \/ i \in 1..Len(old) /\ (old \o new)[i] = old[i]
               \/ i > Len(old) /\ i - Len(old) \in 1..Len(new) /\ (old \o new)[i] = new[i - Len(old)]
          /\ Range(old \o new) = Range(old) \cup Range(new) /\ old \o new \in Seq(SampleType)
      BY <3>1, RangeCat
    <3>6. DOMAIN (old \o new) = 1..Len(old \o new) /\ DOMAIN old = 1..Len(old) /\ DOMAIN new = 1..Len(new)
          /\ Len(old) \in Nat /\ Len(new) \in Nat
      BY <3>1, <3>5
    <3>7. /\ \A i \in 1..Len(old) : old[i] \in Range(old)
          /\ \A i \in 1..Len(new) : new[i] \in Range(new)
      BY <3>6 DEF Range
    <3>8. \A i, j \in 1..Len(old) : old[i] = old[j] => i = j
      BY <3>6 DEF Apart, old
    <3>9. ASSUME NEW i \in 1..Len(old \o new), NEW j \in 1..Len(old \o new),
                 (old \o new)[i] = (old \o new)[j]
          PROVE  i = j
      <4>1. CASE i \in 1..Len(old) /\ j \in 1..Len(old)
        BY <3>5, <3>6, <3>8, <3>9, <4>1
      <4>2. CASE i > Len(old) /\ j > Len(old)
        <5>1. i - Len(old) \in 1..Len(new) /\ j - Len(old) \in 1..Len(new)
              /\ new[i - Len(old)] = new[j - Len(old)]
          BY <3>5, <3>6, <3>9, <4>2
        <5>2. i - Len(old) = j - Len(old)
          BY <3>3, <5>1
        <5> QED
          BY <3>6, <5>2
      <4>3. CASE i \in 1..Len(old) /\ j > Len(old)
        <5>1. old[i] = new[j - Len(old)] /\ j - Len(old) \in 1..Len(new)
          BY <3>5, <3>6, <3>9, <4>3
        <5> QED
          BY <3>2, <3>4, <3>7, <4>3, <5>1
      <4>4. CASE i > Len(old) /\ j \in 1..Len(old)
        <5>1. old[j] = new[i - Len(old)] /\ i - Len(old) \in 1..Len(new)
          BY <3>5, <3>6, <3>9, <4>4
        <5> QED
          BY <3>2, <3>4, <3>7, <4>4, <5>1
      <4> QED
        BY <3>6, <4>1, <4>2, <4>3, <4>4
    <3>10. Range(old) \cap (trained \cup InGrid) = {}
      BY DEF Apart, old
    <3>11. Range(old \o new) \cap (trained \cup InGrid) = {}
      BY <3>2, <3>5, <3>10, InTaken
    <3> QED
      BY <3>1, <3>6, <3>9, <3>11
  <2> QED
    BY <2>5, <2>6
<1>4. CASE Pack
  <2>1. PICK take \in [Slot -> Nat] : Packs(take)
    BY <1>4, Packed
  <2>2. trained' = trained
    BY <1>4 DEF Pack
  <2>3. \A x : x \in InGrid' <=> \E s \in Slot : x \in Range(Share(take, s))
    BY <2>1, GridAfter
  <2>4. ASSUME NEW s \in Slot
        PROVE  /\ \A i, j \in DOMAIN buffers'[s] : buffers'[s][i] = buffers'[s][j] => i = j
               /\ Range(buffers[s]) = Range(Share(take, s)) \cup Range(buffers'[s])
               /\ Range(Share(take, s)) \cap Range(buffers'[s]) = {}
    <3>1. /\ buffers[s] \in Seq(SampleType) /\ take[s] \in 0..Len(buffers[s])
          /\ Share(take, s) \in Seq(SampleType) /\ Len(Share(take, s)) = take[s]
          /\ buffers'[s] \in Seq(SampleType) /\ Len(buffers'[s]) = Len(buffers[s]) - take[s]
          /\ \A i \in 1..take[s] : Share(take, s)[i] = buffers[s][i]
          /\ \A i \in 1..Len(buffers'[s]) : /\ buffers'[s][i] = buffers[s][i + take[s]]
                                            /\ i + take[s] \in 1..Len(buffers[s])
          /\ Range(buffers[s]) = Range(Share(take, s)) \cup Range(buffers'[s])
      <4>1. /\ buffers[s] \in Seq(SampleType) /\ take[s] \in 0..Len(buffers[s])
            /\ Share(take, s) \in Seq(SampleType) /\ Len(Share(take, s)) = take[s]
            /\ buffers'[s] \in Seq(SampleType) /\ Len(buffers'[s]) = Len(buffers[s]) - take[s]
        BY <2>1, Given
      <4>2. \A i \in 1..take[s] : Share(take, s)[i] = buffers[s][i]
        <5> DEFINE q == buffers[s]
        <5>1. q \in Seq(SampleType) /\ take[s] \in 0..Len(q) /\ Share(take, s) = SubSeq(q, 1, take[s])
          BY <4>1 DEF Share
        <5> HIDE DEF q
        <5>2. \A i \in 1..take[s] : Share(take, s)[i] = q[i]
          BY <5>1
        <5> QED
          BY <5>2 DEF q
      <4>3. \A i \in 1..Len(buffers'[s]) : /\ buffers'[s][i] = buffers[s][i + take[s]]
                                           /\ i + take[s] \in 1..Len(buffers[s])
        BY <2>1, Given
      <4>4. Range(buffers[s]) = Range(Share(take, s)) \cup Range(buffers'[s])
        BY <2>1, Given
      <4> QED
        BY <4>1, <4>2, <4>3, <4>4
    <3>2. /\ DOMAIN buffers[s] = 1..Len(buffers[s]) /\ DOMAIN buffers'[s] = 1..Len(buffers'[s])
          /\ DOMAIN Share(take, s) = 1..take[s] /\ take[s] \in Nat /\ Len(buffers[s]) \in Nat
      BY <3>1
    <3>3. \A i, j \in 1..Len(buffers[s]) : buffers[s][i] = buffers[s][j] => i = j
      BY <3>2 DEF Apart
    <3>4. ASSUME NEW i \in DOMAIN buffers'[s], NEW j \in DOMAIN buffers'[s],
                 buffers'[s][i] = buffers'[s][j]
          PROVE  i = j
      <4>1. /\ buffers'[s][i] = buffers[s][i + take[s]] /\ i + take[s] \in 1..Len(buffers[s])
            /\ buffers'[s][j] = buffers[s][j + take[s]] /\ j + take[s] \in 1..Len(buffers[s])
        BY <3>1, <3>2
      <4>2. i + take[s] = j + take[s]
        BY <3>3, <3>4, <4>1
      <4> QED
        BY <3>2, <4>2
    <3>5. ASSUME NEW i \in 1..take[s], NEW j \in DOMAIN buffers'[s]
          PROVE  Share(take, s)[i] # buffers'[s][j]
      <4>1. i \in 1..Len(buffers[s]) /\ j + take[s] \in 1..Len(buffers[s]) /\ i # j + take[s]
        BY <3>1, <3>2
      <4>2. Share(take, s)[i] = buffers[s][i] /\ buffers'[s][j] = buffers[s][j + take[s]]
        BY <3>1, <3>2
      <4> QED
        BY <3>3, <4>1, <4>2
    <3>6. Range(Share(take, s)) \cap Range(buffers'[s]) = {}
      BY <3>2, <3>5 DEF Range
    <3> QED
      BY <3>1, <3>4, <3>6
  <2>5. \A s \in Slot : Range(buffers[s]) \cap trained = {}
    BY DEF Apart
  <2>6. ASSUME NEW s \in Slot, NEW t \in Slot, NEW x \in Range(Share(take, s)),
               x \in Range(buffers'[t])
        PROVE  FALSE
    <3>1. idxOf[x.run] = s /\ idxOf[x.run] = t
      BY <2>4, <2>6 DEF Stamped
    <3> QED
      BY <2>4, <2>6, <3>1
  <2>7. \A s \in Slot : Range(buffers'[s]) \cap (trained \cup InGrid') = {}
    BY <2>3, <2>4, <2>5, <2>6
  <2>8. InGrid' \cap trained = {}
    BY <2>3, <2>4, <2>5
  <2> QED
    BY <2>2, <2>4, <2>7, <2>8 DEF Apart
<1>5. CASE Train
  <2>1. trained' = trained \cup InGrid /\ grid' = {} /\ buffers' = buffers
    BY <1>5 DEF Train, packer
  <2>2. InGrid' = {}
    BY <2>1 DEF InGrid
  <2> QED
    BY <2>1, <2>2 DEF Apart
<1>6. CASE Owner \/ WaitForSamples \/ Synchronize \/ Broadcast \/ UNCHANGED vars
  <2>1. UNCHANGED <<buffers, trained, grid>>
    BY <1>6, OwnerStep DEF WaitForSamples, Synchronize, Broadcast, vars, packer
  <2> QED
    BY <1>1, <2>1
<1> QED
  BY <1>2, <1>3, <1>4, <1>5, <1>6 DEF Next, Trainer

LEMMA OnceHolds == Spec => [](TypeInv /\ OnceInv)
<1>1. Init => OnceInv
  <2> SUFFICES ASSUME Init PROVE OnceInv
    OBVIOUS
  <2>1. \A x : x \notin Taken
    BY InitBuffers
  <2>2. InGrid = {} /\ Range(<<>>) = {} /\ DOMAIN <<>> = {}
    BY DEF Init, InGrid, Range
  <2>3. Stamped /\ Apart
    BY <2>2 DEF Init, Stamped, Apart
  <2>4. \A r \in Run : Drained(r) = {} /\ disk[r].files = {}
    BY DEF Init, Drained
  <2>5. Begins /\ Posted /\ ReadInOrder
    BY <2>1, <2>4 DEF Begins, Posted, ReadInOrder
  <2> QED
    BY <2>3, <2>5 DEF OnceInv
<1>2. TypeInv /\ OnceInv /\ [Next]_vars => OnceInv'
  BY StampedKept, BeginsKept, PostedKept, ReadInOrderKept, ApartKept DEF OnceInv
<1> QED
  BY <1>1, <1>2, InitTypes, NextTypes, PTL DEF Spec

\* No sample is trained twice: not by reading a file again, nor from a buffer
\* that outlived its run, nor because it was packed and kept, nor when a
\* directory is deleted and made again under its name, in its old slot or
\* another (the receivers' _received_steps and _pending,
\* MultiPacker._select_samples_round_robin, trainer/runs.py forgotten hooks).
THEOREM SamplesTrainedOnce == Spec => TrainedOnce
<1>1. OnceInv => (trained' # trained => InGrid \cap trained = {})
  BY DEF OnceInv, Apart
<1> QED
  BY <1>1, OnceHolds, PTL DEF TrainedOnce

-----------------------------------------------------------------------------
(* The life of a run whose id is used once. *)

\* A run whose directory is ready, one that is not yet, and one that will not
\* be again.
Alive(r) == disk[r].state = "ready" /\ ~disk[r].evicted
Unborn(r) == disk[r].gen = 0 \/ (disk[r].state = "bare" /\ ~disk[r].evicted)
Over(r) == disk[r].gen = MaxGen /\ (disk[r].state = "none" \/ disk[r].evicted)

\* A run has nothing anywhere before its config is written, and leaves its slot
\* for good.
Lives ==
    \A r \in Run :
        /\ disk[r].gen = 0 => disk[r].state = "none" /\ ~disk[r].evicted
        /\ Unborn(r) => /\ idxOf[r] = 0 /\ lastSynced[r] = 0
                        /\ disk[r].files = {} /\ Drained(r) = {}
        /\ disk[r].evicted /\ idxOf[r] # 0 => mpc = "rediscover"

Owners == \A x \in Taken : ~Unborn(x.run) /\ (idxOf[x.run] # 0 \/ Over(x.run))

\* The other ranks have the master's map of the last synchronization.  A run in
\* it is in the same slot or out of the game.
Views ==
    /\ rankIdx = lastSynced
    /\ \A r \in Run : lastSynced[r] # 0 =>
          idxOf[r] = lastSynced[r] \/ (idxOf[r] = 0 /\ Over(r))
    /\ mpc \in {"train", "broadcast"} => lastSynced = idxOf

\* Parameters have learnt from the run last synchronized in their slot, if any.
Adapters ==
    /\ adapter \in [Rank -> [Slot -> SUBSET [run : Run, gen : 1..MaxGen]]]
    /\ \A k \in Rank, s \in Slot :
          /\ \A c, d \in adapter[k][s] : c = d
          /\ \A r \in Run : lastSynced[r] = s => \A c \in adapter[k][s] : c.run = r

\* Messages of a run: one per step.
OnePerStep ==
    /\ \A i, j \in DOMAIN wire :
          wire[i].run = wire[j].run /\ wire[i].batch.step = wire[j].batch.step => i = j
    /\ \A r \in Run : \A m \in pending[r] :
          /\ \A i \in DOMAIN wire : wire[i].run = r => wire[i].batch.step # m.batch.step
          /\ \A q \in pending[r] : q.batch.step = m.batch.step => q = m

\* Nothing is of a step the run has not sent yet.
Sendings ==
    \A r \in Run :
        /\ disk[r].start <= disk[r].next
        /\ idxOf[r] # 0 => progress[idxOf[r]] <= disk[r].next
        /\ \A b \in disk[r].files : b.step < disk[r].next
        /\ \A m \in Drained(r) : disk[r].start <= m.batch.step /\ m.batch.step < disk[r].next
        /\ \A x \in Taken : x.run = r => x.step < disk[r].next

\* Messages are later than what has been taken, and not before the step that is
\* due.
Messages ==
    \A r \in Run : \A m \in Drained(r) :
        /\ transport # "filesystem"
        /\ idxOf[r] # 0 => progress[idxOf[r]] <= m.batch.step
        /\ \A x \in Taken : x.run = r => x.step < m.batch.step

\* Files are read in the order of their steps, each once.
Files ==
    /\ \A s \in Slot : received[s] # -1 => s \in Used /\ transport = "filesystem"
    /\ \A r \in Run : idxOf[r] # 0 /\ received[idxOf[r]] # -1 =>
          progress[idxOf[r]] <= received[idxOf[r]]
    /\ transport = "filesystem" =>
          \A r \in Run : idxOf[r] # 0 =>
             \A x \in Taken : x.run = r => x.step < received[idxOf[r]]

\* A buffer is in the order of steps, none before the current one.
InOrder ==
    \A s \in Slot :
        /\ \A i, j \in DOMAIN buffers[s] : i <= j => buffers[s][i].step <= buffers[s][j].step
        /\ \A x \in Range(buffers[s]) : progress[s] <= x.step

Sample(r, t, i) == [run |-> r, gen |-> disk[r].gen, step |-> t, n |-> i]

\* Of a step of a live run all samples have been taken or none, and they have
\* left the buffer once the step is done.
Whole ==
    \A r \in Run : idxOf[r] # 0 /\ Alive(r) =>
        \A i \in 1..PerBatch :
            /\ \A t \in disk[r].start..(progress[idxOf[r]] - 1) :
                  Sample(r, t, i) \in trained \cup InGrid
            /\ \A x \in Range(buffers[idxOf[r]]) :
                  Sample(r, x.step, i) \in trained \cup InGrid \cup Range(buffers[idxOf[r]])

SlotInv == Lives /\ Views /\ Stamped /\ Adapters
BatchInv == Owners /\ OnePerStep /\ Sendings /\ Messages /\ Files /\ InOrder

\* How a directory changes: an unborn run may begin, and what has begun only
\* comes to its end.
Ages(r) ==
    /\ Unborn(r)' => Unborn(r)
    /\ Over(r) => Over(r)'
    /\ ~Unborn(r) => /\ disk'[r].start = disk[r].start /\ disk'[r].gen = disk[r].gen
                     /\ disk[r].next <= disk'[r].next
                     /\ Alive(r)' => Alive(r)

LEMMA Aging ==
    ASSUME MaxGen = 1, TypeInv, Lives, [Next]_vars, NEW r \in Run
    PROVE  Ages(r)
<1>1. /\ disk[r].gen \in {0, 1} /\ disk[r].next \in Nat
      /\ disk[r].state \in {"none", "bare", "ready"} /\ disk[r].evicted \in BOOLEAN
      /\ disk[r].gen = 0 => disk[r].state = "none" /\ ~disk[r].evicted
      /\ idxOf[r] # 0 => ~Unborn(r) /\ disk[r].gen = 1
  <2>1. disk[r] \in RunDir
    BY DEF TypeInv, OutsideTypes
  <2>2. disk[r].gen \in Nat /\ disk[r].gen <= 1 /\ disk[r].next \in Nat
        /\ disk[r].state \in {"none", "bare", "ready"} /\ disk[r].evicted \in BOOLEAN
    BY <2>1, RunDirs
  <2> QED
    BY <2>2 DEF Lives, Unborn
<1>2. CASE disk'[r] = disk[r]
  BY <1>1, <1>2 DEF Ages, Unborn, Over, Alive
<1>3. CASE Made(r)
  <2>1. disk[r].gen = 0
    BY <1>1, <1>3 DEF Made
  <2> QED
    BY <1>1, <1>3, <2>1 DEF Made, Ages, Unborn, Over
<1>4. CASE Configured(r)
  <2>1. Unborn(r) /\ ~Over(r)
    BY <1>4 DEF Configured, Unborn, Over
  <2> QED
    BY <2>1 DEF Ages
<1>5. ASSUME NEW kind \in Kinds, Sent(r, kind) PROVE Ages(r)
  BY <1>1, <1>5 DEF Sent, Ages, Unborn, Over, Alive
<1>6. CASE Removed(r) /\ (disk[r].state # "none" \/ idxOf[r] # 0)
  BY <1>1, <1>6 DEF Removed, Ages, Unborn, Over, Alive
<1>7. CASE Evicted(r) /\ idxOf[r] # 0
  BY <1>1, <1>7 DEF Evicted, Ages, Unborn, Over, Alive
<1> QED
  BY <1>2, <1>3, <1>4, <1>5, <1>6, <1>7, DirSteps

-----------------------------------------------------------------------------
(* Lives, slots and adapters. *)

LEMMA LeavingIsOver ==
    ASSUME MaxGen = 1, TypeInv, NEW r \in Run, idxOf[r] # 0, ~Listed(r)
    PROVE  Over(r)
<1>1. disk[r] \in RunDir /\ disk[r].gen >= 1
  BY DEF TypeInv, OutsideTypes, SlotTypes
<1>2. disk[r].gen \in 0..1
  BY <1>1, RunDirs
<1> QED
  BY <1>1, <1>2 DEF Over, Listed

\* A run keeps its slot; a run that has none gets one only if its config is
\* there; who leaves is over.
LEMMA SlotSteps ==
    ASSUME MaxGen = 1, TypeInv, [Next]_vars, NEW r \in Run
    PROVE  \/ idxOf'[r] = idxOf[r] /\ (idxOf[r] # 0 /\ disk[r].evicted => ~Discover)
           \/ idxOf'[r] = 0 /\ idxOf[r] # 0 /\ Over(r) /\ Discover
           \/ /\ idxOf'[r] # 0 /\ idxOf[r] = 0 /\ Discover
              /\ ~Unborn(r) /\ ~Over(r) /\ ~disk[r].evicted
<1>1. CASE Discover
  <2>1. disk[r].state = "ready" => disk[r].gen # 0
    BY DEF TypeInv, SlotTypes
  <2>2. Listed(r) => ~Over(r) /\ ~disk[r].evicted
    BY DEF Listed, Over
  <2>3. idxOf[r] # 0 /\ ~Listed(r) => Over(r)
    BY LeavingIsOver
  <2>4. DiscoverRuns
    BY <1>1 DEF Discover
  <2>5. \/ idxOf'[r] = 0 /\ (idxOf[r] # 0 => ~Listed(r))
        \/ idxOf'[r] # 0 /\ idxOf[r] = idxOf'[r] /\ Listed(r)
        \/ idxOf'[r] # 0 /\ idxOf[r] = 0 /\ Listed(r) /\ disk[r].state = "ready"
    BY <2>4, Discovered
  <2> QED
    BY <1>1, <2>1, <2>2, <2>3, <2>5 DEF Unborn
<1>2. CASE Owner
  <2>1. idxOf' = idxOf /\ mpc' = mpc
    BY <1>2, OwnerStep
  <2> QED
    BY <2>1 DEF Discover
<1>3. CASE Receive \/ WaitForSamples \/ Pack \/ Synchronize \/ Train \/ Broadcast \/ UNCHANGED vars
  <2>1. idxOf' = idxOf
    BY <1>3 DEF Receive, ReceiveFiles, ReceiveMessages, WaitForSamples, Pack, Synchronize,
       Train, Broadcast, vars
  <2>2. ~(Receive \/ WaitForSamples \/ Pack \/ Synchronize \/ Train \/ Broadcast) \/ ~Discover
    BY DEF Receive, ReceiveFiles, ReceiveMessages, WaitForSamples, Pack, Synchronize,
       Train, Broadcast, Discover
  <2>3. UNCHANGED vars => ~Discover
    BY DEF vars, Discover
  <2> QED
    BY <1>3, <2>1, <2>2, <2>3
<1> QED
  BY <1>1, <1>2, <1>3 DEF Next, Trainer

LEMMA LivesKept ==
    ASSUME MaxGen = 1, TypeInv, Lives, [Next]_vars
    PROVE  Lives'
<1> SUFFICES ASSUME NEW r \in Run
             PROVE  /\ disk'[r].gen = 0 => disk'[r].state = "none" /\ ~disk'[r].evicted
                    /\ Unborn(r)' => /\ idxOf'[r] = 0 /\ lastSynced'[r] = 0
                                     /\ disk'[r].files = {} /\ Drained(r)' = {}
                    /\ disk'[r].evicted /\ idxOf'[r] # 0 => mpc' = "rediscover"
  BY DEF Lives
<1>1. /\ disk[r].gen \in {0, 1} /\ disk[r].evicted \in BOOLEAN
      /\ disk[r].state # "none" => disk[r].gen = 1
      /\ idxOf[r] # 0 => disk[r].gen = 1
  <2>1. disk[r] \in RunDir
    BY DEF TypeInv, OutsideTypes
  <2>2. disk[r].gen \in Nat /\ disk[r].gen <= 1 /\ disk[r].evicted \in BOOLEAN
    BY <2>1, RunDirs
  <2> QED
    BY <2>2 DEF TypeInv, SlotTypes
<1>2. disk'[r].gen = 0 => disk'[r].state = "none" /\ ~disk'[r].evicted
  <2>1. disk[r].gen = 0 => disk[r].state = "none" /\ ~disk[r].evicted
    BY DEF Lives
  <2>2. CASE disk'[r] = disk[r]
    BY <2>1, <2>2
  <2>3. CASE Made(r)
    BY <1>1, <2>3 DEF Made
  <2>4. CASE Configured(r)
    BY <1>1, <2>4 DEF Configured
  <2>5. CASE \E kind \in Kinds : Sent(r, kind)
    BY <1>1, <2>5 DEF Sent
  <2>6. CASE Removed(r)
    BY <2>6 DEF Removed
  <2>7. CASE Evicted(r) /\ idxOf[r] # 0
    BY <1>1, <2>7 DEF Evicted
  <2> QED
    BY <2>2, <2>3, <2>4, <2>5, <2>6, <2>7, DirSteps
<1>3. ASSUME Unborn(r)'
      PROVE  /\ idxOf'[r] = 0 /\ lastSynced'[r] = 0
             /\ disk'[r].files = {} /\ Drained(r)' = {}
  <2>1. Unborn(r)
    BY <1>3, Aging DEF Ages
  <2>2. idxOf[r] = 0 /\ lastSynced[r] = 0 /\ disk[r].files = {} /\ Drained(r) = {}
    BY <2>1 DEF Lives
  <2>3. \A kind \in Kinds : ~Sent(r, kind)
    BY <1>1, <2>1 DEF Sent, Unborn
  <2>4. idxOf'[r] = 0
    BY <2>1, <2>2, SlotSteps
  <2>5. disk'[r].files = {}
    BY <2>2, <2>3, DirSteps DEF Made, Configured, Removed, Evicted
  <2>6. Drained(r)' = {}
    BY <2>2, <2>3, DrainedSteps
  <2>7. lastSynced'[r] \in {lastSynced[r], idxOf[r]}
    <3>1. lastSynced' = lastSynced \/ lastSynced' = idxOf
      BY OwnerStep DEF ranks, Next, Trainer, Discover, Receive, ReceiveFiles, ReceiveMessages,
         WaitForSamples, Pack, Synchronize, Train, Broadcast, vars
    <3> QED
      BY <3>1
  <2> QED
    BY <2>2, <2>4, <2>5, <2>6, <2>7
<1>4. ASSUME disk'[r].evicted, idxOf'[r] # 0 PROVE mpc' = "rediscover"
  <2>1. CASE Receive
    BY <2>1 DEF Receive, ReceiveFiles, ReceiveMessages
  <2>2. CASE ~Receive
    <3>1. disk[r].evicted
      BY <1>1, <1>4, <2>2, DirSteps DEF Lives, Made, Configured, Sent, Removed
    <3>2. idxOf[r] # 0 /\ ~Discover
      BY <1>4, <3>1, SlotSteps
    <3>3. mpc = "rediscover"
      BY <3>1, <3>2 DEF Lives
    <3>4. Owner \/ UNCHANGED vars
      BY <2>2, <3>2, <3>3 DEF Next, Trainer, WaitForSamples, Pack, Synchronize, Train, Broadcast
    <3> QED
      BY <3>3, <3>4, OwnerStep DEF vars
  <2> QED
    BY <2>1, <2>2
<1> QED
  BY <1>2, <1>3, <1>4

LEMMA ViewsKept ==
    ASSUME MaxGen = 1, TypeInv, Lives, Views, [Next]_vars
    PROVE  Views'
<1>1. CASE Synchronize
  <2>1. /\ idxOf' = idxOf /\ lastSynced' = idxOf /\ disk' = disk
        /\ rankIdx' = [r \in Run |-> IF r \in Created(rankIdx, idxOf) THEN idxOf[r] ELSE KeptView[r]]
    BY <1>1 DEF Synchronize, outside
  <2>2. ASSUME NEW r \in Run PROVE rankIdx'[r] = idxOf[r]
    BY <2>1 DEF Views, Created, KeptView
  <2>3. rankIdx' = idxOf
    BY <2>1, <2>2 DEF TypeInv, SlotTypes
  <2> QED
    BY <2>1, <2>3 DEF Views
<1>2. ASSUME UNCHANGED <<rankIdx, lastSynced>>,
             mpc' \in {"train", "broadcast"} =>
                mpc \in {"train", "broadcast"} /\ idxOf' = idxOf
      PROVE  Views'
  <2>1. ASSUME NEW r \in Run, lastSynced[r] # 0
        PROVE  idxOf'[r] = lastSynced[r] \/ (idxOf'[r] = 0 /\ Over(r)')
    <3>1. idxOf[r] = lastSynced[r] \/ (idxOf[r] = 0 /\ Over(r))
      BY <2>1 DEF Views
    <3>2. Over(r) => Over(r)'
      BY Aging DEF Ages
    <3> QED
      BY <2>1, <3>1, <3>2, SlotSteps
  <2> QED
    BY <1>2, <2>1 DEF Views
<1>3. CASE Owner \/ UNCHANGED vars
  <2>1. UNCHANGED <<rankIdx, lastSynced, mpc, idxOf>>
    BY <1>3, OwnerStep DEF vars, ranks
  <2> QED
    BY <1>2, <2>1
<1>4. CASE Discover \/ Receive \/ WaitForSamples \/ Pack \/ Train \/ Broadcast
  <2>1. UNCHANGED <<rankIdx, lastSynced>>
    BY <1>4 DEF Discover, Receive, ReceiveFiles, ReceiveMessages, WaitForSamples, Pack, Train,
       Broadcast, ranks
  <2>2. mpc' \in {"train", "broadcast"} => mpc = "train" /\ idxOf' = idxOf
    BY <1>4 DEF Discover, Receive, ReceiveFiles, ReceiveMessages, WaitForSamples, Pack, Train,
       Broadcast
  <2> QED
    BY <1>2, <2>1, <2>2
<1> QED
  BY <1>1, <1>3, <1>4 DEF Next, Trainer

LEMMA AdaptersKept ==
    ASSUME MaxGen = 1, TypeInv, Views, Stamped, Adapters, [Next]_vars
    PROVE  Adapters'
<1>1. CASE UNCHANGED <<adapter, lastSynced>>
  BY <1>1 DEF Adapters
<1>2. CASE Synchronize
  <2> DEFINE new == Created(lastSynced, idxOf)
             view == [r \in Run |-> IF r \in new THEN idxOf[r] ELSE KeptView[r]]
             fresh == {s \in Slot : \E r \in new : idxOf[r] = s}
  <2>1. /\ lastSynced' = idxOf
        /\ adapter' = [master |-> ResetFor("master", idxOf, new),
                       other |-> ResetFor("other", view, new)]
    BY <1>2 DEF Synchronize, Views
  <2>2. new \subseteq Run /\ \A r \in new : view[r] = idxOf[r]
    BY DEF Created
  <2> HIDE DEF view, new
  <2>3. ASSUME NEW k \in Rank, NEW s \in Slot
        PROVE  adapter'[k][s] = IF s \in fresh THEN {} ELSE adapter[k][s]
    <3>1. CASE k = "master"
      BY <2>1, <3>1 DEF ResetFor
    <3>2. CASE k = "other"
      <4>1. (\E r \in new : view[r] = s) <=> s \in fresh
        BY <2>2
      <4>2. adapter'[k][s] = IF \E r \in new : view[r] = s THEN {} ELSE adapter[k][s]
        BY <2>1, <3>2 DEF ResetFor
      <4> HIDE DEF fresh
      <4> QED
        BY <4>1, <4>2
    <3> QED
      BY <3>1, <3>2 DEF Rank
  <2>4. adapter' \in [Rank -> [Slot -> SUBSET [run : Run, gen : 1..MaxGen]]]
    <3>1. DOMAIN adapter' = Rank
      BY <2>1 DEF Rank
    <3>2. adapter' = [k \in Rank |-> adapter'[k]]
      BY <2>1, <3>1
    <3>3. ASSUME NEW k \in Rank PROVE adapter'[k] = [s \in Slot |-> adapter'[k][s]]
      <4>1. k = "master" \/ k = "other"
        BY DEF Rank
      <4>2. adapter'[k] = ResetFor("master", idxOf, new) \/ adapter'[k] = ResetFor("other", view, new)
        BY <2>1, <4>1
      <4> QED
        BY <4>2 DEF ResetFor
    <3> HIDE DEF fresh
    <3>4. \A k \in Rank, s \in Slot : adapter'[k][s] \in SUBSET [run : Run, gen : 1..MaxGen]
      BY <2>3 DEF Adapters
    <3> QED
      BY <3>2, <3>3, <3>4
  <2>5. ASSUME NEW k \in Rank, NEW s \in Slot
        PROVE  /\ \A c, d \in adapter'[k][s] : c = d
               /\ \A r \in Run : idxOf[r] = s => \A c \in adapter'[k][s] : c.run = r
    <3>1. CASE \E r \in new : idxOf[r] = s
      BY <2>3, <3>1
    <3>2. CASE ~\E r \in new : idxOf[r] = s
      <4>1. adapter'[k][s] = adapter[k][s]
        BY <2>3, <3>2
      <4>2. ASSUME NEW r \in Run, idxOf[r] = s PROVE lastSynced[r] = s
        <5>1. s # 0 /\ lastSynced[r] # 0
          BY <3>2, <4>2 DEF Created, new
        <5> QED
          BY <4>2, <5>1 DEF Views
      <4> QED
        BY <4>1, <4>2 DEF Adapters
    <3> QED
      BY <3>1, <3>2
  <2> QED
    BY <2>1, <2>4, <2>5 DEF Adapters
<1>3. CASE Train
  <2>1. /\ lastSynced' = lastSynced /\ lastSynced = idxOf
        /\ adapter' = [k \in Rank |-> [s \in Slot |-> adapter[k][s] \cup LearntFrom(s)]]
    BY <1>3 DEF Train, Views
  <2>2. ASSUME NEW s \in Slot, NEW c \in LearntFrom(s)
        PROVE  /\ c \in [run : Run, gen : 1..MaxGen] /\ c.gen = 1
               /\ idxOf[c.run] = s /\ c.run \in Run
    <3>1. PICK m \in grid : m.slot = s /\ \E x \in Range(m.samples) : c = [run |-> x.run, gen |-> x.gen]
      BY DEF LearntFrom
    <3>2. PICK x \in Range(m.samples) : c = [run |-> x.run, gen |-> x.gen]
      BY <3>1
    <3>3. x \in SampleType
      BY <3>2, InGridTypes
    <3>4. x.run \in Run /\ x.gen \in 1..1 /\ idxOf[x.run] = s
      BY <3>1, <3>2, <3>3 DEF SampleType, Stamped
    <3> QED
      BY <3>2, <3>4
  <2>3. adapter' \in [Rank -> [Slot -> SUBSET [run : Run, gen : 1..MaxGen]]]
    <3>1. \A k \in Rank, s \in Slot :
             adapter[k][s] \cup LearntFrom(s) \in SUBSET [run : Run, gen : 1..MaxGen]
      BY <2>2 DEF Adapters
    <3> QED
      BY <2>1, <3>1
  <2>4. ASSUME NEW k \in Rank, NEW s \in Slot
        PROVE  /\ \A c, d \in adapter'[k][s] : c = d
               /\ \A r \in Run : idxOf[r] = s => \A c \in adapter'[k][s] : c.run = r
    <3>1. adapter'[k][s] = adapter[k][s] \cup LearntFrom(s)
      BY <2>1
    <3>2. ASSUME NEW r \in Run, idxOf[r] = s, NEW c \in adapter'[k][s] PROVE c = [run |-> r, gen |-> 1]
      <4>1. c \in [run : Run, gen : 1..MaxGen] /\ c.run = r
        <5>1. CASE c \in adapter[k][s]
          BY <2>1, <3>2, <5>1 DEF Adapters
        <5>2. CASE c \in LearntFrom(s)
          <6>1. idxOf[c.run] = idxOf[r] /\ idxOf[r] # 0 /\ c.run \in Run
            BY <2>2, <3>2, <5>2
          <6> QED
            BY <2>2, <5>2, <6>1 DEF TypeInv, SlotTypes
        <5> QED
          BY <3>1, <3>2, <5>1, <5>2
      <4>2. c.gen \in 1..1
        BY <4>1
      <4>3. c = [run |-> c.run, gen |-> c.gen]
        BY <4>1
      <4> QED
        BY <4>1, <4>2, <4>3
    <3>3. ASSUME NEW c \in adapter'[k][s], NEW d \in adapter'[k][s] PROVE c = d
      <4>1. CASE \E e : e \in LearntFrom(s)
        <5>1. PICK r \in Run : idxOf[r] = s
          BY <2>2, <4>1
        <5> QED
          BY <3>2, <3>3, <5>1
      <4>2. CASE ~\E e : e \in LearntFrom(s)
        BY <3>1, <3>3, <4>2 DEF Adapters
      <4> QED
        BY <4>1, <4>2
    <3>4. \A r \in Run : idxOf[r] = s => \A c \in adapter'[k][s] : c.run = r
      BY <3>2
    <3> QED
      BY <3>3, <3>4
  <2> QED
    BY <2>1, <2>3, <2>4 DEF Adapters
<1>4. CASE Owner \/ Discover \/ Receive \/ WaitForSamples \/ Pack \/ Broadcast \/ UNCHANGED vars
  <2>1. UNCHANGED <<adapter, lastSynced>>
    BY <1>4, OwnerStep DEF Discover, Receive, ReceiveFiles, ReceiveMessages, WaitForSamples, Pack,
       Broadcast, ranks, vars
  <2> QED
    BY <1>1, <2>1
<1> QED
  BY <1>2, <1>3, <1>4 DEF Next, Trainer

LEMMA SlotsHold ==
    ASSUME MaxGen = 1
    PROVE  Spec => [](TypeInv /\ SlotInv)
<1>1. Init => SlotInv
  <2> SUFFICES ASSUME Init PROVE SlotInv
    OBVIOUS
  <2>1. Lives
    BY DEF Init, Lives, Drained
  <2>2. Views /\ Stamped
    BY DEF Init, Views, Stamped, Range
  <2>3. Adapters
    BY DEF Init, Adapters
  <2> QED
    BY <2>1, <2>2, <2>3 DEF SlotInv
<1>2. TypeInv /\ SlotInv /\ [Next]_vars => SlotInv'
  BY LivesKept, ViewsKept, StampedKept, AdaptersKept DEF SlotInv
<1> QED
  BY <1>1, <1>2, InitTypes, NextTypes, PTL DEF Spec

\* A slot that passes from a run to another carries nothing over: on every rank
\* its parameters learn from one run between two resets, and a micro batch is
\* stamped with the run that sent its samples (trainer/runs.py creation and
\* forgotten hooks, synchronize_state; trainer/rl/packer.py).  It needs every
\* run id to be used once: a directory deleted and made again under its name
\* between two synchronizations gets no reset.
THEOREM AdaptersLearnFromOneRun ==
    ASSUME MaxGen = 1
    PROVE  Spec => []OneRunPerAdapter
<1>1. TypeInv /\ SlotInv => OneRunPerAdapter
  <2> SUFFICES ASSUME TypeInv, SlotInv PROVE OneRunPerAdapter
    OBVIOUS
  <2>1. ASSUME NEW k \in Rank, NEW s \in Slot PROVE Cardinality(adapter[k][s]) <= 1
    <3>1. CASE adapter[k][s] = {}
      BY <3>1, FS_EmptySet
    <3>2. CASE adapter[k][s] # {}
      <4>1. PICK c : c \in adapter[k][s]
        BY <3>2
      <4>2. adapter[k][s] = {c}
        BY <4>1 DEF SlotInv, Adapters
      <4>3. Cardinality({c}) = 1
        BY FS_Singleton
      <4> QED
        BY <4>2, <4>3
    <3> QED
      BY <3>1, <3>2
  <2> QED
    BY <2>1 DEF SlotInv, Stamped, OneRunPerAdapter
<1> QED
  BY <1>1, SlotsHold, PTL

-----------------------------------------------------------------------------
(* Batches: the steps of what is sent, received, buffered and trained. *)

\* Two messages of one run and step are one.
LEMMA DrainedOnce ==
    ASSUME OnePerStep, NEW r \in Run, NEW m \in Drained(r), NEW q \in Drained(r),
           m.batch.step = q.batch.step
    PROVE  m = q
<1>1. m \in pending[r] \/ \E i \in DOMAIN wire : wire[i].run = r /\ m = wire[i]
  BY DEF Drained
<1>2. q \in pending[r] \/ \E i \in DOMAIN wire : wire[i].run = r /\ q = wire[i]
  BY DEF Drained
<1> QED
  BY <1>1, <1>2 DEF OnePerStep

\* The batch a slot receives is of a step its run has sent, and later than what
\* was taken of the run before.
LEMMA Later ==
    ASSUME TypeInv, Sendings, Messages, Files, NEW found \in SUBSET Used,
           NEW item \in [found -> Message],
           FromFiles(found, item) \/ FromMessages(found, item), NEW s \in found
    PROVE  /\ progress[s] <= item[s].batch.step
           /\ item[s].batch.step < disk[RunAt(s)].next
           /\ \A x \in Taken : x.run = RunAt(s) => x.step < item[s].batch.step
<1>1. /\ s \in Slot /\ RunAt(s) \in Run /\ idxOf[RunAt(s)] = s /\ idxOf[RunAt(s)] # 0
      /\ s \in Used
  BY RunInSlot DEF Used
<1>2. progress[s] \in Nat /\ received[s] \in Nat \cup {-1}
  BY <1>1 DEF TypeInv, PackerTypes
<1>3. CASE FromFiles(found, item)
  <2>1. /\ item[s].batch \in disk[RunAt(s)].files /\ item[s].batch.step = NextStep[s]
        /\ transport = "filesystem"
    BY <1>3 DEF FromFiles
  <2>2. NextStep[s] = IF received[s] = -1 THEN progress[s] ELSE received[s]
    BY <1>1 DEF NextStep
  <2>3. progress[s] <= NextStep[s]
    BY <1>1, <1>2, <2>2 DEF Files
  <2>4. ASSUME NEW x \in Taken, x.run = RunAt(s) PROVE x.step < NextStep[s]
    <3>1. x.step < received[s] /\ x.step \in Nat
      BY <1>1, <2>1, <2>4, TakenRun DEF Files
    <3> QED
      BY <1>2, <2>2, <3>1
  <2> QED
    BY <1>1, <2>1, <2>3, <2>4 DEF Sendings
<1>4. CASE FromMessages(found, item)
  <2>1. item[s] \in Drained(RunAt(s))
    BY <1>4 DEF FromMessages
  <2> QED
    BY <1>1, <2>1 DEF Sendings, Messages
<1> QED
  BY <1>3, <1>4

\* How the current step of a run in a slot changes: it begins at the start of
\* the run, and a pack that takes a sample of it may end it.
LEMMA ProgressSteps ==
    ASSUME MaxGen = 1, TypeInv, SlotInv, InOrder, [Next]_vars, NEW r \in Run, idxOf'[r] # 0
    PROVE  \/ idxOf'[r] = idxOf[r] /\ progress'[idxOf[r]] = progress[idxOf[r]]
           \/ /\ Discover /\ disk' = disk /\ idxOf[r] = 0
              /\ progress'[idxOf'[r]] = disk[r].start
           \/ /\ Pack /\ disk' = disk /\ idxOf'[r] = idxOf[r]
              /\ progress'[idxOf[r]] = progress[idxOf[r]] + 1
              /\ \E x \in Taken : x.run = r /\ x.step = progress[idxOf[r]]
<1>1. CASE Discover
  <2>1. DiscoverRuns /\ disk' = disk
    BY <1>1 DEF Discover, outside
  <2>2. \/ idxOf'[r] = 0 /\ (idxOf[r] # 0 => ~Listed(r))
        \/ /\ idxOf'[r] # 0 /\ idxOf[r] = idxOf'[r] /\ Listed(r)
           /\ progress'[idxOf[r]] = progress[idxOf[r]]
        \/ /\ idxOf'[r] # 0 /\ idxOf[r] = 0 /\ Listed(r) /\ disk[r].state = "ready"
           /\ progress'[idxOf'[r]] = disk[r].start
    BY <2>1, Discovered
  <2> QED
    BY <1>1, <2>1, <2>2
<1>2. CASE Pack
  <2>1. PICK take \in [Slot -> Nat] : Packs(take)
    BY <1>2, Packed
  <2>2. disk' = disk /\ idxOf' = idxOf
    BY <1>2 DEF Pack, outside
  <2> DEFINE s == idxOf[r]
  <2>3. s \in Slot
    BY <2>2 DEF TypeInv, SlotTypes, Slot
  <2>4. CASE s \notin Finished(take)
    BY <2>1, <2>2, <2>3, <2>4 DEF Packs
  <2>5. CASE s \in Finished(take)
    <3>1. take[s] > 0 /\ progress'[s] = progress[s] + 1
      BY <2>1, <2>3, <2>5 DEF Packs, Finished
    <3>2. take[s] \in 0..Len(buffers[s]) /\ buffers[s] \in Seq(SampleType)
          /\ \A j \in 1..take[s] : buffers[s][j].step <= progress[s]
      BY <2>1, <2>3 DEF Packs, TypeInv, PackerTypes
    <3> DEFINE x == buffers[s][1]
    <3>3. 1 \in 1..take[s] /\ 1 \in DOMAIN buffers[s] /\ x \in SampleType
      BY <3>1, <3>2
    <3>4. x \in Range(buffers[s])
      BY <3>3 DEF Range
    <3>5. x \in Taken /\ idxOf[x.run] = s /\ progress[s] <= x.step /\ x.step <= progress[s]
      BY <2>3, <3>2, <3>3, <3>4, InTaken DEF SlotInv, Stamped, InOrder
    <3>6. x.run \in Run /\ x.step \in Nat /\ progress[s] \in Nat /\ s # 0
      BY <2>3, <3>3 DEF SampleType, TypeInv, PackerTypes
    <3>7. x.run = r
      BY <3>5, <3>6 DEF TypeInv, SlotTypes
    <3> HIDE DEF x
    <3> QED
      BY <1>2, <2>2, <3>1, <3>5, <3>6, <3>7
  <2> QED
    BY <2>4, <2>5
<1>3. CASE Owner \/ Receive \/ WaitForSamples \/ Synchronize \/ Train \/ Broadcast \/ UNCHANGED vars
  <2>1. UNCHANGED <<idxOf, progress>>
    BY <1>3, OwnerStep DEF Receive, ReceiveFiles, ReceiveMessages, WaitForSamples, Synchronize,
       Train, Broadcast, vars
  <2> QED
    BY <2>1
<1> QED
  BY <1>1, <1>2, <1>3 DEF Next, Trainer

LEMMA OwnersKept ==
    ASSUME MaxGen = 1, TypeInv, SlotInv, Owners, [Next]_vars
    PROVE  Owners'
<1>0. Lives
  BY DEF SlotInv
<1> SUFFICES ASSUME NEW x \in Taken'
             PROVE  ~Unborn(x.run)' /\ (idxOf'[x.run] # 0 \/ Over(x.run)')
  BY DEF Owners
<1>1. ASSUME NEW r \in Run, ~Unborn(r), idxOf[r] # 0 \/ Over(r)
      PROVE  ~Unborn(r)' /\ (idxOf'[r] # 0 \/ Over(r)')
  <2>1. ~Unborn(r)' /\ (Over(r) => Over(r)')
    BY <1>0, <1>1, Aging DEF Ages
  <2> QED
    BY <1>1, <2>1, SlotSteps
<1>2. CASE x \in Taken
  BY <1>1, <1>2, TakenRun DEF Owners
<1>3. CASE x \notin Taken
  <2>1. PICK found \in SUBSET Used : \E item \in [found -> Message] :
          \E s \in found : x \in Range(New(item, s))
    BY <1>3, OldOrNew
  <2>2. PICK item \in [found -> Message] : \E s \in found : x \in Range(New(item, s))
    BY <2>1
  <2>3. PICK s \in found : x \in Range(New(item, s))
    BY <2>2
  <2>4. x.run \in Run /\ idxOf[x.run] # 0
    BY <2>1, <2>2, <2>3, NewSample
  <2>5. ~Unborn(x.run)
    BY <1>0, <2>4 DEF Lives
  <2> QED
    BY <1>1, <2>4, <2>5
<1> QED
  BY <1>2, <1>3

LEMMA OnePerStepKept ==
    ASSUME TypeInv, Sendings, OnePerStep, [Next]_vars
    PROVE  OnePerStep'
<1>1. CASE UNCHANGED <<pending, wire>>
  BY <1>1 DEF OnePerStep
<1>2. CASE Owner
  <2>1. PICK r \in Run : OwnerChanges(r)
    BY <1>2, OwnerStep
  <2>2. pending' = pending
    BY <1>2, OwnerStep DEF packer
  <2>3. ASSUME NEW kind \in Kinds, Sent(r, kind), wire' # wire PROVE OnePerStep'
    <3> DEFINE new == [run |-> r, gen |-> disk[r].gen, batch |-> NextBatch(r, kind)]
    <3>1. wire' = Append(wire, new) /\ new.run = r /\ new.batch.step = disk[r].next
      BY <2>3 DEF Sent, NextBatch
    <3> HIDE DEF new
    <3>2. /\ DOMAIN wire' = 1..(Len(wire) + 1) /\ DOMAIN wire = 1..Len(wire) /\ Len(wire) \in Nat
          /\ wire'[Len(wire) + 1] = new /\ \A i \in 1..Len(wire) : wire'[i] = wire[i]
      <4>1. wire \in Seq(Message)
        BY DEF TypeInv, OutsideTypes
      <4> QED
        BY <3>1, <4>1
    <3>3. disk[r].next \in Nat /\ \A m \in Drained(r) : m.batch.step \in Nat /\ m.batch.step < disk[r].next
      <4>1. disk[r] \in RunDir
        BY DEF TypeInv, OutsideTypes
      <4>2. \A m \in Drained(r) : m.batch.step \in Nat
        BY DrainedTypes DEF Message, Batch
      <4> QED
        BY <4>1, <4>2, RunDirs DEF Sendings
    <3>4. \A i \in 1..Len(wire) : wire[i].run = r => wire[i] \in Drained(r)
      BY <3>2 DEF Drained
    <3>5. \A m \in pending[r] : m \in Drained(r)
      BY DEF Drained
    <3>6. ASSUME NEW i \in DOMAIN wire', NEW j \in DOMAIN wire', wire'[i].run = wire'[j].run,
                 wire'[i].batch.step = wire'[j].batch.step
          PROVE  i = j
      <4>1. CASE i \in 1..Len(wire) /\ j \in 1..Len(wire)
        BY <3>2, <3>6, <4>1 DEF OnePerStep
      <4>2. CASE i = Len(wire) + 1 /\ j \in 1..Len(wire)
        BY <3>1, <3>2, <3>3, <3>4, <3>6, <4>2
      <4>3. CASE i \in 1..Len(wire) /\ j = Len(wire) + 1
        BY <3>1, <3>2, <3>3, <3>4, <3>6, <4>3
      <4> QED
        BY <3>2, <4>1, <4>2, <4>3
    <3>7. ASSUME NEW q \in Run, NEW m \in pending[q], NEW i \in DOMAIN wire', wire'[i].run = q
          PROVE  wire'[i].batch.step # m.batch.step
      <4>1. CASE i \in 1..Len(wire)
        BY <3>2, <3>7, <4>1 DEF OnePerStep
      <4>2. CASE i = Len(wire) + 1
        BY <3>1, <3>2, <3>3, <3>5, <3>7, <4>2
      <4> QED
        BY <3>2, <4>1, <4>2
    <3> QED
      BY <2>2, <3>6, <3>7 DEF OnePerStep
  <2> QED
    BY <1>1, <2>1, <2>2, <2>3 DEF OwnerChanges
<1>3. CASE Receive
  <2>1. PICK found \in SUBSET Used : \E item \in [found -> Message] :
          FromFiles(found, item) \/ FromMessages(found, item)
    BY <1>3, Received
  <2>2. PICK item \in [found -> Message] : FromFiles(found, item) \/ FromMessages(found, item)
    BY <2>1
  <2>3. CASE FromFiles(found, item)
    BY <1>1, <2>3 DEF FromFiles
  <2>4. CASE FromMessages(found, item)
    <3>1. wire' = <<>> /\ \A r \in Run : pending'[r] \subseteq Drained(r)
      BY <2>4 DEF FromMessages
    <3> QED
      BY <3>1, DrainedOnce DEF OnePerStep
  <2> QED
    BY <2>2, <2>3, <2>4
<1>4. CASE Discover
  <2>1. pending' = pending
    BY <1>4, Discovered DEF Discover
  <2> QED
    BY <1>1, <1>4, <2>1 DEF Discover, outside
<1>5. CASE WaitForSamples \/ Pack \/ Synchronize \/ Train \/ Broadcast \/ UNCHANGED vars
  BY <1>1, <1>5 DEF WaitForSamples, Pack, Synchronize, Train, Broadcast, vars, outside, packer
<1> QED
  BY <1>2, <1>3, <1>4, <1>5 DEF Next, Trainer

LEMMA SendingsKept ==
    ASSUME MaxGen = 1, TypeInv, TypeInv', SlotInv, SlotInv', BatchInv, [Next]_vars
    PROVE  Sendings'
<1>0. Lives /\ Owners /\ Sendings /\ Messages /\ Files /\ InOrder
  BY DEF SlotInv, BatchInv
<1> SUFFICES ASSUME NEW r \in Run
             PROVE  /\ disk'[r].start <= disk'[r].next
                    /\ idxOf'[r] # 0 => progress'[idxOf'[r]] <= disk'[r].next
                    /\ \A b \in disk'[r].files : b.step < disk'[r].next
                    /\ \A m \in Drained(r)' :
                          disk'[r].start <= m.batch.step /\ m.batch.step < disk'[r].next
                    /\ \A x \in Taken' : x.run = r => x.step < disk'[r].next
  BY DEF Sendings
<1>1. /\ disk[r].start \in Nat /\ disk[r].next \in Nat /\ disk[r].start <= disk[r].next
      /\ disk'[r].start \in Nat /\ disk'[r].next \in Nat
      /\ \A b \in disk[r].files : b.step \in Nat
      /\ disk[r].gen = 0 \/ disk[r].state # "none" \/ ~Unborn(r)
      /\ disk[r].state # "none" => disk[r].gen # 0
  <2>1. disk[r] \in RunDir /\ disk'[r] \in RunDir
    BY DEF TypeInv, OutsideTypes
  <2>2. \A b \in disk[r].files : b.step \in Nat
    BY <2>1, RunDirs DEF Batch
  <2> QED
    BY <1>0, <2>1, <2>2, RunDirs DEF Sendings, Unborn, TypeInv, SlotTypes
<1>2. ~Unborn(r) => /\ ~Unborn(r)' /\ disk'[r].start = disk[r].start
                    /\ disk[r].next <= disk'[r].next
  BY <1>0, Aging DEF Ages
<1>3. disk'[r].start <= disk'[r].next
  <2>1. CASE ~Unborn(r)
    BY <1>1, <1>2, <2>1
  <2>2. CASE Unborn(r)
    <3>1. \A kind \in Kinds : ~Sent(r, kind)
      BY <1>1, <2>2 DEF Sent, Unborn
    <3> QED
      BY <1>1, <3>1, DirSteps DEF Made, Configured, Removed, Evicted
  <2> QED
    BY <2>1, <2>2
<1>4. ASSUME idxOf'[r] # 0 PROVE progress'[idxOf'[r]] <= disk'[r].next
  <2>1. idxOf'[r] \in Slot /\ progress'[idxOf'[r]] \in Nat
    BY <1>4, SMTT(30) DEF TypeInv, SlotTypes, PackerTypes, Slot
  <2>2. CASE idxOf'[r] = idxOf[r] /\ progress'[idxOf[r]] = progress[idxOf[r]]
    <3>1. progress[idxOf[r]] <= disk[r].next /\ ~Unborn(r)
      BY <1>0, <1>4, <2>2 DEF Sendings, Lives
    <3> QED
      BY <1>1, <1>2, <2>1, <2>2, <3>1
  <2>3. CASE disk' = disk /\ progress'[idxOf'[r]] = disk[r].start
    BY <1>1, <2>3
  <2>4. CASE /\ disk' = disk /\ idxOf'[r] = idxOf[r]
             /\ progress'[idxOf[r]] = progress[idxOf[r]] + 1
             /\ \E x \in Taken : x.run = r /\ x.step = progress[idxOf[r]]
    <3>1. progress[idxOf[r]] < disk[r].next
      BY <1>0, <2>4 DEF Sendings
    <3>2. progress[idxOf[r]] \in Nat
      BY <2>1, <2>4 DEF TypeInv, PackerTypes
    <3> QED
      BY <1>1, <2>4, <3>1, <3>2
  <2> QED
    BY <1>0, <1>4, <2>2, <2>3, <2>4, ProgressSteps
<1>5. ASSUME NEW b \in disk'[r].files PROVE b.step < disk'[r].next
  <2>1. CASE Unborn(r)
    <3>1. disk[r].files = {} /\ \A kind \in Kinds : ~Sent(r, kind)
      BY <1>0, <1>1, <2>1 DEF Sent, Unborn, Lives
    <3> QED
      BY <1>5, <3>1, DirSteps DEF Made, Configured, Removed, Evicted
  <2>2. CASE ~Unborn(r)
    <3>1. b \in disk[r].files \/ (b.step = disk[r].next /\ disk'[r].next = disk[r].next + 1)
      <4>1. CASE \E kind \in Kinds : Sent(r, kind)
        BY <1>5, <4>1 DEF Sent, NextBatch
      <4>2. CASE ~\E kind \in Kinds : Sent(r, kind)
        BY <1>5, <4>2, DirSteps DEF Made, Configured, Removed, Evicted
      <4> QED
        BY <4>1, <4>2
    <3>2. b \in disk[r].files => b.step < disk[r].next /\ b.step \in Nat
      BY <1>0, <1>1 DEF Sendings
    <3> QED
      BY <1>1, <1>2, <2>2, <3>1, <3>2
  <2> QED
    BY <2>1, <2>2
<1>6. ASSUME NEW m \in Drained(r)'
      PROVE  disk'[r].start <= m.batch.step /\ m.batch.step < disk'[r].next
  <2>1. CASE m \in Drained(r)
    <3>1. ~Unborn(r) /\ disk[r].start <= m.batch.step /\ m.batch.step < disk[r].next
      BY <1>0, <2>1 DEF Lives, Sendings
    <3>2. m.batch.step \in Nat
      BY <2>1, DrainedTypes DEF Message, Batch
    <3> QED
      BY <1>1, <1>2, <3>1, <3>2
  <2>2. CASE m \notin Drained(r)
    <3>1. PICK kind \in Kinds : Sent(r, kind) /\ m.batch = NextBatch(r, kind)
      BY <1>6, <2>2, DrainedSteps
    <3> QED
      BY <1>1, <3>1 DEF Sent, NextBatch
  <2> QED
    BY <2>1, <2>2
<1>7. ASSUME NEW x \in Taken', x.run = r PROVE x.step < disk'[r].next
  <2>1. CASE x \in Taken
    BY <1>0, <1>1, <1>2, <1>7, <2>1, TakenRun DEF Owners, Sendings
  <2>2. CASE x \notin Taken
    <3>1. PICK found \in SUBSET Used : \E item \in [found -> Message] :
            /\ FromFiles(found, item) \/ FromMessages(found, item)
            /\ \E s \in found : x \in Range(New(item, s))
      BY <2>2, OldOrNew
    <3>2. PICK item \in [found -> Message] :
            /\ FromFiles(found, item) \/ FromMessages(found, item)
            /\ \E s \in found : x \in Range(New(item, s))
      BY <3>1
    <3>3. PICK s \in found : x \in Range(New(item, s))
      BY <3>2
    <3>4. x.run = RunAt(s) /\ x.step = item[s].batch.step /\ x.step \in Nat /\ idxOf[RunAt(s)] # 0
      BY <3>1, <3>2, <3>3, NewSample
    <3>5. x.step < disk[r].next
      BY <1>0, <1>7, <3>2, <3>4, Later
    <3>6. ~Unborn(r)
      BY <1>0, <1>7, <3>4 DEF Lives
    <3> QED
      BY <1>1, <1>2, <3>4, <3>5, <3>6
  <2> QED
    BY <2>1, <2>2
<1> QED
  BY <1>3, <1>4, <1>5, <1>6, <1>7

LEMMA MessagesKept ==
    ASSUME MaxGen = 1, TypeInv, TypeInv', SlotInv, BatchInv, [Next]_vars
    PROVE  Messages'
<1>0. Lives /\ Owners /\ OnePerStep /\ Sendings /\ Messages /\ Files /\ InOrder
  BY DEF SlotInv, BatchInv
<1> SUFFICES ASSUME NEW r \in Run, NEW m \in Drained(r)'
             PROVE  /\ transport' # "filesystem"
                    /\ idxOf'[r] # 0 => progress'[idxOf'[r]] <= m.batch.step
                    /\ \A x \in Taken' : x.run = r => x.step < m.batch.step
  BY DEF Messages
<1>1. transport' = transport
  BY OwnerStep DEF Next, Trainer, Discover, Receive, ReceiveFiles, ReceiveMessages,
     WaitForSamples, Pack, Synchronize, Train, Broadcast, vars
<1>2. \A x \in Taken : x.step \in Nat
  BY TakenRun
<1>3. CASE m \in Drained(r)
  <2>1. /\ transport # "filesystem" /\ disk[r].start <= m.batch.step
        /\ idxOf[r] # 0 => progress[idxOf[r]] <= m.batch.step
        /\ \A x \in Taken : x.run = r => x.step < m.batch.step
    BY <1>0, <1>3 DEF Messages, Sendings
  <2>2. m \in Message /\ m.batch.step \in Nat
    BY <1>3, DrainedTypes DEF Message, Batch
  <2>3. ASSUME idxOf'[r] # 0 PROVE progress'[idxOf'[r]] <= m.batch.step
    <3>1. CASE idxOf'[r] = idxOf[r] /\ progress'[idxOf[r]] = progress[idxOf[r]]
      BY <2>1, <2>3, <3>1
    <3>2. CASE progress'[idxOf'[r]] = disk[r].start
      BY <2>1, <3>2
    <3>3. CASE /\ idxOf'[r] = idxOf[r] /\ progress'[idxOf[r]] = progress[idxOf[r]] + 1
               /\ \E x \in Taken : x.run = r /\ x.step = progress[idxOf[r]]
      BY <1>2, <2>1, <2>2, <3>3
    <3> QED
      BY <1>0, <2>3, <3>1, <3>2, <3>3, ProgressSteps
  <2>4. ASSUME NEW x \in Taken', x.run = r PROVE x.step < m.batch.step
    <3>1. CASE x \in Taken
      BY <2>1, <2>4, <3>1
    <3>2. CASE x \notin Taken
      <4>1. PICK found \in SUBSET Used : \E item \in [found -> Message] :
              /\ FromFiles(found, item) \/ FromMessages(found, item)
              /\ \E s \in found : x \in Range(New(item, s))
        BY <3>2, OldOrNew
      <4>2. PICK item \in [found -> Message] :
              /\ FromFiles(found, item) \/ FromMessages(found, item)
              /\ \E s \in found : x \in Range(New(item, s))
        BY <4>1
      <4>3. PICK s \in found : x \in Range(New(item, s))
        BY <4>2
      <4>4. x.run = RunAt(s) /\ x.step = item[s].batch.step /\ x.step \in Nat /\ idxOf[r] = s
        BY <2>4, <4>1, <4>2, <4>3, NewSample
      <4>5. FromMessages(found, item)
        BY <2>1, <4>2 DEF FromFiles
      <4>6. /\ item[s] \in Drained(r) /\ \A q \in Drained(r) : item[s].batch.step <= q.batch.step
            /\ pending'[r] = Drained(r) \ {item[s]} /\ wire' = <<>>
        BY <2>4, <4>3, <4>4, <4>5 DEF FromMessages
      <4>7. Drained(r)' = pending'[r]
        BY <4>6 DEF Drained
      <4>8. m \in Drained(r) /\ m # item[s]
        BY <4>6, <4>7
      <4>9. item[s].batch.step # m.batch.step
        BY <1>0, <4>6, <4>8, DrainedOnce
      <4> QED
        BY <2>2, <4>4, <4>6, <4>8, <4>9
    <3> QED
      BY <3>1, <3>2
  <2> QED
    BY <1>1, <2>1, <2>3, <2>4
<1>4. CASE m \notin Drained(r)
  <2>1. PICK kind \in Kinds : /\ Sent(r, kind) /\ transport # "filesystem"
                              /\ m.batch = NextBatch(r, kind)
    BY <1>4, DrainedSteps
  <2>2. m.batch.step = disk[r].next /\ disk'[r].next = disk[r].next + 1 /\ disk[r].next \in Nat
    <3>1. disk[r] \in RunDir
      BY DEF TypeInv, OutsideTypes
    <3> QED
      BY <2>1, <3>1, RunDirs DEF Sent, NextBatch
  <2>3. disk'[r] # disk[r] /\ ~Receive
    <3>1. disk'[r] # disk[r]
      BY <2>2
    <3>2. Receive => disk'[r].next = disk[r].next
      BY OtherDirs DEF Evicted, Removed
    <3> QED
      BY <2>2, <3>1, <3>2
  <2>4. ASSUME idxOf'[r] # 0 PROVE progress'[idxOf'[r]] <= m.batch.step
    <3>1. idxOf'[r] = idxOf[r] /\ progress'[idxOf[r]] = progress[idxOf[r]]
      BY <1>0, <2>3, <2>4, ProgressSteps
    <3> QED
      BY <1>0, <2>2, <2>4, <3>1 DEF Sendings
  <2>5. ASSUME NEW x \in Taken', x.run = r PROVE x.step < m.batch.step
    <3>1. x \in Taken
      BY <2>3, <2>5, TakenSteps
    <3> QED
      BY <1>0, <2>2, <2>5, <3>1 DEF Sendings
  <2> QED
    BY <1>1, <2>1, <2>4, <2>5
<1> QED
  BY <1>3, <1>4

LEMMA FilesKept ==
    ASSUME MaxGen = 1, TypeInv, TypeInv', SlotInv, BatchInv, [Next]_vars
    PROVE  Files'
<1>0. Lives /\ Owners /\ OnePerStep /\ Sendings /\ Messages /\ Files /\ InOrder
  BY DEF SlotInv, BatchInv
<1>1. transport' = transport
  BY OwnerStep DEF Next, Trainer, Discover, Receive, ReceiveFiles, ReceiveMessages,
     WaitForSamples, Pack, Synchronize, Train, Broadcast, vars
<1>2. \A s \in Slot : progress[s] \in Nat /\ received[s] \in Nat \cup {-1}
  BY DEF TypeInv, PackerTypes
<1>3. ASSUME NEW s \in Slot, received'[s] # -1
      PROVE  (\E r \in Run : idxOf'[r] = s) /\ transport = "filesystem"
  <2>1. CASE Discover
    <3>1. DiscoverRuns
      BY <2>1 DEF Discover
    <3>2. received'[s] = received[s] /\ \A q \in Run : idxOf[q] = s => Listed(q)
      BY <1>3, <3>1, Discovered
    <3>3. s \in Used /\ transport = "filesystem"
      BY <1>0, <1>3, <3>2 DEF Files
    <3>4. RunAt(s) \in Run /\ idxOf[RunAt(s)] = s /\ s # 0
      BY <3>3, RunInSlot DEF Used
    <3>5. idxOf'[RunAt(s)] = s
      BY <3>1, <3>2, <3>4, Discovered
    <3> QED
      BY <3>3, <3>4, <3>5
  <2>2. CASE ReceiveFiles
    <3>1. idxOf' = idxOf /\ transport = "filesystem" /\ Receive
      BY <2>2 DEF ReceiveFiles, Receive
    <3>2. PICK found \in SUBSET Used : \E item \in [found -> Message] :
            FromFiles(found, item) \/ FromMessages(found, item)
      BY <3>1, Received
    <3>3. PICK item \in [found -> Message] : FromFiles(found, item)
      BY <3>1, <3>2 DEF FromMessages
    <3>4. s \in Used
      <4>1. CASE s \in found
        BY <3>2, <4>1
      <4>2. CASE s \notin found
        <5>1. received'[s] = NextStep[s]
          BY <3>3, <4>2 DEF FromFiles
        <5>2. s \in Used \/ received[s] # -1
          BY <1>3, <5>1 DEF NextStep
        <5> QED
          BY <1>0, <5>2 DEF Files
      <4> QED
        BY <4>1, <4>2
    <3> QED
      BY <3>1, <3>4, RunInSlot
  <2>3. CASE ~Discover /\ ~ReceiveFiles
    <3>1. UNCHANGED <<idxOf, received>>
      BY <2>3, OwnerStep DEF Next, Trainer, Receive, ReceiveMessages, WaitForSamples, Pack,
         Synchronize, Train, Broadcast, vars, packer
    <3> QED
      BY <1>0, <1>3, <3>1, RunInSlot DEF Files
  <2> QED
    BY <2>1, <2>2, <2>3
<1>4. ASSUME NEW r \in Run, idxOf'[r] # 0
      PROVE  idxOf'[r] \in Slot /\ (idxOf[r] # 0 => idxOf[r] \in Slot /\ idxOf[r] \in Used)
  BY <1>4 DEF TypeInv, SlotTypes, Slot, Used
<1>5. ASSUME NEW r \in Run, idxOf'[r] # 0, received'[idxOf'[r]] # -1
      PROVE  progress'[idxOf'[r]] <= received'[idxOf'[r]]
  <2>1. CASE idxOf'[r] = idxOf[r] /\ received'[idxOf[r]] = received[idxOf[r]]
    <3>1. /\ transport = "filesystem" /\ progress[idxOf[r]] <= received[idxOf[r]]
          /\ \A x \in Taken : x.run = r => x.step < received[idxOf[r]]
      BY <1>0, <1>4, <1>5, <2>1 DEF Files
    <3>2. progress[idxOf[r]] \in Nat /\ received[idxOf[r]] \in Nat
      BY <1>2, <1>4, <1>5, <2>1
    <3>3. \/ progress'[idxOf[r]] = progress[idxOf[r]]
          \/ /\ progress'[idxOf[r]] = progress[idxOf[r]] + 1
             /\ \E x \in Taken : x.run = r /\ x.step = progress[idxOf[r]]
      BY <1>0, <1>5, <2>1, ProgressSteps
    <3> QED
      BY <2>1, <3>1, <3>2, <3>3
  <2>2. CASE Discover /\ received[idxOf'[r]] # -1 /\ idxOf'[r] \notin Used
    BY <1>0, <1>4, <1>5, <2>2 DEF Files
  <2>3. CASE /\ idxOf'[r] = idxOf[r] /\ progress' = progress
             /\ \/ received'[idxOf[r]] = NextStep[idxOf[r]]
                \/ received'[idxOf[r]] = NextStep[idxOf[r]] + 1
    <3>1. idxOf[r] \in Slot /\ idxOf[r] \in Used
      BY <1>4, <1>5, <2>3
    <3>2. NextStep[idxOf[r]] = IF received[idxOf[r]] = -1 THEN progress[idxOf[r]] ELSE received[idxOf[r]]
      BY <3>1 DEF NextStep
    <3>3. received[idxOf[r]] # -1 => progress[idxOf[r]] <= received[idxOf[r]]
      BY <1>0, <1>5, <2>3 DEF Files
    <3>4. progress[idxOf[r]] \in Nat /\ received[idxOf[r]] \in Nat \cup {-1}
      BY <1>2, <3>1
    <3>5. progress[idxOf[r]] <= NextStep[idxOf[r]] /\ NextStep[idxOf[r]] \in Nat
      BY <3>2, <3>3, <3>4
    <3> QED
      BY <2>3, <3>4, <3>5
  <2> QED
    BY <1>5, <2>1, <2>2, <2>3, ReceivedSteps
<1>6. ASSUME transport = "filesystem", NEW r \in Run, idxOf'[r] # 0, NEW x \in Taken', x.run = r
      PROVE  x.step < received'[idxOf'[r]]
  <2>1. CASE x \in Taken
    <3>1. ~(idxOf[r] = 0 /\ Discover)
      <4>1. idxOf[r] # 0 \/ Over(r)
        BY <1>0, <1>6, <2>1 DEF Owners
      <4> QED
        BY <1>6, <4>1, SlotSteps
    <3>2. idxOf'[r] = idxOf[r] /\ idxOf[r] \in Slot /\ idxOf[r] \in Used
      BY <1>4, <1>6, <3>1, ReceivedSteps
    <3>3. x.step < received[idxOf[r]] /\ x.step \in Nat
      BY <1>0, <1>6, <2>1, <3>2, TakenRun DEF Files
    <3>4. received[idxOf[r]] \in Nat
      <4>1. received[idxOf[r]] \in Nat \cup {-1}
        BY <1>2, <3>2
      <4> QED
        BY <3>3, <4>1
    <3>5. NextStep[idxOf[r]] = received[idxOf[r]]
      BY <3>2, <3>4 DEF NextStep
    <3> QED
      BY <1>6, <3>1, <3>2, <3>3, <3>4, <3>5, ReceivedSteps
  <2>2. CASE x \notin Taken
    <3>1. PICK found \in SUBSET Used : \E item \in [found -> Message] :
            /\ Receive /\ (FromFiles(found, item) \/ FromMessages(found, item))
            /\ \E s \in found : x \in Range(New(item, s))
      BY <2>2, OldOrNew
    <3>2. PICK item \in [found -> Message] :
            /\ Receive /\ (FromFiles(found, item) \/ FromMessages(found, item))
            /\ \E s \in found : x \in Range(New(item, s))
      BY <3>1
    <3>3. PICK s \in found : x \in Range(New(item, s))
      BY <3>2
    <3>4. FromFiles(found, item)
      BY <1>6, <3>2 DEF FromMessages
    <3>5. x.step = item[s].batch.step /\ x.step \in Nat /\ idxOf[r] = s /\ s \in Slot
      <4>1. x.step = item[s].batch.step /\ x.step \in Nat /\ idxOf[x.run] = s
        BY <3>1, <3>2, <3>3, NewSample
      <4>2. s \in Slot
        BY <3>1, <3>3, RunInSlot
      <4> QED
        BY <1>6, <4>1, <4>2
    <3>6. received'[s] = NextStep[s] + 1 /\ item[s].batch.step = NextStep[s]
      BY <3>3, <3>4, <3>5 DEF FromFiles
    <3>7. idxOf' = idxOf
      BY <3>2 DEF Receive, ReceiveFiles, ReceiveMessages
    <3> QED
      BY <3>5, <3>6, <3>7
  <2> QED
    BY <2>1, <2>2
<1>7. \A s \in Slot : received'[s] # -1 => s \in Used'
  <2>1. 0 \notin Slot
    BY DEF Slot
  <2> QED
    BY <1>3, <2>1 DEF Used
<1> QED
  BY <1>1, <1>3, <1>5, <1>6, <1>7 DEF Files

LEMMA InOrderKept ==
    ASSUME MaxGen = 1, TypeInv, TypeInv', SlotInv, SlotInv', BatchInv, [Next]_vars
    PROVE  InOrder'
<1>0. Lives /\ Stamped /\ Stamped' /\ Sendings /\ Messages /\ Files /\ InOrder
  BY DEF SlotInv, BatchInv
<1>1. CASE UNCHANGED <<buffers, progress>>
  BY <1>0, <1>1 DEF InOrder
<1>2. CASE Discover
  <2>1. DiscoverRuns
    BY <1>2 DEF Discover
  <2> SUFFICES ASSUME NEW s \in Slot
               PROVE  /\ \A i, j \in DOMAIN buffers'[s] :
                            i <= j => buffers'[s][i].step <= buffers'[s][j].step
                      /\ \A x \in Range(buffers'[s]) : progress'[s] <= x.step
    BY DEF InOrder
  <2>2. buffers'[s] = <<>> \/ buffers'[s] = buffers[s]
    BY <2>1, Discovered
  <2>3. DOMAIN <<>> = {} /\ Range(<<>>) = {}
    BY DEF Range
  <2>4. \A i, j \in DOMAIN buffers'[s] : i <= j => buffers'[s][i].step <= buffers'[s][j].step
    BY <1>0, <2>2, <2>3 DEF InOrder
  <2>5. ASSUME NEW x \in Range(buffers'[s]) PROVE progress'[s] <= x.step
    <3>1. x \in Range(buffers[s])
      BY <2>2, <2>3, <2>5
    <3>2. idxOf'[x.run] = s /\ idxOf[x.run] = s /\ progress[s] <= x.step
      BY <1>0, <2>5, <3>1 DEF Stamped, InOrder
    <3>3. x.run \in Run /\ s # 0
      <4>1. x \in SampleType
        BY <3>1, TakenTypes
      <4> QED
        BY <4>1 DEF SampleType
    <3>4. ~Pack
      BY <1>2 DEF Discover, Pack
    <3>5. progress'[s] = progress[s]
      BY <1>0, <3>2, <3>3, <3>4, ProgressSteps
    <3> QED
      BY <3>2, <3>5
  <2> QED
    BY <2>4, <2>5
<1>3. CASE Receive
  <2>1. progress' = progress
    BY <1>3 DEF Receive, ReceiveFiles, ReceiveMessages
  <2>2. PICK found \in SUBSET Used : \E item \in [found -> Message] :
          Buffered(found, item) /\ (FromFiles(found, item) \/ FromMessages(found, item))
    BY <1>3, Received
  <2>3. PICK item \in [found -> Message] :
          Buffered(found, item) /\ (FromFiles(found, item) \/ FromMessages(found, item))
    BY <2>2
  <2> SUFFICES ASSUME NEW s \in Slot
               PROVE  /\ \A i, j \in DOMAIN buffers'[s] :
                            i <= j => buffers'[s][i].step <= buffers'[s][j].step
                      /\ \A x \in Range(buffers'[s]) : progress[s] <= x.step
    BY <2>1 DEF InOrder
  <2>4. CASE s \notin found
    BY <1>0, <2>2, <2>3, <2>4, Appended DEF InOrder
  <2>5. CASE s \in found
    <3> DEFINE old == buffers[s]
               new == New(item, s)
               n == item[s].batch.step
    <3>1. /\ old \in Seq(SampleType) /\ new \in Seq(SampleType) /\ n \in Nat
          /\ \A i \in 1..Len(new) : new[i].step = n
      <4>1. \A i \in 1..Len(new) : new[i] = [run |-> RunAt(s), gen |-> item[s].gen, step |-> n, n |-> i]
        BY <2>2, <2>3, <2>5, NewSamples
      <4>2. ASSUME NEW i \in 1..Len(new) PROVE new[i].step = n
        <5>1. new[i] = [run |-> RunAt(s), gen |-> item[s].gen, step |-> n, n |-> i]
          BY <4>1
        <5> HIDE DEF n, new
        <5> QED
          BY <5>1
      <4> QED
        BY <2>2, <2>3, <2>5, <4>2, NewSamples DEF TypeInv, PackerTypes
    <3>2. buffers'[s] = old \o new
      BY <2>3, <2>5 DEF Buffered
    <3>3. progress[s] <= n /\ \A x \in Taken : x.run = RunAt(s) => x.step < n
      BY <1>0, <2>2, <2>3, <2>5, Later
    <3>4. ASSUME NEW x \in Range(old) PROVE x.step < n /\ progress[s] <= x.step /\ x.step \in Nat
      <4>1. x \in Taken /\ idxOf[x.run] = s /\ progress[s] <= x.step
        BY <1>0, <3>4, InTaken DEF Stamped, InOrder
      <4>2. x.run = RunAt(s)
        BY <2>2, <2>5, <4>1, TakenRun, RunInSlot
      <4> QED
        BY <3>3, <4>1, <4>2, TakenRun
    <3> HIDE DEF old, new, n
    <3>5. /\ old \o new \in Seq(SampleType) /\ Len(old \o new) = Len(old) + Len(new)
          /\ \A i \in 1..Len(old \o new) :
               \/ i \in 1..Len(old) /\ (old \o new)[i] = old[i]
               \/ i > Len(old) /\ i - Len(old) \in 1..Len(new) /\ (old \o new)[i] = new[i - Len(old)]
          /\ Range(old \o new) = Range(old) \cup Range(new)
      BY <3>1, RangeCat
    <3>6. DOMAIN (old \o new) = 1..Len(old \o new) /\ DOMAIN old = 1..Len(old) /\ DOMAIN new = 1..Len(new)
          /\ Len(old) \in Nat /\ Len(new) \in Nat
      BY <3>1, <3>5
    <3>7. \A i \in 1..Len(old) : old[i] \in Range(old)
      BY <3>6 DEF Range
    <3>8. \A i, j \in 1..Len(old) : i <= j => old[i].step <= old[j].step
      BY <1>0, <3>6 DEF InOrder, old
    <3>9. ASSUME NEW i \in 1..Len(old \o new), NEW j \in 1..Len(old \o new), i <= j
          PROVE  (old \o new)[i].step <= (old \o new)[j].step
      <4>1. CASE i \in 1..Len(old) /\ j \in 1..Len(old)
        BY <3>5, <3>6, <3>8, <3>9, <4>1
      <4>2. CASE i \in 1..Len(old) /\ j > Len(old)
        <5>1. (old \o new)[i] = old[i] /\ (old \o new)[j].step = n
          BY <3>1, <3>5, <3>6, <4>2
        <5>2. old[i].step < n /\ old[i].step \in Nat
          BY <3>4, <3>7, <4>2
        <5> QED
          BY <3>1, <5>1, <5>2
      <4>3. CASE i > Len(old)
        <5>1. (old \o new)[i].step = n /\ (old \o new)[j].step = n
          BY <3>1, <3>5, <3>6, <3>9, <4>3
        <5> QED
          BY <3>1, <5>1
      <4> QED
        BY <3>6, <4>1, <4>2, <4>3
    <3>10. ASSUME NEW x \in Range(old \o new) PROVE progress[s] <= x.step
      <4>1. \A y \in Range(new) : y.step = n
        BY <3>1, <3>6 DEF Range
      <4> QED
        BY <3>3, <3>4, <3>5, <3>10, <4>1
    <3> QED
      BY <3>2, <3>6, <3>9, <3>10
  <2> QED
    BY <2>4, <2>5
<1>4. CASE Pack
  <2>1. PICK take \in [Slot -> Nat] : Packs(take)
    BY <1>4, Packed
  <2> SUFFICES ASSUME NEW s \in Slot
               PROVE  /\ \A i, j \in DOMAIN buffers'[s] :
                            i <= j => buffers'[s][i].step <= buffers'[s][j].step
                      /\ \A x \in Range(buffers'[s]) : progress'[s] <= x.step
    BY DEF InOrder
  <2>2. /\ buffers[s] \in Seq(SampleType) /\ take[s] \in 0..Len(buffers[s])
        /\ buffers'[s] \in Seq(SampleType) /\ Len(buffers'[s]) = Len(buffers[s]) - take[s]
        /\ \A i \in 1..Len(buffers'[s]) : /\ buffers'[s][i] = buffers[s][i + take[s]]
                                          /\ i + take[s] \in 1..Len(buffers[s])
    BY <2>1, Given
  <2>3. DOMAIN buffers'[s] = 1..Len(buffers'[s]) /\ DOMAIN buffers[s] = 1..Len(buffers[s])
        /\ Len(buffers[s]) \in Nat /\ Len(buffers'[s]) \in Nat /\ take[s] \in Nat
    BY <2>2
  <2>4. \A i, j \in 1..Len(buffers[s]) : i <= j => buffers[s][i].step <= buffers[s][j].step
    BY <1>0, <2>3 DEF InOrder
  <2>5. ASSUME NEW i \in DOMAIN buffers'[s], NEW j \in DOMAIN buffers'[s], i <= j
        PROVE  buffers'[s][i].step <= buffers'[s][j].step
    <3>1. i + take[s] <= j + take[s]
      BY <2>3, <2>5
    <3> QED
      BY <2>2, <2>3, <2>4, <3>1
  <2>6. ASSUME NEW i \in DOMAIN buffers'[s] PROVE progress'[s] <= buffers'[s][i].step
    <3>1. buffers'[s][i] \in Range(buffers[s]) /\ buffers'[s][i] \in SampleType
          /\ buffers'[s][1] \in SampleType /\ 1 \in DOMAIN buffers'[s] /\ buffers'[s] # <<>>
      <4>1. i + take[s] \in DOMAIN buffers[s] /\ buffers'[s][i] = buffers[s][i + take[s]]
        BY <2>2, <2>3
      <4>2. buffers'[s][i] \in Range(buffers[s])
        BY <4>1 DEF Range
      <4> QED
        BY <2>2, <2>3, <4>2, SMTT(30)
    <3>2. buffers'[s][i].step \in Nat /\ buffers'[s][1].step \in Nat /\ progress[s] \in Nat
      BY <3>1 DEF SampleType, TypeInv, PackerTypes
    <3>3. progress[s] <= buffers'[s][i].step /\ buffers'[s][1].step <= buffers'[s][i].step
      BY <1>0, <2>3, <2>5, <3>1 DEF InOrder
    <3>4. CASE s \notin Finished(take)
      <4>1. progress'[s] = progress[s]
        BY <2>1, <3>4 DEF Packs
      <4> QED
        BY <3>3, <4>1
    <3>5. CASE s \in Finished(take)
      <4>1. progress'[s] = progress[s] + 1
        BY <2>1, <3>5 DEF Packs
      <4>2. buffers'[s][1].step > progress[s]
        BY <2>1, <3>1, <3>5 DEF Packs, Finished, StepDone
      <4> QED
        BY <3>2, <3>3, <4>1, <4>2
    <3> QED
      BY <3>4, <3>5
  <2>7. \A x \in Range(buffers'[s]) : progress'[s] <= x.step
    BY <2>6 DEF Range
  <2> QED
    BY <2>5, <2>7
<1>5. CASE Owner \/ WaitForSamples \/ Synchronize \/ Train \/ Broadcast \/ UNCHANGED vars
  <2>1. UNCHANGED <<buffers, progress>>
    BY <1>5, OwnerStep DEF WaitForSamples, Synchronize, Train, Broadcast, vars, packer
  <2> QED
    BY <1>1, <2>1
<1> QED
  BY <1>2, <1>3, <1>4, <1>5 DEF Next, Trainer

LEMMA BatchesHold ==
    ASSUME MaxGen = 1
    PROVE  Spec => [](TypeInv /\ SlotInv /\ BatchInv)
<1>1. Init => BatchInv
  <2> SUFFICES ASSUME Init PROVE BatchInv
    OBVIOUS
  <2>1. \A x : x \notin Taken
    BY InitBuffers
  <2>2. \A r \in Run : Drained(r) = {}
    BY DEF Init, Drained
  <2>3. Owners /\ Messages
    BY <2>1, <2>2 DEF Owners, Messages
  <2>4. Sendings
    BY <2>1, <2>2 DEF Init, Sendings
  <2>5. OnePerStep
    BY DEF Init, OnePerStep
  <2>6. Files
    BY <2>1 DEF Init, Files
  <2>7. InOrder
    BY DEF Init, InOrder, Range
  <2> QED
    BY <2>3, <2>4, <2>5, <2>6, <2>7 DEF BatchInv
<1>2. TypeInv /\ SlotInv /\ BatchInv /\ TypeInv' /\ SlotInv' /\ [Next]_vars => BatchInv'
  <2> SUFFICES ASSUME TypeInv, SlotInv, BatchInv, TypeInv', SlotInv', [Next]_vars PROVE BatchInv'
    OBVIOUS
  <2>1. Owners' /\ OnePerStep'
    BY OwnersKept, OnePerStepKept DEF BatchInv
  <2> QED
    BY <2>1, SendingsKept, MessagesKept, FilesKept, InOrderKept DEF BatchInv
<1> QED
  BY <1>1, <1>2, SlotsHold, PTL DEF Spec

\* Neither the assertions of the receiver and of the packer nor the lookup of a
\* free slot on the other ranks fail, whatever runs appear and disappear: no two
\* messages of a run are of one step, a micro batch is of one step, and the slot
\* of a new run is free in the map of every rank (transport/zmq.py,
\* trainer/rl/packer.py, trainer/runs.py).
THEOREM AssertionsNeverFail ==
    ASSUME MaxGen = 1
    PROVE  Spec => []NeverCrashes
<1>1. Init => NeverCrashes
  BY DEF Init, NeverCrashes
<1>2. TypeInv /\ SlotInv /\ BatchInv /\ NeverCrashes /\ [Next]_vars => NeverCrashes'
  <2> SUFFICES ASSUME TypeInv, SlotInv, BatchInv, crashed = "no", [Next]_vars PROVE crashed' = "no"
    BY DEF NeverCrashes
  <2>1. CASE Receive
    <3>1. ~Clash
      <4>1. OnePerStep
        BY DEF BatchInv
      <4> QED
        BY <4>1 DEF OnePerStep, Clash
    <3> QED
      BY <2>1, <3>1 DEF Receive, ReceiveFiles, ReceiveMessages
  <2>2. CASE Pack
    <3>1. PICK take \in [Slot -> Nat] : Packs(take)
      BY <2>2, Packed
    <3>2. ASSUME NEW s \in Slot, NEW i \in 1..take[s] PROVE buffers[s][i].step = buffers[s][1].step
      <4>1. /\ take[s] \in 0..Len(buffers[s]) /\ buffers[s] \in Seq(SampleType)
            /\ \A j \in 1..take[s] : buffers[s][j].step <= progress[s]
        BY <3>1 DEF Packs, TypeInv, PackerTypes
      <4>2. ASSUME NEW j \in 1..take[s] PROVE buffers[s][j].step = progress[s]
        <5>1. j \in DOMAIN buffers[s] /\ buffers[s][j] \in SampleType
          BY <4>1, <4>2
        <5>2. buffers[s][j] \in Range(buffers[s])
          BY <5>1 DEF Range
        <5>3. progress[s] <= buffers[s][j].step
          BY <5>2 DEF BatchInv, InOrder
        <5>4. buffers[s][j].step \in Nat /\ progress[s] \in Nat
          BY <5>1 DEF SampleType, TypeInv, PackerTypes
        <5> QED
          BY <4>1, <4>2, <5>3, <5>4
      <4>3. 1 \in 1..take[s]
        OBVIOUS
      <4> QED
        BY <4>2, <4>3
    <3> QED
      BY <3>1, <3>2 DEF Packs
  <2>3. CASE Synchronize
    <3>1. ASSUME NEW r \in Created(rankIdx, idxOf), NEW q \in Run, KeptView[q] # 0,
                 idxOf[r] = KeptView[q]
          PROVE  FALSE
      <4>1. rankIdx[r] = 0 /\ idxOf[r] # 0 /\ r \in Run
        BY DEF Created
      <4>2. idxOf[q] # 0 /\ KeptView[q] = rankIdx[q] /\ rankIdx[q] # 0
        BY <3>1 DEF KeptView
      <4>3. idxOf[q] = rankIdx[q]
        BY <4>2 DEF SlotInv, Views
      <4>4. r = q
        BY <3>1, <4>1, <4>2, <4>3 DEF TypeInv, SlotTypes
      <4> QED
        BY <4>1, <4>2, <4>4
    <3> QED
      BY <2>3, <3>1 DEF Synchronize
  <2>4. CASE Owner \/ Discover \/ WaitForSamples \/ Train \/ Broadcast \/ UNCHANGED vars
    <3>1. crashed' = crashed
      BY <2>4, OwnerStep DEF Discover, WaitForSamples, Train, Broadcast, vars
    <3> QED
      BY <3>1
  <2> QED
    BY <2>1, <2>2, <2>3, <2>4 DEF Next, Trainer
<1> QED
  BY <1>1, <1>2, BatchesHold, PTL DEF Spec

-----------------------------------------------------------------------------
(* Samples: none is lost on its way to a step that is done. *)

LEMMA SampleSame ==
    ASSUME NEW r \in Run, NEW t, NEW i, disk'[r].gen = disk[r].gen
    PROVE  Sample(r, t, i)' = Sample(r, t, i)
  BY DEF Sample

LEMMA WholeKept ==
    ASSUME MaxGen = 1, TypeInv, TypeInv', SlotInv, SlotInv', BatchInv, Whole, [Next]_vars
    PROVE  Whole'
<1>0. Lives /\ Stamped /\ Stamped' /\ Sendings /\ Messages /\ Files /\ InOrder
  BY DEF SlotInv, BatchInv
<1> SUFFICES ASSUME NEW r \in Run, idxOf'[r] # 0, Alive(r)', NEW i \in 1..PerBatch
             PROVE  /\ \A t \in disk'[r].start..(progress'[idxOf'[r]] - 1) :
                          Sample(r, t, i)' \in trained' \cup InGrid'
                    /\ \A x \in Range(buffers'[idxOf'[r]]) :
                          Sample(r, x.step, i)' \in trained' \cup InGrid' \cup Range(buffers'[idxOf'[r]])
  BY DEF Whole
<1> DEFINE s == idxOf'[r]
           S(t) == Sample(r, t, i)
<1>1. s \in Slot /\ disk[r].start \in Nat /\ disk[r].gen \in Nat /\ disk'[r].gen \in Nat
  <2>1. disk[r] \in RunDir /\ disk'[r] \in RunDir
    BY DEF TypeInv, OutsideTypes
  <2> QED
    BY <2>1, RunDirs DEF TypeInv, SlotTypes, Slot
<1>2. ASSUME idxOf[r] # 0
      PROVE  /\ disk'[r].start = disk[r].start /\ disk'[r].gen = disk[r].gen /\ Alive(r)
             /\ \A t \in disk[r].start..(progress[idxOf[r]] - 1) : S(t) \in trained \cup InGrid
             /\ \A x \in Range(buffers[idxOf[r]]) :
                   S(x.step) \in trained \cup InGrid \cup Range(buffers[idxOf[r]])
             /\ \A t : Sample(r, t, i)' = S(t)
  <2>1. ~Unborn(r)
    BY <1>0, <1>2 DEF Lives
  <2>2. disk'[r].start = disk[r].start /\ disk'[r].gen = disk[r].gen /\ Alive(r)
    BY <1>0, <2>1, Aging DEF Ages
  <2> QED
    BY <1>2, <2>2, SampleSame DEF Whole
<1>3. ASSUME idxOf' = idxOf, UNCHANGED <<buffers, progress>>,
             trained' \cup InGrid' = trained \cup InGrid
      PROVE  /\ \A t \in disk'[r].start..(progress'[s] - 1) :
                   Sample(r, t, i)' \in trained' \cup InGrid'
             /\ \A x \in Range(buffers'[s]) :
                   Sample(r, x.step, i)' \in trained' \cup InGrid' \cup Range(buffers'[s])
  <2> HIDE DEF S
  <2> QED
    BY <1>2, <1>3
<1>4. CASE Discover
  <2>1. DiscoverRuns /\ UNCHANGED <<disk, trained, grid>>
    BY <1>4 DEF Discover, outside
  <2>2. InGrid' = InGrid
    BY <2>1 DEF InGrid
  <2>3. buffers'[s] = <<>> \/ buffers'[s] = buffers[s]
    BY <1>1, <2>1, Discovered
  <2>4. Range(<<>>) = {}
    BY DEF Range
  <2>5. ~Pack
    BY <1>4 DEF Discover, Pack
  <2>6. \/ idxOf[r] = s /\ progress'[s] = progress[s]
        \/ idxOf[r] = 0 /\ progress'[s] = disk[r].start
    BY <1>0, <2>5, ProgressSteps
  <2>7. CASE idxOf[r] = s /\ progress'[s] = progress[s]
    <3> HIDE DEF S
    <3> QED
      BY <1>2, <2>1, <2>2, <2>3, <2>4, <2>7
  <2>8. CASE idxOf[r] = 0 /\ progress'[s] = disk[r].start
    <3>1. disk'[r].start..(progress'[s] - 1) = {}
      BY <1>1, <2>1, <2>8
    <3>2. ASSUME NEW x \in Range(buffers'[s]) PROVE FALSE
      <4>1. x \in Range(buffers[s])
        BY <2>3, <2>4, <3>2
      <4>2. idxOf[x.run] = s /\ idxOf'[x.run] = s /\ x.run \in Run
        <5>1. x \in SampleType
          BY <1>1, <4>1, TakenTypes
        <5> QED
          BY <1>0, <1>1, <3>2, <4>1, <5>1 DEF Stamped, SampleType
      <4>3. x.run = r
        BY <4>2 DEF TypeInv, SlotTypes
      <4> QED
        BY <2>8, <4>2, <4>3
    <3> QED
      BY <3>1, <3>2
  <2> QED
    BY <2>6, <2>7, <2>8
<1>5. CASE Receive
  <2>1. UNCHANGED <<trained, grid, idxOf, progress>>
    BY <1>5 DEF Receive, ReceiveFiles, ReceiveMessages
  <2>2. InGrid' = InGrid
    BY <2>1 DEF InGrid
  <2>3. PICK found \in SUBSET Used : \E item \in [found -> Message] : Buffered(found, item)
    BY <1>5, Received
  <2>4. PICK item \in [found -> Message] : Buffered(found, item)
    BY <2>3
  <2>5. \A x : x \in Range(buffers'[s]) <=>
           x \in Range(buffers[s]) \/ (s \in found /\ x \in Range(New(item, s)))
    BY <1>1, <2>3, <2>4, Appended
  <2>6. ASSUME s \in found, NEW x \in Range(New(item, s))
        PROVE  Sample(r, x.step, i)' \in Range(buffers'[s])
    <3>1. RunAt(s) = r
      BY <2>1, <2>3, <2>6, RunInSlot
    <3>2. item[s].batch.kind = "ok"
      <4>1. CASE item[s].batch.kind # "ok"
        <5>1. disk'[r] = [disk[r] EXCEPT !.evicted = TRUE, !.state = IF @ = "none" THEN "bare" ELSE @]
          BY <2>1, <2>4, <2>6, <4>1 DEF Buffered
        <5>2. disk[r] \in RunDir
          BY DEF TypeInv, OutsideTypes
        <5>3. disk'[r].evicted
          BY <5>1, <5>2 DEF RunDir
        <5> QED
          BY <5>3 DEF Alive
      <4> QED
        BY <4>1
    <3>3. /\ i \in 1..Len(New(item, s)) /\ i \in DOMAIN New(item, s)
          /\ New(item, s)[i] = [run |-> RunAt(s), gen |-> item[s].gen,
                                step |-> item[s].batch.step, n |-> i]
      BY <2>3, <2>4, <2>6, <3>2, NewSamples, SMTT(30)
    <3>4. New(item, s)[i] \in Range(New(item, s)) /\ x.step = item[s].batch.step
      <4>1. x.step = item[s].batch.step
        BY <2>3, <2>4, <2>6, NewSample
      <4> QED
        BY <3>3, <4>1 DEF Range
    <3>5. item[s].gen = 1 /\ disk'[r].gen = 1
      <4>1. item[s].gen \in 1..1
        BY <2>3, <2>4, <2>6, NewSamples
      <4>2. disk'[r] \in RunDir /\ disk'[r].gen >= 1
        BY DEF TypeInv, OutsideTypes, SlotTypes
      <4>3. disk'[r].gen \in 0..1
        BY <4>2, RunDirs
      <4> QED
        BY <4>1, <4>2, <4>3
    <3>6. Sample(r, x.step, i)' = New(item, s)[i]
      BY <3>1, <3>3, <3>4, <3>5 DEF Sample
    <3> QED
      BY <2>5, <2>6, <3>4, <3>6
  <2> HIDE DEF S
  <2> QED
    BY <1>2, <2>1, <2>2, <2>5, <2>6
<1>6. CASE Pack
  <2>1. PICK take \in [Slot -> Nat] : Packs(take)
    BY <1>6, Packed
  <2>2. UNCHANGED <<trained, idxOf>> /\ mpc = "pack"
    BY <1>6 DEF Pack
  <2>3. grid = {} /\ InGrid = {}
    BY <1>0, <2>2 DEF Stamped, InGrid
  <2>4. \A x : x \in InGrid' <=> \E t \in Slot : x \in Range(Share(take, t))
    BY <2>1, GridAfter
  <2>5. Range(buffers[s]) = Range(Share(take, s)) \cup Range(buffers'[s])
    BY <1>1, <2>1, Given
  <2>6. Range(buffers[s]) \subseteq InGrid' \cup Range(buffers'[s])
    BY <1>1, <2>4, <2>5
  <2>7. idxOf[r] = s /\ idxOf[r] # 0
    BY <2>2
  <2>8. \A x \in Range(buffers'[s]) :
           Sample(r, x.step, i)' \in trained' \cup InGrid' \cup Range(buffers'[s])
    <3> HIDE DEF S
    <3> QED
      BY <1>2, <2>2, <2>3, <2>5, <2>6, <2>7
  <2>9. \A t \in disk'[r].start..(progress[s] - 1) : Sample(r, t, i)' \in trained' \cup InGrid'
    <3> HIDE DEF S
    <3> QED
      BY <1>2, <2>2, <2>3, <2>7
  <2>10. ASSUME s \in Finished(take)
         PROVE  /\ progress'[s] = progress[s] + 1
                /\ \A t : t = progress[s] => Sample(r, t, i)' \in trained' \cup InGrid'
    <3>1. take[s] > 0 /\ progress'[s] = progress[s] + 1 /\ StepDone(s, buffers'[s])
      BY <1>1, <2>1, <2>10 DEF Packs, Finished
    <3>2. /\ buffers[s] \in Seq(SampleType) /\ take[s] \in 0..Len(buffers[s])
          /\ \A j \in 1..take[s] : buffers[s][j].step <= progress[s]
      BY <1>1, <2>1 DEF Packs, TypeInv, PackerTypes
    <3>3. 1 \in DOMAIN buffers[s] /\ buffers[s][1] \in SampleType /\ 1 \in 1..take[s]
      BY <3>1, <3>2
    <3>4. buffers[s][1] \in Range(buffers[s])
      BY <3>3 DEF Range
    <3>5. buffers[s][1].step = progress[s]
      <4>1. progress[s] <= buffers[s][1].step
        BY <1>0, <1>1, <3>4 DEF InOrder
      <4>2. buffers[s][1].step \in Nat /\ progress[s] \in Nat
        BY <1>1, <3>3 DEF SampleType, TypeInv, PackerTypes
      <4> QED
        BY <3>2, <3>3, <4>1, <4>2
    <3>6. S(progress[s]) \in trained \cup Range(buffers[s])
      <4> HIDE DEF S
      <4> QED
        BY <1>2, <2>3, <2>7, <3>4, <3>5
    <3>7. S(progress[s]) \notin Range(buffers'[s])
      <4>1. S(progress[s]).step = progress[s]
        BY DEF Sample
      <4> HIDE DEF S
      <4>2. ASSUME NEW x \in Range(buffers'[s]) PROVE x.step # progress[s]
        <5>1. InOrder'
          BY InOrderKept
        <5>2. progress'[s] <= x.step
          BY <1>1, <5>1 DEF InOrder
        <5>3. x.step \in Nat /\ progress[s] \in Nat
          <6>1. x \in Range(buffers[s])
            BY <2>5
          <6>2. x \in SampleType
            BY <1>1, <6>1, TakenTypes
          <6> QED
            BY <1>1, <6>2 DEF SampleType, TypeInv, PackerTypes
        <5> QED
          BY <3>1, <5>2, <5>3
      <4> QED
        BY <4>1, <4>2
    <3>8. S(progress[s]) \in trained \cup InGrid'
      <4> HIDE DEF S
      <4> QED
        BY <2>6, <3>6, <3>7
    <3> HIDE DEF S
    <3>9. ASSUME NEW t, t = progress[s] PROVE Sample(r, t, i)' \in trained' \cup InGrid'
      <4>1. Sample(r, t, i)' = S(t)
        BY <1>2, <2>7
      <4> QED
        BY <2>2, <3>8, <3>9, <4>1
    <3> QED
      BY <3>1, <3>9
  <2>11. ASSUME s \notin Finished(take) PROVE progress'[s] = progress[s]
    BY <1>1, <2>1, <2>11 DEF Packs
  <2>12. \A t \in disk'[r].start..(progress'[s] - 1) : Sample(r, t, i)' \in trained' \cup InGrid'
    <3>1. progress[s] \in Nat /\ disk'[r].start \in Nat
      BY <1>1, <1>2, <2>7 DEF TypeInv, PackerTypes
    <3>2. CASE s \notin Finished(take)
      BY <2>9, <2>11, <3>2
    <3>3. CASE s \in Finished(take)
      <4> TAKE t \in disk'[r].start..(progress'[s] - 1)
      <4>1. t = progress[s] \/ t \in disk'[r].start..(progress[s] - 1)
        BY <2>10, <3>1, <3>3
      <4>2. CASE t = progress[s]
        BY <2>10, <3>3, <4>2
      <4>3. CASE t \in disk'[r].start..(progress[s] - 1)
        BY <2>9, <4>3
      <4> QED
        BY <4>1, <4>2, <4>3
    <3> QED
      BY <3>2, <3>3
  <2> QED
    BY <2>8, <2>12
<1>7. CASE Train
  <2>1. /\ trained' = trained \cup InGrid /\ grid' = {} /\ UNCHANGED <<idxOf, buffers, progress>>
    BY <1>7 DEF Train, packer
  <2>2. InGrid' = {}
    BY <2>1 DEF InGrid
  <2> QED
    BY <1>3, <2>1, <2>2
<1>8. CASE Owner \/ WaitForSamples \/ Synchronize \/ Broadcast \/ UNCHANGED vars
  <2>1. UNCHANGED <<buffers, trained, grid, idxOf, progress>>
    BY <1>8, OwnerStep DEF WaitForSamples, Synchronize, Broadcast, vars, packer
  <2>2. InGrid' = InGrid
    BY <2>1 DEF InGrid
  <2> QED
    BY <1>3, <2>1, <2>2
<1> QED
  BY <1>4, <1>5, <1>6, <1>7, <1>8 DEF Next, Trainer

LEMMA SamplesHold ==
    ASSUME MaxGen = 1
    PROVE  Spec => [](TypeInv /\ SlotInv /\ BatchInv /\ Whole)
<1>1. Init => Whole
  BY DEF Init, Whole
<1>2. /\ TypeInv /\ SlotInv /\ BatchInv /\ Whole /\ TypeInv' /\ SlotInv'
      /\ [Next]_vars
      => Whole'
  BY WholeKept
<1> QED
  BY <1>1, <1>2, BatchesHold, PTL DEF Spec

\* Weights announced to a run at a step have been trained on all samples of its
\* batches before that step, over however many training steps and together with
\* whatever other runs they were packed (trainer/rl/packer.py
\* _update_run_progress, trainer/rl/broadcast/filesystem.py).
THEOREM AnnouncedMeansTrained ==
    ASSUME MaxGen = 1
    PROVE  Spec => []WeightsCoverSteps
<1>1. Init => WeightsCoverSteps
  BY DEF Init, WeightsCoverSteps
<1>2. TypeInv /\ SlotInv /\ BatchInv /\ Whole /\ WeightsCoverSteps /\ [Next]_vars
      => WeightsCoverSteps'
  <2> SUFFICES ASSUME TypeInv, SlotInv, BatchInv, Whole, WeightsCoverSteps, [Next]_vars
               PROVE  WeightsCoverSteps'
    OBVIOUS
  <2>1. ASSUME trained \subseteq trained', weights' = weights PROVE WeightsCoverSteps'
    BY <2>1 DEF WeightsCoverSteps
  <2>2. CASE Broadcast
    <3> DEFINE to == {r \in Run : idxOf[r] # 0 /\ ready[idxOf[r]]}
    <3>1. /\ trained' = trained /\ mpc = "broadcast"
          /\ weights' = weights \cup {[run |-> r, gen |-> disk[r].gen, start |-> disk[r].start,
                                       step |-> progress[idxOf[r]]] :
                                          r \in {q \in to : disk[q].state = "ready"}}
      BY <2>2 DEF Broadcast
    <3>2. InGrid = {}
      <4>1. grid = {}
        BY <3>1 DEF SlotInv, Stamped
      <4> QED
        BY <4>1 DEF InGrid
    <3>3. ASSUME NEW w \in weights', w \notin weights, NEW t \in w.start..(w.step - 1),
                 NEW i \in 1..PerBatch
          PROVE  [run |-> w.run, gen |-> w.gen, step |-> t, n |-> i] \in trained
      <4>1. PICK r \in Run : /\ idxOf[r] # 0 /\ disk[r].state = "ready"
                             /\ w = [run |-> r, gen |-> disk[r].gen, start |-> disk[r].start,
                                     step |-> progress[idxOf[r]]]
        BY <3>1, <3>3
      <4>2. Alive(r)
        BY <3>1, <4>1 DEF SlotInv, Lives, Alive
      <4>3. w.run = r /\ w.gen = disk[r].gen /\ w.start = disk[r].start /\ w.step = progress[idxOf[r]]
        BY <4>1
      <4>4. Sample(r, t, i) \in trained \cup InGrid
        BY <3>3, <4>1, <4>2, <4>3 DEF Whole
      <4> QED
        BY <3>2, <4>3, <4>4 DEF Sample
    <3> QED
      BY <3>1, <3>3 DEF WeightsCoverSteps
  <2>3. CASE Owner \/ Discover \/ Receive \/ WaitForSamples \/ Pack \/ Synchronize \/ Train
             \/ UNCHANGED vars
    <3>1. weights' = weights /\ trained \subseteq trained'
      BY <2>3, OwnerStep DEF Discover, Receive, ReceiveFiles, ReceiveMessages, WaitForSamples,
         Pack, Synchronize, Train, vars
    <3> QED
      BY <2>1, <3>1
  <2> QED
    BY <2>2, <2>3 DEF Next, Trainer
<1> QED
  BY <1>1, <1>2, SamplesHold, PTL DEF Spec
=============================================================================
