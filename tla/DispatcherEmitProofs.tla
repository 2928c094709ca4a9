------------------------- MODULE DispatcherEmitProofs -------------------------
(***************************************************************************)
(* Every rollout of an opened group is in exactly one place, and so        *)
(* reaches out_q at most once: the dispatcher implements EmitOnce for any  *)
(* number of groups, group sizes, permits and queue size.  And none gets   *)
(* lost between the places.                                                *)
(***************************************************************************)
EXTENDS DispatcherProofs

USE GroupsAssumption, LimitsAssumption DEF GroupsAssumption, LimitsAssumption

-----------------------------------------------------------------------------
(* The invariant.  A member waits in its group's budget until the loop     *)
(* reserves it or drop_group's second pass marks it; from then on it is in *)
(* one of seven places.                                                    *)

Placed == acquiring \cup inflight \cup hold \cup dropping \cup Queued \cup delivered
          \cup discarded

\* The group drop_group is dropping, while its budget is still to be marked.
Unmarked(g) ==
    wpc \in {"emit", "put"} /\ dropPass = "claimed" /\ dropFound /\ g \in dropGroup

\* No entry of out_q names a member twice.
QueuedOnce == \A i, j \in DOMAIN outQ : outQ[i].member = outQ[j].member => i = j

OnePlace ==
    /\ acquiring \cap (inflight \cup hold \cup dropping \cup Queued \cup delivered
                       \cup discarded) = {}
    /\ inflight \cap (hold \cup dropping \cup Queued \cup delivered \cup discarded) = {}
    /\ hold \cap (dropping \cup Queued \cup delivered \cup discarded) = {}
    /\ dropping \cap (Queued \cup delivered \cup discarded) = {}
    /\ Queued \cap (delivered \cup discarded) = {}
    /\ delivered \cap discarded = {}

\* A placed member has left the budget that can still be scheduled or marked.
Spent ==
    \A m \in Placed :
        /\ m[1] \in opened
        /\ m[1] \in groups \/ Unmarked(m[1]) => m[2] > toSchedule[m[1]]

\* A dropped group is never live again.
DropsFinal ==
    /\ stale \subseteq opened /\ dropGroup \subseteq opened
    /\ dropGroup \cap groups = {}

PlaceInv == QueuedOnce /\ OnePlace /\ Spent /\ DropsFinal

-----------------------------------------------------------------------------
(* The queue as a set of members. *)

LEMMA PutQueues ==
  ASSUME StateOK, NEW m \in Member, NEW kind, Put(m, kind)
  PROVE /\ Queued' = Queued \cup {m}
        /\ QueuedOnce /\ m \notin Queued => QueuedOnce'
<1> DEFINE e == [member |-> m, kind |-> kind]
<1>1. outQ \in Seq(Entry) /\ outQ' = Append(outQ, e)
  BY DEF StateOK, Put
<1>2. /\ DOMAIN outQ = 1..Len(outQ) /\ Len(outQ) \in Nat
      /\ DOMAIN outQ' = 1..(Len(outQ) + 1)
      /\ \A i \in 1..Len(outQ) : outQ'[i] = outQ[i]
      /\ outQ'[Len(outQ) + 1] = e
  BY <1>1
<1>3. e.member = m
  OBVIOUS
<1> HIDE DEF e
<1>4. Queued' = Queued \cup {m}
  BY <1>2, <1>3 DEF Queued
<1>5. ASSUME QueuedOnce, m \notin Queued PROVE QueuedOnce'
  BY <1>2, <1>3, <1>5 DEF Queued, QueuedOnce
<1> QED
  BY <1>4, <1>5

LEMMA TakeQueues ==
  ASSUME StateOK, QueuedOnce, outQ # <<>>, outQ' = Tail(outQ)
  PROVE /\ Queued' = Queued \ {Head(outQ).member}
        /\ Head(outQ).member \in Queued
        /\ QueuedOnce'
<1>1. outQ \in Seq(Entry)
  BY DEF StateOK
<1>2. /\ DOMAIN outQ = 1..Len(outQ) /\ Len(outQ) \in Nat \ {0}
      /\ Head(outQ) = outQ[1]
      /\ DOMAIN outQ' = 1..(Len(outQ) - 1)
      /\ \A i \in 1..(Len(outQ) - 1) : outQ'[i] = outQ[i + 1]
  BY <1>1
<1>3. \A i \in DOMAIN outQ' : i + 1 \in DOMAIN outQ /\ outQ'[i] = outQ[i + 1]
  BY <1>2
<1>4. \A i \in DOMAIN outQ : i = 1 \/ (i - 1 \in DOMAIN outQ' /\ outQ'[i - 1] = outQ[i])
  BY <1>2
<1>5. Head(outQ).member \in Queued
  BY <1>2 DEF Queued
<1>6. QueuedOnce'
  <2> SUFFICES ASSUME NEW i \in DOMAIN outQ', NEW j \in DOMAIN outQ',
                      outQ'[i].member = outQ'[j].member
               PROVE i = j
    BY DEF QueuedOnce
  <2>1. i + 1 = j + 1
    BY <1>3 DEF QueuedOnce
  <2> QED
    BY <1>2, <2>1
<1>7. ASSUME NEW m \in Queued' PROVE m \in Queued /\ m # Head(outQ).member
  <2> PICK i \in DOMAIN outQ' : m = outQ'[i].member
    BY <1>7 DEF Queued
  <2>1. i + 1 \in DOMAIN outQ /\ m = outQ[i + 1].member /\ i + 1 # 1 /\ 1 \in DOMAIN outQ
    BY <1>2, <1>3
  <2> QED
    BY <1>2, <2>1 DEF Queued, QueuedOnce
<1>8. ASSUME NEW m \in Queued, m # Head(outQ).member PROVE m \in Queued'
  <2> PICK i \in DOMAIN outQ : m = outQ[i].member
    BY <1>8 DEF Queued
  <2>1. i - 1 \in DOMAIN outQ' /\ outQ'[i - 1] = outQ[i]
    BY <1>2, <1>4, <1>8
  <2> QED
    BY <2>1 DEF Queued
<1> QED
  BY <1>5, <1>6, <1>7, <1>8

LEMMA QueuedMembers == ASSUME StateOK PROVE Queued \subseteq Member
<1>1. outQ \in Seq(Entry)
  BY DEF StateOK
<1>2. \A i \in DOMAIN outQ : outQ[i] \in Entry
  BY <1>1
<1> QED
  BY <1>2 DEF Queued, Entry

LEMMA QueueKept ==
  ASSUME UNCHANGED outQ PROVE Queued' = Queued /\ (QueuedOnce => QueuedOnce')
BY DEF Queued, QueuedOnce

\* A handled task is members of one group, all in flight.
LEMMA TaskParts ==
  ASSUME NEW S, NEW m \in S
  PROVE /\ TaskIn(S, m) \subseteq S /\ m \in TaskIn(S, m)
        /\ \A n \in TaskIn(S, m) : n[1] = m[1]
BY DEF TaskIn

\* What a task reserves leaves its group's budget.
LEMMA ReserveSpends ==
  ASSUME StateOK, NEW g \in Group, toSchedule[g] > 0, Reserve(g)
  PROVE /\ \A m \in acquiring' : m[1] = g /\ m[2] <= toSchedule[g] /\ m[2] > toSchedule'[g]
        /\ Unscheduled(g) = Unscheduled(g)' \cup acquiring'
        /\ \A h \in Group \ {g} : Unscheduled(h)' = Unscheduled(h)
<1>1. toSchedule \in [Group -> Nat] /\ toSchedule[g] \in Nat \ {0}
  BY DEF StateOK
<1>2. CASE g \in Scored
  BY <1>1, <1>2 DEF Reserve, Unscheduled
<1>3. CASE g \notin Scored
  BY <1>1, <1>3 DEF Reserve, Unscheduled
<1> QED
  BY <1>2, <1>3

-----------------------------------------------------------------------------
(* One place at a time. *)

\* Steps that move no rollout.
LEMMA PlacesKept ==
  ASSUME StateInv, PlaceInv,
         UNCHANGED <<acquiring, inflight, hold, dropping, outQ, delivered, discarded,
                     toSchedule, dropGroup, dropFound>>,
         opened \subseteq opened', groups' \cap opened \subseteq groups,
         stale' \subseteq opened',
         \A g : Unmarked(g)' => Unmarked(g)
  PROVE PlaceInv'
<1>1. Queued' = Queued /\ QueuedOnce'
  BY QueueKept DEF PlaceInv
<1>2. Placed' = Placed /\ OnePlace'
  BY <1>1 DEF PlaceInv, OnePlace, Placed
<1>3. Spent'
  BY <1>2 DEF PlaceInv, Spent
<1>4. DropsFinal'
  BY DEF PlaceInv, DropsFinal
<1> QED
  BY <1>1, <1>2, <1>3, <1>4 DEF PlaceInv

\* A task's members leave their group's budget.
LEMMA PlacesReserve ==
  ASSUME StateInv, PlaceInv, NEW g \in groups, toSchedule[g] > 0, Reserve(g),
         UNCHANGED <<groups, opened, inflight, hold, dropping, outQ, delivered, discarded,
                     stale, dropGroup, dropFound, dropPass, wpc>>
  PROVE PlaceInv'
<1>1. g \in Group /\ g \in opened
  BY DEF StateInv, StateOK, FreshGroups
<1>2. Queued' = Queued /\ QueuedOnce'
  BY QueueKept DEF PlaceInv
<1>3. /\ \A m \in acquiring' : m[1] = g /\ m[2] <= toSchedule[g] /\ m[2] > toSchedule'[g]
      /\ acquiring' \subseteq Member
      /\ toSchedule' \in [Group -> Nat] /\ toSchedule \in [Group -> Nat]
      /\ \A h \in Group : toSchedule'[h] <= toSchedule[h]
  BY <1>1, ReserveSpends, ReserveTypes, UnscheduledMembers DEF StateInv, StateOK
<1>4. Placed \subseteq Member
  BY QueuedMembers DEF StateInv, StateOK, Placed
<1>5. \A m \in Member : m[1] \in Group /\ m[2] \in Int
  BY MemberParts
<1>6. acquiring' \cap Placed = {}
  BY <1>1, <1>3, <1>4, <1>5 DEF PlaceInv, Spent
<1>7. OnePlace'
  BY <1>2, <1>6 DEF PlaceInv, OnePlace, Placed
<1>8. Spent'
  <2> SUFFICES ASSUME NEW m \in Placed', m \notin acquiring'
               PROVE /\ m[1] \in opened
                     /\ m[1] \in groups \/ Unmarked(m[1])' => m[2] > toSchedule'[m[1]]
    BY <1>1, <1>3 DEF Spent
  <2>1. m \in Placed
    BY <1>2 DEF Placed
  <2>2. m[1] \in Group /\ m[2] \in Int /\ toSchedule'[m[1]] <= toSchedule[m[1]]
    BY <1>3, <1>4, <1>5, <2>1
  <2>3. Unmarked(m[1])' = Unmarked(m[1])
    BY DEF Unmarked
  <2> QED
    BY <1>3, <2>1, <2>2, <2>3 DEF PlaceInv, Spent
<1>9. DropsFinal'
  BY DEF PlaceInv, DropsFinal
<1> QED
  BY <1>2, <1>7, <1>8, <1>9 DEF PlaceInv

\* Rollouts move from one place to others, and the budgets stay.
LEMMA PlacesMove ==
  ASSUME StateInv, PlaceInv, QueuedOnce', OnePlace', Placed' \subseteq Placed,
         UNCHANGED <<opened, toSchedule>>, groups' \subseteq groups,
         \A g : Unmarked(g)' => Unmarked(g) \/ g \in groups, DropsFinal'
  PROVE PlaceInv'
<1>1. Spent'
  BY DEF PlaceInv, Spent
<1> QED
  BY <1>1 DEF PlaceInv

\* A rollout is put on out_q out of the loop's or drop_group's hands.
LEMMA PlacesPut ==
  ASSUME StateInv, PlaceInv, NEW m \in hold \cup dropping, NEW kind, Put(m, kind),
         \/ hold' = hold \ {m} /\ UNCHANGED dropping
         \/ dropping' = dropping \ {m} /\ UNCHANGED hold,
         m \notin hold' \cup dropping',
         UNCHANGED <<acquiring, inflight, delivered, discarded, opened, toSchedule, stale,
                     dropGroup, dropFound, dropPass>>,
         groups' \subseteq groups,
         \A g : Unmarked(g)' => Unmarked(g)
  PROVE PlaceInv'
<1>1. m \in Member
  BY DEF StateInv, StateOK
<1>2. m \notin Queued
  BY DEF PlaceInv, OnePlace
<1>3. Queued' = Queued \cup {m} /\ QueuedOnce'
  BY <1>1, <1>2, PutQueues DEF StateInv, PlaceInv
<1>4. OnePlace' /\ Placed' \subseteq Placed
  BY <1>3 DEF PlaceInv, OnePlace, Placed
<1>5. DropsFinal'
  BY DEF PlaceInv, DropsFinal
<1> QED
  BY <1>3, <1>4, <1>5, PlacesMove

LEMMA CountKeeps ==
  ASSUME NEW g, NEW found, CountEmitted(g, found)
  PROVE groups' \subseteq groups
BY DEF CountEmitted

LEMMA PlaceStep == ASSUME StateInv, PlaceInv, [Next]_vars PROVE PlaceInv'
<1> USE DEF groupVars, taskVars, queueVars, controlVars, loopVars, watchVars
<1>1. ASSUME NEW g \in Group, ContinueGroup(g) PROVE PlaceInv'
  <2>1. g \in groups /\ toSchedule[g] > 0
    BY <1>1 DEF ContinueGroup, Continuable
  <2>2. CASE g \in pinned
    BY <1>1, <2>1, <2>2, PlacesReserve DEF ContinueGroup
  <2>3. CASE g \notin pinned
    BY <1>1, <2>3, PlacesKept DEF ContinueGroup, Unmarked, PlaceInv, DropsFinal
  <2> QED
    BY <2>2, <2>3
<1>2. ASSUME NEW g \in Group, OpenGroup(g) PROVE PlaceInv'
  <2>1. g \notin opened /\ opened' = opened \cup {g} /\ groups' = groups \cup {g}
    BY <1>2 DEF OpenGroup, Poppable, Sources, StateInv, FreshGroups
  <2>2. \A h : Unmarked(h)' = Unmarked(h)
    BY <1>2 DEF OpenGroup, Unmarked
  <2>3. stale' \subseteq opened'
    BY <1>2, <2>1 DEF OpenGroup, PlaceInv, DropsFinal
  <2> QED
    BY <1>2, <2>1, <2>2, <2>3, PlacesKept DEF OpenGroup
<1>3. CASE SelectClient
  <2> PICK g \in picked : IF g \in groups
         THEN pinned' = pinned \cup {g} /\ Reserve(g)
         ELSE dpc' = "wait" /\ UNCHANGED <<pinned, acquiring, toSchedule, acquired>>
    BY <1>3 DEF SelectClient
  <2>1. CASE g \in groups
    <3>1. toSchedule[g] > 0 /\ Reserve(g)
      BY <1>3, <2>1 DEF SelectClient, StateInv, PickedBudget
    <3> QED
      BY <1>3, <2>1, <3>1, PlacesReserve DEF SelectClient
  <2>2. CASE g \notin groups
    BY <1>3, <2>2, PlacesKept DEF SelectClient, Unmarked, PlaceInv, DropsFinal
  <2> QED
    BY <2>1, <2>2
<1>4. CASE SwitchToTrain \/ FillReturns \/ AcquirePermit \/ Wake \/ HandledAll \/ EmittedAll
  <2>1. UNCHANGED <<acquiring, inflight, hold, dropping, outQ, delivered, discarded,
                    toSchedule, dropGroup, dropFound, dropPass, wpc, opened, groups, stale>>
    BY <1>4 DEF SwitchToTrain, FillReturns, AcquirePermit, Wake, HandledAll, EmittedAll
  <2> QED
    BY <2>1, PlacesKept DEF Unmarked, PlaceInv, DropsFinal
<1>5. CASE LaunchTask
  <2>1. Queued' = Queued /\ QueuedOnce' /\ DropsFinal'
    BY <1>5, QueueKept DEF LaunchTask, PlaceInv, DropsFinal
  <2>2. OnePlace' /\ Placed' \subseteq Placed
    BY <1>5, <2>1 DEF LaunchTask, PlaceInv, OnePlace, Placed
  <2> QED
    BY <1>5, <2>1, <2>2, PlacesMove DEF LaunchTask, Unmarked
<1>6. ASSUME NEW m \in Member, SkipClaimed(m) PROVE PlaceInv'
  BY <1>6, PlacesKept DEF SkipClaimed, Unmarked, PlaceInv, DropsFinal
<1>7. ASSUME NEW m \in Member, HandleTask(m) PROVE PlaceInv'
  <2>1. TaskIn(inflight, m) \subseteq inflight
    BY <1>7, TaskParts DEF HandleTask, Claimable
  <2>2. /\ inflight' = inflight \ TaskIn(inflight, m)
        /\ \/ discarded' = discarded \cup TaskIn(inflight, m) /\ hold' = hold
           \/ hold' = TaskIn(inflight, m) /\ discarded' = discarded
        /\ UNCHANGED <<acquiring, dropping, outQ, delivered, opened, groups, toSchedule, stale,
                       dropGroup, dropFound, dropPass, wpc>>
    BY <1>7 DEF HandleTask
  <2>3. Queued' = Queued /\ QueuedOnce' /\ DropsFinal'
    BY <2>2, QueueKept DEF PlaceInv, DropsFinal
  <2>4. OnePlace' /\ Placed' \subseteq Placed
    BY <2>1, <2>2, <2>3 DEF PlaceInv, OnePlace, Placed
  <2> QED
    BY <2>2, <2>3, <2>4, PlacesMove DEF Unmarked
<1>8. ASSUME NEW m \in Member, EmitResult(m) PROVE PlaceInv'
  <2>1. groups' \subseteq groups
    BY <1>8, CountKeeps DEF EmitResult
  <2>2. UNCHANGED <<acquiring, inflight, dropping, delivered, discarded, opened, toSchedule,
                    stale, dropGroup, dropFound, dropPass, wpc>>
    BY <1>8 DEF EmitResult
  <2>3. CASE HasRoom
    <3>1. Put(m, "result") /\ hold' = hold \ {m} /\ m \in hold
      BY <1>8, <2>3 DEF EmitResult
    <3>2. m \notin dropping
      BY <3>1 DEF PlaceInv, OnePlace
    <3> QED
      BY <2>1, <2>2, <3>1, <3>2, PlacesPut DEF Unmarked
  <2>4. CASE ~HasRoom
    <3>1. UNCHANGED <<outQ, hold>>
      BY <1>8, <2>4 DEF EmitResult
    <3> QED
      BY <2>1, <2>2, <3>1, PlacesKept DEF Unmarked, PlaceInv, DropsFinal
  <2> QED
    BY <2>3, <2>4
<1>9. ASSUME NEW m \in Member, ResumePut(m) PROVE PlaceInv'
  <2>1. m \in hold /\ m \notin dropping
    BY <1>9 DEF ResumePut, PlaceInv, OnePlace
  <2> QED
    BY <1>9, <2>1, PlacesPut DEF ResumePut, Unmarked
<1>10. CASE Env \/ VersionPending
  <2>1. UNCHANGED <<acquiring, inflight, hold, dropping, outQ, delivered, discarded,
                    toSchedule, dropGroup, dropFound, dropPass, opened, groups>>
    BY <1>10 DEF Env, FinishTask, AbortTask, VersionPending
  <2>2. wpc' = wpc \/ wpc' = "drop"
    BY <1>10 DEF Env, FinishTask, AbortTask, VersionPending
  <2>3. stale' \subseteq opened
    BY <1>10 DEF Env, FinishTask, AbortTask, VersionPending, PlaceInv, DropsFinal, Spent, Placed
  <2> QED
    BY <2>1, <2>2, <2>3, PlacesKept DEF Unmarked
<1>11. ASSUME NEW g \in Group, DropGroup(g) PROVE PlaceInv'
  <2> DEFINE claimed == {m \in inflight : m[1] = g}
  <2>1. /\ inflight' = inflight \ claimed /\ dropping' = claimed
        /\ stale' = stale \ {g} /\ groups' = groups \ {g} /\ dropGroup' = {g}
        /\ dropFound' = (g \in groups) /\ g \in stale
        /\ UNCHANGED <<acquiring, hold, outQ, delivered, discarded, opened, toSchedule>>
    BY <1>11 DEF DropGroup, Unclaimed
  <2>2. Queued' = Queued /\ QueuedOnce'
    BY <2>1, QueueKept DEF PlaceInv
  <2>3. OnePlace' /\ Placed' \subseteq Placed
    BY <2>1, <2>2 DEF PlaceInv, OnePlace, Placed
  <2>4. DropsFinal'
    BY <2>1 DEF PlaceInv, DropsFinal
  <2>5. \A h : Unmarked(h)' => h \in groups
    BY <2>1 DEF Unmarked
  <2> QED
    BY <2>1, <2>2, <2>3, <2>4, <2>5, PlacesMove
<1>12. ASSUME NEW m \in Member, EmitMarker(m) PROVE PlaceInv'
  <2>1. groups' \subseteq groups
    BY <1>12, CountKeeps DEF EmitMarker
  <2>2. UNCHANGED <<acquiring, inflight, hold, delivered, discarded, opened, toSchedule,
                    stale, dropGroup, dropFound, dropPass>> /\ wpc = "emit"
    BY <1>12 DEF EmitMarker
  <2>3. CASE HasRoom
    <3>1. Put(m, "cancelled") /\ dropping' = dropping \ {m} /\ m \in dropping
      BY <1>12, <2>3 DEF EmitMarker
    <3>2. m \notin hold
      BY <3>1 DEF PlaceInv, OnePlace
    <3> QED
      BY <2>1, <2>2, <3>1, <3>2, PlacesPut DEF Unmarked
  <2>4. CASE ~HasRoom
    <3>1. UNCHANGED <<outQ, dropping>>
      BY <1>12, <2>4 DEF EmitMarker
    <3> QED
      BY <2>1, <2>2, <3>1, PlacesKept DEF Unmarked, PlaceInv, DropsFinal
  <2> QED
    BY <2>3, <2>4
<1>13. ASSUME NEW m \in Member, ResumeMarker(m) PROVE PlaceInv'
  <2>1. m \in dropping /\ m \notin hold
    BY <1>13 DEF ResumeMarker, PlaceInv, OnePlace
  <2> QED
    BY <1>13, <2>1, PlacesPut DEF ResumeMarker, Unmarked
<1>14. CASE MarkUnscheduled
  <2> USE <1>14 DEF MarkUnscheduled
  <2>1. Queued' = Queued /\ QueuedOnce' /\ DropsFinal'
    BY QueueKept DEF PlaceInv, DropsFinal
  <2>2. \A g : ~Unmarked(g)'
    BY DEF Unmarked
  <2>3. \A m \in dropping' : /\ m \in Member /\ m[1] \in dropGroup /\ m[2] <= toSchedule[m[1]]
                             /\ Unmarked(m[1])
    <3> SUFFICES ASSUME NEW m \in SecondPass
                 PROVE /\ m \in Member /\ m[1] \in dropGroup /\ m[2] <= toSchedule[m[1]]
                       /\ dropFound
      BY DEF Unmarked
    <3> PICK g \in dropGroup : dropFound /\ m \in Unscheduled(g)
      BY DEF SecondPass
    <3>1. g \in Group /\ m \in Member
      BY UnscheduledMembers DEF StateInv, StateOK
    <3>2. toSchedule[g] \in Nat
      BY <3>1 DEF StateInv, StateOK
    <3>3. m[1] = g /\ m[2] <= toSchedule[g]
      BY <3>2 DEF Unscheduled
    <3> QED
      BY <3>1, <3>3
  <2>4. dropping' \cap Placed = {}
    <3> SUFFICES ASSUME NEW m \in dropping', m \in Placed PROVE FALSE
      OBVIOUS
    <3>1. m[2] > toSchedule[m[1]] /\ m[2] <= toSchedule[m[1]]
      BY <2>3 DEF PlaceInv, Spent
    <3>2. m[2] \in Int /\ toSchedule[m[1]] \in Int
      BY <2>3, MemberParts DEF StateInv, StateOK
    <3> QED
      BY <3>1, <3>2
  <2>5. OnePlace'
    BY <2>1, <2>4 DEF PlaceInv, OnePlace, Placed
  <2>6. Spent'
    <3> SUFFICES ASSUME NEW m \in Placed'
                 PROVE m[1] \in opened /\ (m[1] \in groups => m[2] > toSchedule[m[1]])
      BY <2>2 DEF Spent
    <3>1. CASE m \in dropping'
      BY <2>3, <3>1 DEF PlaceInv, DropsFinal
    <3>2. CASE m \notin dropping'
      BY <2>1, <3>2 DEF PlaceInv, Spent, Placed
    <3> QED
      BY <3>1, <3>2
  <2> QED
    BY <2>1, <2>5, <2>6 DEF PlaceInv
<1>15. CASE FinishDrop \/ CancelsSettled \/ DropsDone \/ VersionInstalled
  <2>1. UNCHANGED <<acquiring, inflight, hold, dropping, outQ, delivered, discarded,
                    toSchedule, dropGroup, dropFound, dropPass, opened, groups, stale>>
    BY <1>15 DEF FinishDrop, CancelsSettled, DropsDone, VersionInstalled
  <2>2. wpc' \notin {"emit", "put"}
    BY <1>15 DEF FinishDrop, CancelsSettled, DropsDone, VersionInstalled
  <2> QED
    BY <2>1, <2>2, PlacesKept DEF Unmarked, PlaceInv, DropsFinal
<1>16. CASE TakeRollout
  <2> DEFINE m == Head(outQ).member
  <2>1. Queued' = Queued \ {m} /\ m \in Queued /\ QueuedOnce'
    BY <1>16, TakeQueues DEF TakeRollout, StateInv, PlaceInv
  <2>2. delivered' = delivered \cup {m} /\ DropsFinal'
    BY <1>16 DEF TakeRollout, PlaceInv, DropsFinal
  <2>3. UNCHANGED <<acquiring, inflight, hold, dropping, discarded, opened, groups, toSchedule,
                    dropGroup, dropFound, dropPass, wpc>>
    BY <1>16 DEF TakeRollout
  <2> HIDE DEF m
  <2>4. OnePlace' /\ Placed' \subseteq Placed
    BY <2>1, <2>2, <2>3 DEF PlaceInv, OnePlace, Placed
  <2> QED
    BY <2>1, <2>2, <2>3, <2>4, PlacesMove DEF Unmarked
<1>17. ASSUME NEW fired \in SUBSET EvalGroups, TriggerEval(fired) PROVE PlaceInv'
  BY <1>17, PlacesKept DEF TriggerEval, Unmarked, PlaceInv, DropsFinal
<1>18. CASE CloseGate \/ OpenGate \/ KillLoop
  BY <1>18, PlacesKept DEF CloseGate, OpenGate, KillLoop, Unmarked, PlaceInv, DropsFinal
<1>19. CASE BeginDraining \/ Stop
  <2> PICK doomed \in SUBSET inflight :
         inflight' = inflight \ doomed /\ discarded' = discarded \cup doomed
    BY <1>19 DEF BeginDraining, Stop
  <2>1. groups' \subseteq groups
    BY <1>19 DEF BeginDraining, Stop
  <2>2. UNCHANGED <<acquiring, hold, dropping, outQ, delivered, opened, toSchedule, stale,
                    dropGroup, dropFound, dropPass, wpc>>
    BY <1>19 DEF BeginDraining, Stop
  <2>3. Queued' = Queued /\ QueuedOnce' /\ DropsFinal'
    BY <2>1, <2>2, QueueKept DEF PlaceInv, DropsFinal
  <2>4. OnePlace' /\ Placed' \subseteq Placed
    BY <2>2, <2>3 DEF PlaceInv, OnePlace, Placed
  <2> QED
    BY <2>1, <2>2, <2>3, <2>4, PlacesMove DEF Unmarked
<1>20. CASE UNCHANGED vars
  BY <1>20, PlacesKept DEF vars, Unmarked, PlaceInv, DropsFinal
<1> QED
  BY <1>1, <1>2, <1>3, <1>4, <1>5, <1>6, <1>7, <1>8, <1>9, <1>10, <1>11, <1>12, <1>13,
     <1>14, <1>15, <1>16, <1>17, <1>18, <1>19, <1>20 DEF Next, DispatchLoop, Watcher, MainLoop

LEMMA PlacesStart == Init => PlaceInv
BY DEF Init, PlaceInv, QueuedOnce, OnePlace, Spent, DropsFinal, Placed, Queued

LEMMA PlacesInvariant == Spec => [](StateInv /\ PlaceInv)
<1>1. StateInv /\ PlaceInv /\ [Next]_vars => PlaceInv'
  BY PlaceStep
<1> QED
  BY <1>1, PlacesStart, StateInvariant, PTL DEF Spec

\* A rollout is in one place only, whatever the order of completions,
\* off-policy drops, drains and shutdown (dispatcher.py: drop_group claims
\* tasks and groups before its first await, handle_completed_rollout skips
\* what is claimed): out_q never carries it twice.
THEOREM RolloutsOnce == Spec => []AtMostOnce
<1>1. PlaceInv => AtMostOnce
  BY DEF PlaceInv, QueuedOnce, OnePlace, AtMostOnce
<1> QED
  BY <1>1, PlacesInvariant, PTL

-----------------------------------------------------------------------------
(* The dispatcher implements EmitOnce: each of its steps is a step of the  *)
(* promise or leaves what the sinks are owed alone.                        *)

\* Fresh members are the sinks' business only once their group is opened.
LEMMA PromiseStutter ==
  ASSUME UNCHANGED <<opened, outQ, delivered, discarded>>
  PROVE UNCHANGED Promise!vars
BY QueueKept DEF Promise!vars, Fresh, Owed

LEMMA PromiseEmit ==
  ASSUME StateInv, PlaceInv, NEW m \in hold \cup dropping, NEW kind \in {"result", "cancelled"},
         HasRoom, Put(m, kind), UNCHANGED <<opened, delivered, discarded>>
  PROVE Promise!Next
<1>1. m \in Member
  BY DEF StateInv, StateOK
<1>2. Queued' = Queued \cup {m}
  BY <1>1, PutQueues DEF StateInv
<1>3. m \notin Queued \cup delivered \cup discarded /\ m[1] \in opened
  BY DEF PlaceInv, OnePlace, Spent, Placed
<1>4. m \in Owed /\ Fresh' = Fresh /\ Owed' = Owed \ {m}
  BY <1>1, <1>2, <1>3 DEF Owed, Fresh
<1>5. Promise!Emit(m, kind)
  BY <1>4 DEF Promise!Emit, HasRoom, Put
<1> QED
  BY <1>1, <1>5 DEF Promise!Next

LEMMA PromiseGiveUp ==
  ASSUME StateInv, PlaceInv, NEW S, S \subseteq inflight, discarded' = discarded \cup S,
         UNCHANGED <<opened, outQ, delivered>>
  PROVE Promise!Next
<1>1. S \subseteq Member /\ Queued' = Queued
  BY QueueKept DEF StateInv, StateOK
<1>2. S \cap (Queued \cup delivered \cup discarded \cup Fresh) = {}
  BY DEF PlaceInv, OnePlace, Spent, Placed, Fresh
<1>3. S \subseteq Owed /\ Fresh' = Fresh /\ Owed' = Owed \ S
  BY <1>1, <1>2 DEF Owed, Fresh
<1>4. Promise!GiveUp(S)
  BY <1>3 DEF Promise!GiveUp
<1> QED
  BY <1>1, <1>4 DEF Promise!Next

LEMMA PromiseOpen ==
  ASSUME StateInv, PlaceInv, NEW g \in Group, g \notin opened, opened' = opened \cup {g},
         UNCHANGED <<outQ, delivered, discarded>>
  PROVE Promise!Next
<1> DEFINE S == {m \in Member : m[1] = g}
<1>1. Queued' = Queued
  BY QueueKept
<1>2. S \subseteq Fresh /\ Fresh' = Fresh \ S
  BY DEF Fresh
<1>3. S \cap (Queued \cup delivered \cup discarded) = {}
  BY DEF PlaceInv, Spent, Placed
<1>4. Owed' = Owed \cup S
  BY <1>1, <1>2, <1>3 DEF Owed
<1>5. Promise!Open(S)
  BY <1>2, <1>4 DEF Promise!Open
<1>6. S \in SUBSET Member
  OBVIOUS
<1> QED
  BY <1>5, <1>6 DEF Promise!Next

LEMMA PromiseTake == ASSUME StateInv, PlaceInv, TakeRollout PROVE Promise!Next
<1> DEFINE m == Head(outQ).member
<1>1. outQ # <<>> /\ delivered' = delivered \cup {m} /\ outQ' = Tail(outQ)
  BY DEF TakeRollout
<1>2. Queued' = Queued \ {m} /\ m \in Queued
  BY <1>1, TakeQueues DEF StateInv, PlaceInv
<1>3. m \notin delivered
  BY <1>2 DEF PlaceInv, OnePlace
<1>4. UNCHANGED <<opened, discarded>>
  BY DEF TakeRollout, groupVars
<1>5. Fresh' = Fresh /\ Owed' = Owed
  BY <1>1, <1>2, <1>4 DEF Fresh, Owed
<1> QED
  BY <1>1, <1>3, <1>4, <1>5 DEF Promise!Next, Promise!Take

LEMMA PromiseStep ==
  ASSUME StateInv, PlaceInv, [Next]_vars PROVE [Promise!Next]_(Promise!vars)
<1> USE DEF groupVars, taskVars, queueVars, controlVars, loopVars, watchVars
<1>1. ASSUME NEW g \in Group, OpenGroup(g) PROVE Promise!Next
  <2>1. g \notin opened
    BY <1>1 DEF OpenGroup, Poppable, Sources, StateInv, FreshGroups
  <2> QED
    BY <1>1, <2>1, PromiseOpen DEF OpenGroup
<1>2. ASSUME NEW m \in Member, HandleTask(m) PROVE [Promise!Next]_(Promise!vars)
  <2>1. TaskIn(inflight, m) \subseteq inflight
    BY <1>2, TaskParts DEF HandleTask, Claimable
  <2>2. CASE m \in aborted
    BY <1>2, <2>1, <2>2, PromiseGiveUp DEF HandleTask
  <2>3. CASE m \notin aborted
    BY <1>2, <2>3, PromiseStutter DEF HandleTask
  <2> QED
    BY <2>2, <2>3
<1>3. ASSUME NEW m \in Member, EmitResult(m) PROVE [Promise!Next]_(Promise!vars)
  <2>1. CASE HasRoom
    BY <1>3, <2>1, PromiseEmit DEF EmitResult
  <2>2. CASE ~HasRoom
    BY <1>3, <2>2, PromiseStutter DEF EmitResult
  <2> QED
    BY <2>1, <2>2
<1>4. ASSUME NEW m \in Member, EmitMarker(m) PROVE [Promise!Next]_(Promise!vars)
  <2>1. CASE HasRoom
    BY <1>4, <2>1, PromiseEmit DEF EmitMarker
  <2>2. CASE ~HasRoom
    BY <1>4, <2>2, PromiseStutter DEF EmitMarker
  <2> QED
    BY <2>1, <2>2
<1>5. ASSUME NEW m \in Member, ResumePut(m) \/ ResumeMarker(m) PROVE Promise!Next
  BY <1>5, PromiseEmit DEF ResumePut, ResumeMarker
<1>6. CASE TakeRollout
  BY <1>6, PromiseTake
<1>7. CASE BeginDraining
  <2>1. {m \in inflight : m[1] \in TrainGroups} \subseteq inflight
    OBVIOUS
  <2> QED
    BY <1>7, <2>1, PromiseGiveUp DEF BeginDraining
<1>8. CASE Stop
  BY <1>8, PromiseGiveUp DEF Stop
<1>9. ASSUME NEW g \in Group, ContinueGroup(g) \/ DropGroup(g) PROVE UNCHANGED Promise!vars
  BY <1>9, PromiseStutter DEF ContinueGroup, DropGroup
<1>10. CASE SwitchToTrain \/ FillReturns \/ SelectClient \/ AcquirePermit \/ LaunchTask
            \/ Wake \/ HandledAll \/ EmittedAll
  BY <1>10, PromiseStutter DEF SwitchToTrain, FillReturns, SelectClient, AcquirePermit,
                               LaunchTask, Wake, HandledAll, EmittedAll
<1>11. ASSUME NEW m \in Member, SkipClaimed(m) PROVE UNCHANGED Promise!vars
  BY <1>11, PromiseStutter DEF SkipClaimed
<1>12. CASE MarkUnscheduled \/ FinishDrop \/ CancelsSettled \/ DropsDone \/ VersionInstalled
            \/ VersionPending
  BY <1>12, PromiseStutter DEF MarkUnscheduled, FinishDrop, CancelsSettled, DropsDone,
                               VersionInstalled, VersionPending
<1>13. ASSUME NEW fired, TriggerEval(fired) PROVE UNCHANGED Promise!vars
  BY <1>13, PromiseStutter DEF TriggerEval
<1>14. CASE CloseGate \/ OpenGate \/ KillLoop \/ Env
  BY <1>14, PromiseStutter DEF CloseGate, OpenGate, KillLoop, Env, FinishTask, AbortTask
<1>15. CASE UNCHANGED vars
  BY <1>15, PromiseStutter DEF vars
<1> QED
  BY <1>1, <1>2, <1>3, <1>4, <1>5, <1>6, <1>7, <1>8, <1>9, <1>10, <1>11, <1>12, <1>13,
     <1>14, <1>15 DEF Next, DispatchLoop, Watcher, MainLoop

\* The dispatcher keeps its promise to the sinks: a rollout of an opened group
\* is put on out_q at most once, only while it is owed, and a rollout given up
\* by a drain, the shutdown or a cancelled task is never emitted afterwards.
THEOREM DispatcherEmitsOnce == Spec => EmitsOnce
<1>1. Init => Promise!Init
  BY DEF Init, Promise!Init, Fresh, Owed, Queued
<1>2. StateInv /\ PlaceInv /\ [Next]_vars => [Promise!Next]_(Promise!vars)
  BY PromiseStep
<1> QED
  BY <1>1, <1>2, PlacesInvariant, PTL DEF Spec, EmitsOnce, Promise!Spec

-----------------------------------------------------------------------------
(* Nothing gets lost.  No place is overwritten while it holds a rollout,   *)
(* and emit_rollout drops a group for being whole only when its budget is  *)
(* empty, because group.emitted counts what is on out_q or behind it.      *)

Emptied ==
    /\ dpc \notin {"acquire", "dead"} => acquiring = {}
    /\ dpc \notin {"emit", "put", "dead"} => hold = {}
    /\ wpc \notin {"emit", "put"} => dropping = {}
    /\ \A m \in dropping : m[1] \in dropGroup
    /\ \A m, n \in hold : m[1] = n[1]

InBudget(m) == m[2] <= toSchedule[m[1]]

\* Members of a live group, wherever they are.
LiveKept == \A m \in Member : m[1] \in groups => InBudget(m) \/ m \in Placed

\* Members of every opened group, as long as nothing is given up.
AllKept ==
    ~trainDisabled /\ ~stopped =>
        \A m \in Member : m[1] \in opened =>
            \/ InBudget(m) /\ (m[1] \in groups \/ Unmarked(m[1]))
            \/ m \in Placed

\* emit_rollout was told that the group is live as long as it is.
HoldLive == \A m \in hold : m[1] \in groups => holdGroup

Out(g) == {m \in Queued \cup delivered : m[1] = g}
Counting(g) == IF dpc = "put" /\ \E m \in hold : m[1] = g THEN 1 ELSE 0

\* group.emitted of a live group is the number of its members on out_q or
\* behind it, plus the one whose put is suspended.
CountOf(g) ==
    /\ emitted[g] < GroupSize[g]
    /\ emitted[g] >= Cardinality(Out(g)) + Counting(g)
    /\ ~stopped => emitted[g] <= Cardinality(Out(g)) + Counting(g)

EmittedExact ==
    /\ \A g \in Group \ opened : emitted[g] = 0
    /\ \A g \in groups : CountOf(g)

KeptInv == Emptied /\ LiveKept /\ AllKept /\ HoldLive /\ EmittedExact

LEMMA EmptiedStep ==
  ASSUME StateInv, PlaceInv, Emptied, [Next]_vars PROVE Emptied'
<1> USE DEF Emptied, groupVars, taskVars, queueVars, controlVars, loopVars, watchVars
<1>1. ASSUME NEW g \in Group, ContinueGroup(g) PROVE Emptied'
  BY <1>1 DEF ContinueGroup, Reserve
<1>2. ASSUME NEW g \in Group, OpenGroup(g) PROVE Emptied'
  BY <1>2 DEF OpenGroup
<1>3. CASE SelectClient
  BY <1>3 DEF SelectClient, Reserve
<1>4. CASE SwitchToTrain \/ FillReturns \/ AcquirePermit \/ LaunchTask \/ Wake
  BY <1>4 DEF SwitchToTrain, FillReturns, AcquirePermit, LaunchTask, Wake
<1>5. CASE HandledAll \/ EmittedAll
  BY <1>5 DEF HandledAll, EmittedAll
<1>6. ASSUME NEW m \in Member, SkipClaimed(m) PROVE Emptied'
  BY <1>6 DEF SkipClaimed
<1>7. ASSUME NEW m \in Member, HandleTask(m) PROVE Emptied'
  <2>1. \A n \in TaskIn(inflight, m) : n[1] = m[1]
    BY <1>7, TaskParts DEF HandleTask, Claimable
  <2> QED
    BY <1>7, <2>1 DEF HandleTask
<1>8. ASSUME NEW m \in Member, EmitResult(m) \/ ResumePut(m) PROVE Emptied'
  BY <1>8 DEF EmitResult, ResumePut
<1>9. CASE Env \/ VersionPending
  BY <1>9 DEF Env, FinishTask, AbortTask, VersionPending
<1>10. ASSUME NEW g \in Group, DropGroup(g) PROVE Emptied'
  BY <1>10 DEF DropGroup
<1>11. ASSUME NEW m \in Member, EmitMarker(m) \/ ResumeMarker(m) PROVE Emptied'
  BY <1>11 DEF EmitMarker, ResumeMarker
<1>12. CASE MarkUnscheduled
  BY <1>12 DEF MarkUnscheduled, SecondPass, Unscheduled
<1>13. CASE FinishDrop \/ CancelsSettled \/ DropsDone \/ VersionInstalled
  BY <1>13 DEF FinishDrop, CancelsSettled, DropsDone, VersionInstalled
<1>14. CASE MainLoop
  BY <1>14 DEF MainLoop, TakeRollout, TriggerEval, CloseGate, OpenGate, BeginDraining, Stop,
               KillLoop
<1>15. CASE UNCHANGED vars
  BY <1>15 DEF vars
<1> QED
  BY <1>1, <1>2, <1>3, <1>4, <1>5, <1>6, <1>7, <1>8, <1>9, <1>10, <1>11, <1>12, <1>13,
     <1>14, <1>15 DEF Next, DispatchLoop, Watcher

\* A put adds to out_q what it takes out of the hands of the loop or of
\* drop_group.
LEMMA PutGrows ==
  ASSUME StateInv, NEW m \in Member, NEW kind, Put(m, kind),
         hold \subseteq hold' \cup {m}, dropping \subseteq dropping' \cup {m},
         UNCHANGED <<acquiring, inflight, delivered, discarded>>
  PROVE Placed \subseteq Placed'
<1>1. Queued' = Queued \cup {m}
  BY PutQueues DEF StateInv
<1> QED
  BY <1>1 DEF Placed

\* Where a rollout is when it is not on out_q.
OffQueue == acquiring \cup inflight \cup hold \cup dropping \cup delivered \cup discarded

LEMMA OffQueueGrows ==
  ASSUME UNCHANGED outQ, OffQueue \subseteq OffQueue' PROVE Placed \subseteq Placed'
BY QueueKept DEF Placed, OffQueue

\* Once placed, a rollout is placed for good.
LEMMA PlacedGrows ==
  ASSUME StateInv, PlaceInv, Emptied, [Next]_vars PROVE Placed \subseteq Placed'
<1> USE DEF groupVars, taskVars, queueVars, controlVars, loopVars, watchVars
<1>1. ASSUME NEW g \in Group, ContinueGroup(g) \/ OpenGroup(g) PROVE Placed \subseteq Placed'
  BY <1>1, OffQueueGrows DEF ContinueGroup, OpenGroup, Emptied, OffQueue
<1>2. CASE SelectClient
  BY <1>2, OffQueueGrows DEF SelectClient, Emptied, OffQueue
<1>3. CASE SwitchToTrain \/ FillReturns \/ AcquirePermit \/ LaunchTask \/ Wake \/ HandledAll
           \/ EmittedAll
  BY <1>3, OffQueueGrows DEF SwitchToTrain, FillReturns, AcquirePermit, LaunchTask, Wake,
                             HandledAll, EmittedAll, OffQueue
<1>4. ASSUME NEW m \in Member, SkipClaimed(m) \/ HandleTask(m) PROVE Placed \subseteq Placed'
  BY <1>4, OffQueueGrows DEF SkipClaimed, HandleTask, Emptied, OffQueue
<1>5. ASSUME NEW m \in Member, EmitResult(m) \/ ResumePut(m) PROVE Placed \subseteq Placed'
  <2>1. CASE Put(m, "result") /\ hold' = hold \ {m}
    BY <1>5, <2>1, PutGrows DEF EmitResult, ResumePut
  <2>2. CASE UNCHANGED <<outQ, hold>>
    BY <1>5, <2>2, OffQueueGrows DEF EmitResult, ResumePut, OffQueue
  <2> QED
    BY <1>5, <2>1, <2>2 DEF EmitResult, ResumePut
<1>6. ASSUME NEW m \in Member, EmitMarker(m) \/ ResumeMarker(m) PROVE Placed \subseteq Placed'
  <2>1. CASE Put(m, "cancelled") /\ dropping' = dropping \ {m}
    BY <1>6, <2>1, PutGrows DEF EmitMarker, ResumeMarker
  <2>2. CASE UNCHANGED <<outQ, dropping>>
    BY <1>6, <2>2, OffQueueGrows DEF EmitMarker, ResumeMarker, OffQueue
  <2> QED
    BY <1>6, <2>1, <2>2 DEF EmitMarker, ResumeMarker
<1>7. CASE Env \/ VersionPending
  BY <1>7, OffQueueGrows DEF Env, FinishTask, AbortTask, VersionPending, OffQueue
<1>8. ASSUME NEW g \in Group, DropGroup(g) PROVE Placed \subseteq Placed'
  BY <1>8, OffQueueGrows DEF DropGroup, Unclaimed, Emptied, OffQueue
<1>9. CASE MarkUnscheduled \/ FinishDrop \/ CancelsSettled \/ DropsDone \/ VersionInstalled
  BY <1>9, OffQueueGrows DEF MarkUnscheduled, FinishDrop, CancelsSettled, DropsDone,
                             VersionInstalled, OffQueue
<1>10. CASE TakeRollout
  <2>1. Queued' = Queued \ {Head(outQ).member} /\ delivered' = delivered \cup {Head(outQ).member}
    BY <1>10, TakeQueues DEF TakeRollout, StateInv, PlaceInv
  <2> QED
    BY <1>10, <2>1 DEF TakeRollout, Placed
<1>11. CASE MainLoop /\ ~TakeRollout
  BY <1>11, OffQueueGrows DEF MainLoop, TriggerEval, CloseGate, OpenGate, BeginDraining, Stop,
                              KillLoop, OffQueue
<1>12. CASE UNCHANGED vars
  BY <1>12, OffQueueGrows DEF vars, OffQueue
<1> QED
  BY <1>1, <1>2, <1>3, <1>4, <1>5, <1>6, <1>7, <1>8, <1>9, <1>10, <1>11, <1>12
     DEF Next, DispatchLoop, Watcher

\* A member leaves the budget only for a task, and budgets are full when a
\* group is opened.
LEMMA BudgetKept ==
  ASSUME StateInv, [Next]_vars, NEW m \in Member, InBudget(m)
  PROVE InBudget(m)' \/ m \in acquiring'
<1> USE DEF groupVars, taskVars, queueVars, controlVars, loopVars, watchVars
<1>1. CASE UNCHANGED toSchedule
  BY <1>1 DEF InBudget
<1>2. ASSUME NEW g \in Group, toSchedule[g] > 0, Reserve(g)
      PROVE InBudget(m)' \/ m \in acquiring'
  <2>1. m[1] \in Group /\ m[2] \in 1..GroupSize[m[1]] /\ m = <<m[1], m[2]>>
    BY MemberParts
  <2>2. toSchedule \in [Group -> Nat] /\ toSchedule[g] \in Nat \ {0}
    BY <1>2 DEF StateInv, StateOK
  <2>3. CASE m[1] = g
    <3>1. CASE g \in Scored
      BY <1>2, <2>1, <2>2, <2>3, <3>1 DEF Reserve, Unscheduled, InBudget
    <3>2. CASE g \notin Scored
      BY <1>2, <2>1, <2>2, <2>3, <3>2 DEF Reserve, InBudget
    <3> QED
      BY <3>1, <3>2
  <2>4. CASE m[1] # g
    <3>1. toSchedule'[m[1]] = toSchedule[m[1]]
      BY <1>2, <2>1, <2>4, ReserveTypes DEF StateInv
    <3> QED
      BY <3>1 DEF InBudget
  <2> QED
    BY <2>3, <2>4
<1>3. ASSUME NEW g \in Group, ContinueGroup(g) PROVE InBudget(m)' \/ m \in acquiring'
  BY <1>1, <1>2, <1>3 DEF ContinueGroup, Continuable
<1>4. CASE SelectClient
  BY <1>1, <1>2, <1>4 DEF SelectClient, StateInv, StateOK, PickedBudget
<1>5. \/ UNCHANGED toSchedule \/ SelectClient
      \/ \E g \in Group : ContinueGroup(g)
  BY DEF Next, vars, DispatchLoop, Watcher, MainLoop, Env, OpenGroup, SwitchToTrain, FillReturns,
         AcquirePermit, LaunchTask, Wake, HandledAll, EmittedAll, SkipClaimed, HandleTask,
         EmitResult, ResumePut, EmitMarker, ResumeMarker, TakeRollout, DropGroup,
         MarkUnscheduled, FinishDrop, CancelsSettled, DropsDone, VersionInstalled,
         VersionPending, TriggerEval, CloseGate, OpenGate, BeginDraining, Stop, KillLoop,
         FinishTask, AbortTask
<1> QED
  BY <1>1, <1>3, <1>4, <1>5

\* Groups come alive only by being opened, with a full budget.
LEMMA GroupsOpened ==
  ASSUME StateInv, [Next]_vars
  PROVE \/ groups' \subseteq groups /\ opened' = opened
        \/ \E g \in Group \ opened : /\ OpenGroup(g)
                                     /\ groups' = groups \cup {g} /\ opened' = opened \cup {g}
                                     /\ UNCHANGED toSchedule
<1> USE DEF groupVars, taskVars, queueVars, controlVars, loopVars, watchVars
<1>1. ASSUME NEW g \in Group, OpenGroup(g)
      PROVE g \notin opened /\ groups' = groups \cup {g} /\ opened' = opened \cup {g}
            /\ UNCHANGED toSchedule
  BY <1>1 DEF OpenGroup, Poppable, Sources, StateInv, FreshGroups
<1>2. \/ groups' \subseteq groups /\ opened' = opened
      \/ \E g \in Group : OpenGroup(g)
      \/ \E m \in Member : EmitResult(m) \/ EmitMarker(m)
  BY DEF Next, vars, DispatchLoop, Watcher, MainLoop, Env, ContinueGroup, SwitchToTrain,
         FillReturns, SelectClient, AcquirePermit, LaunchTask, Wake, HandledAll, EmittedAll,
         SkipClaimed, HandleTask, ResumePut, ResumeMarker, TakeRollout, DropGroup,
         MarkUnscheduled, FinishDrop, CancelsSettled, DropsDone, VersionInstalled,
         VersionPending, TriggerEval, CloseGate, OpenGate, BeginDraining, Stop, KillLoop,
         FinishTask, AbortTask
<1>3. ASSUME NEW m \in Member, EmitResult(m) \/ EmitMarker(m)
      PROVE groups' \subseteq groups /\ opened' = opened
  BY <1>3, CountKeeps DEF EmitResult, EmitMarker
<1> QED
  BY <1>1, <1>2, <1>3

LEMMA LiveKeptStep ==
  ASSUME StateInv, PlaceInv, Emptied, LiveKept, [Next]_vars PROVE LiveKept'
<1> SUFFICES ASSUME NEW m \in Member, m[1] \in groups' PROVE InBudget(m)' \/ m \in Placed'
  BY DEF LiveKept
<1>1. CASE m[1] \in groups
  <2>1. acquiring' \subseteq Placed'
    BY DEF Placed
  <2> QED
    BY <1>1, <2>1, PlacedGrows, BudgetKept DEF LiveKept
<1>2. CASE m[1] \notin groups
  <2>1. m[1] \in Group \ opened /\ UNCHANGED toSchedule
    BY <1>2, GroupsOpened
  <2>2. toSchedule[m[1]] = GroupSize[m[1]] /\ m[2] \in 1..GroupSize[m[1]]
    BY <2>1, MemberParts DEF StateInv, FreshGroups
  <2> QED
    BY <2>1, <2>2, MemberParts DEF InBudget
<1> QED
  BY <1>1, <1>2

LEMMA HoldLiveStep ==
  ASSUME StateInv, PlaceInv, Emptied, HoldLive, [Next]_vars PROVE HoldLive'
<1> USE DEF groupVars, taskVars, queueVars, controlVars, loopVars, watchVars
<1>1. ASSUME NEW m \in Member, HandleTask(m) PROVE HoldLive'
  <2>1. \A n \in TaskIn(inflight, m) : n[1] = m[1]
    BY <1>1, TaskParts DEF HandleTask, Claimable
  <2>2. hold' = TaskIn(inflight, m) \/ hold' = hold
    BY <1>1 DEF HandleTask
  <2>3. groups' = groups /\ holdGroup' = (m[1] \in groups)
    BY <1>1, Zenon DEF HandleTask
  <2>4. CASE hold' = TaskIn(inflight, m)
    <3> SUFFICES ASSUME NEW n \in hold', n[1] \in groups' PROVE holdGroup'
      BY Zenon DEF HoldLive
    <3>1. n[1] = m[1] /\ n[1] \in groups
      BY <2>1, <2>3, <2>4
    <3>2. m[1] \in groups
      BY <3>1
    <3> QED
      BY <2>3, <3>2, Zenon
  <2>5. CASE hold' # TaskIn(inflight, m)
    <3>1. hold' = {}
      BY <1>1, <2>2, <2>5 DEF HandleTask, Emptied
    <3> QED
      BY <3>1, Zenon DEF HoldLive
  <2> QED
    BY <2>4, <2>5
<1>2. CASE \A m \in Member : ~HandleTask(m)
  <2>1. hold' \subseteq hold
    BY <1>2 DEF Next, vars, DispatchLoop, Watcher, MainLoop, Env, ContinueGroup, OpenGroup,
         SwitchToTrain, FillReturns, SelectClient, AcquirePermit, LaunchTask, Wake, HandledAll,
         EmittedAll, SkipClaimed, EmitResult, EmitMarker, ResumePut, ResumeMarker,
         TakeRollout, DropGroup, MarkUnscheduled, FinishDrop, CancelsSettled, DropsDone,
         VersionInstalled, VersionPending, TriggerEval, CloseGate, OpenGate, BeginDraining, Stop,
         KillLoop, FinishTask, AbortTask
  <2>2. holdGroup' = holdGroup
    BY <1>2, Zenon DEF Next, vars, DispatchLoop, Watcher, MainLoop, Env, ContinueGroup, OpenGroup,
         SwitchToTrain, FillReturns, SelectClient, AcquirePermit, LaunchTask, Wake, HandledAll,
         EmittedAll, SkipClaimed, EmitResult, EmitMarker, ResumePut, ResumeMarker,
         TakeRollout, DropGroup, MarkUnscheduled, FinishDrop, CancelsSettled, DropsDone,
         VersionInstalled, VersionPending, TriggerEval, CloseGate, OpenGate, BeginDraining, Stop,
         KillLoop, FinishTask, AbortTask
  <2>3. \A m \in hold : m[1] \in groups' => m[1] \in groups
    <3>1. \A m \in hold : m[1] \in opened
      BY DEF PlaceInv, Spent, Placed
    <3> QED
      BY <3>1, GroupsOpened
  <2> QED
    BY <2>1, <2>2, <2>3, Zenon DEF HoldLive
<1> QED
  BY <1>1, <1>2

-----------------------------------------------------------------------------
(* group.emitted. *)

LEMMA OutCounted ==
  ASSUME StateInv, NEW g
  PROVE Out(g) \subseteq Member /\ IsFiniteSet(Out(g)) /\ Cardinality(Out(g)) \in Nat
<1>1. Out(g) \subseteq Member
  BY QueuedMembers DEF Out, StateInv, StateOK
<1> QED
  BY <1>1, SubsetCounted

LEMMA OutGrows ==
  ASSUME StateInv, NEW m \in Member, m \notin Queued \cup delivered,
         Queued' = Queued \cup {m}, UNCHANGED delivered
  PROVE /\ Cardinality(Out(m[1])') = Cardinality(Out(m[1])) + 1
        /\ \A g : g # m[1] => Out(g)' = Out(g)
<1>1. Out(m[1])' = Out(m[1]) \cup {m} /\ m \notin Out(m[1])
  BY DEF Out
<1>2. IsFiniteSet(Out(m[1]))
  BY OutCounted
<1>3. Cardinality(Out(m[1]) \cup {m}) = Cardinality(Out(m[1])) + 1
  BY <1>1, <1>2, FS_AddElement
<1>4. \A g : g # m[1] => Out(g)' = Out(g)
  BY DEF Out
<1> QED
  BY <1>1, <1>3, <1>4

\* Steps that emit nothing.
LEMMA CountSame ==
  ASSUME StateInv, EmittedExact, UNCHANGED emitted,
         Queued' \cup delivered' = Queued \cup delivered,
         groups' \subseteq groups, opened \subseteq opened', ~stopped' => ~stopped,
         \/ dpc' = dpc /\ hold' = hold
         \/ dpc # "put" /\ dpc' # "put"
         \/ dpc' = "dead" /\ stopped'
  PROVE EmittedExact'
<1>1. \A g : Out(g)' = Out(g)
  BY DEF Out
<1>2. \A g : Counting(g)' = Counting(g) \/ (Counting(g)' = 0 /\ stopped')
  BY DEF Counting
<1>3. \A g : Counting(g) \in {0, 1}
  BY DEF Counting
<1>4. ASSUME NEW g \in groups' PROVE CountOf(g)'
  <2>1. CountOf(g)
    BY DEF EmittedExact
  <2>2. emitted[g] \in Nat /\ Cardinality(Out(g)) \in Nat
    BY OutCounted DEF StateInv, StateOK
  <2> QED
    BY <1>1, <1>2, <1>3, <2>1, <2>2 DEF CountOf
<1> QED
  BY <1>4 DEF EmittedExact

\* Steps that emit one rollout: the other groups keep their count.
LEMMA CountOthers ==
  ASSUME StateInv, EmittedExact, NEW m, m[1] \in opened,
         groups' \subseteq groups, UNCHANGED <<opened, stopped>>,
         \A g \in Group \ {m[1]} : emitted'[g] = emitted[g],
         \A g \in groups \ {m[1]} : Counting(g)' = Counting(g) /\ Out(g)' = Out(g),
         m[1] \in groups' => CountOf(m[1])'
  PROVE EmittedExact'
<1>1. ASSUME NEW g \in groups', g # m[1] PROVE CountOf(g)'
  <2>1. g \in Group /\ CountOf(g)
    BY DEF EmittedExact, StateInv, StateOK
  <2> QED
    BY <1>1, <2>1 DEF CountOf
<1>2. \A g \in Group \ opened' : emitted'[g] = 0
  BY DEF EmittedExact
<1> QED
  BY <1>1, <1>2 DEF EmittedExact

\* emit_rollout of the loop: the count goes up with the put, or before it
\* when the put has to wait.
LEMMA CountResult ==
  ASSUME StateInv, PlaceInv, Emptied, HoldLive, EmittedExact,
         NEW m \in Member, EmitResult(m) \/ ResumePut(m)
  PROVE EmittedExact'
<1> USE DEF StateInv, StateOK, groupVars, taskVars, queueVars, controlVars, loopVars, watchVars
<1>1. /\ m \in hold /\ m \notin Queued \cup delivered /\ m[1] \in opened /\ m[1] \in Group
      /\ \A n \in hold : n[1] = m[1]
  BY MemberParts DEF EmitResult, ResumePut, PlaceInv, OnePlace, Spent, Placed, Emptied
<1>2. UNCHANGED <<opened, delivered, stopped>>
  BY DEF EmitResult, ResumePut
<1>3. \A g : Cardinality(Out(g)) \in Nat
  BY OutCounted
<1>4. \A g \in groups \ {m[1]} : Counting(g)' = Counting(g)
  BY <1>1 DEF Counting, EmitResult, ResumePut
<1>5. \A g \in groups \ {m[1]} : Out(g)' = Out(g)
  <2>1. CASE Put(m, "result")
    BY <1>1, <1>2, <2>1, PutQueues, OutGrows
  <2>2. CASE UNCHANGED outQ
    BY <1>2, <2>2, QueueKept DEF Out
  <2> QED
    BY <2>1, <2>2 DEF EmitResult, ResumePut
<1>6. groups' \subseteq groups /\ \A g \in Group \ {m[1]} : emitted'[g] = emitted[g]
  BY <1>1 DEF EmitResult, ResumePut, CountEmitted
<1>7. CASE m[1] \notin groups
  BY <1>1, <1>2, <1>4, <1>5, <1>6, <1>7, CountOthers
<1>8. CASE m[1] \in groups
  <2> DEFINE g == m[1]
  <2>1. CountOf(g) /\ emitted[g] \in Nat /\ GroupSize[g] \in Nat
    BY <1>1, <1>8 DEF EmittedExact
  <2>2. CASE EmitResult(m)
    <3>1. emitted'[g] = emitted[g] + 1 /\ groups' = (IF Whole(g) THEN groups \ {g} ELSE groups)
      <4>1. holdGroup
        BY <1>1, <1>8, Zenon DEF HoldLive
      <4>2. CountEmitted(g, holdGroup)
        BY <2>2, Zenon DEF EmitResult
      <4>3. emitted' = [emitted EXCEPT ![g] = @ + 1]
            /\ groups' = (IF Whole(g) THEN groups \ {g} ELSE groups)
        BY <4>1, <4>2, Zenon DEF CountEmitted
      <4> QED
        BY <1>1, <4>3
    <3>2. Counting(g) = 0
      BY <2>2 DEF Counting, EmitResult
    <3>3. Cardinality(Out(g)') + Counting(g)' = Cardinality(Out(g)) + 1
      <4>1. CASE HasRoom
        <5>1. Put(m, "result") /\ dpc' = "emit"
          BY <2>2, <4>1 DEF EmitResult
        <5>2. Cardinality(Out(g)') = Cardinality(Out(g)) + 1
          BY <1>1, <1>2, <5>1, PutQueues, OutGrows
        <5>3. Counting(g)' = 0
          BY <5>1 DEF Counting
        <5> QED
          BY <1>3, <5>2, <5>3
      <4>2. CASE ~HasRoom
        <5>1. dpc' = "put" /\ UNCHANGED <<outQ, hold>>
          BY <2>2, <4>2 DEF EmitResult
        <5>2. Out(g)' = Out(g)
          BY <1>2, <5>1, QueueKept DEF Out
        <5>3. Counting(g)' = 1
          BY <1>1, <5>1 DEF Counting
        <5> QED
          BY <5>2, <5>3
      <4> QED
        BY <4>1, <4>2
    <3>4. g \in groups' => emitted'[g] < GroupSize[g]
      BY <2>1, <3>1 DEF Whole
    <3>5. g \in groups' => CountOf(g)'
      BY <1>2, <1>3, <2>1, <3>1, <3>2, <3>3, <3>4 DEF CountOf
    <3> QED
      BY <1>1, <1>2, <1>4, <1>5, <1>6, <3>5, CountOthers
  <2>3. CASE ResumePut(m)
    <3>1. emitted' = emitted /\ groups' = groups /\ Put(m, "result") /\ dpc = "put" /\ dpc' = "emit"
      BY <2>3 DEF ResumePut
    <3>2. Cardinality(Out(g)') = Cardinality(Out(g)) + 1
      BY <1>1, <1>2, <3>1, PutQueues, OutGrows
    <3>3. Counting(g) = 1 /\ Counting(g)' = 0
      BY <1>1, <3>1 DEF Counting
    <3>4. CountOf(g)'
      BY <1>2, <1>3, <2>1, <3>1, <3>2, <3>3 DEF CountOf
    <3> QED
      BY <1>1, <1>2, <1>4, <1>5, <1>6, <3>4, CountOthers
  <2> QED
    BY <2>2, <2>3
<1> QED
  BY <1>7, <1>8

\* drop_group's markers count for a group that is no longer live.
LEMMA CountMarker ==
  ASSUME StateInv, PlaceInv, Emptied, EmittedExact,
         NEW m \in Member, EmitMarker(m) \/ ResumeMarker(m)
  PROVE EmittedExact'
<1> USE DEF StateInv, StateOK, groupVars, taskVars, queueVars, controlVars, loopVars, watchVars
<1>1. /\ m \notin Queued \cup delivered /\ m[1] \in opened /\ m[1] \in Group
      /\ m[1] \notin groups
  BY MemberParts DEF EmitMarker, ResumeMarker, PlaceInv, OnePlace, Spent, Placed, Emptied, DropsFinal
<1>2. UNCHANGED <<opened, delivered, stopped, dpc, hold>>
  BY DEF EmitMarker, ResumeMarker
<1>3. \A g \in groups : Counting(g)' = Counting(g)
  BY <1>2 DEF Counting
<1>4. \A g \in groups : Out(g)' = Out(g)
  <2>1. CASE Put(m, "cancelled")
    BY <1>1, <1>2, <2>1, PutQueues, OutGrows
  <2>2. CASE UNCHANGED outQ
    BY <1>2, <2>2, QueueKept DEF Out
  <2> QED
    BY <2>1, <2>2 DEF EmitMarker, ResumeMarker
<1>5. groups' \subseteq groups /\ \A g \in Group : g # m[1] => emitted'[g] = emitted[g]
  BY <1>1 DEF EmitMarker, ResumeMarker, CountEmitted
<1> QED
  BY <1>1, <1>2, <1>3, <1>4, <1>5, CountOthers

LEMMA CountStep ==
  ASSUME StateInv, PlaceInv, Emptied, HoldLive, EmittedExact, [Next]_vars PROVE EmittedExact'
<1> USE DEF groupVars, taskVars, queueVars, controlVars, loopVars, watchVars
<1>1. ASSUME NEW m \in Member, EmitResult(m) \/ ResumePut(m) PROVE EmittedExact'
  BY <1>1, CountResult
<1>2. ASSUME NEW m \in Member, EmitMarker(m) \/ ResumeMarker(m) PROVE EmittedExact'
  BY <1>2, CountMarker
<1>3. ASSUME NEW g \in Group, OpenGroup(g) PROVE EmittedExact'
  <2>1. /\ g \notin opened /\ groups' = groups \cup {g} /\ opened' = opened \cup {g}
        /\ groups \subseteq opened
    BY <1>3 DEF OpenGroup, Poppable, Sources, StateInv, FreshGroups
  <2>2. UNCHANGED <<emitted, outQ, delivered, hold, stopped>> /\ dpc = "fill" /\ dpc' = "client"
    BY <1>3 DEF OpenGroup
  <2>3. \A h : Out(h)' = Out(h) /\ Counting(h)' = Counting(h)
    BY <2>2, QueueKept DEF Out, Counting
  <2>4. Out(g) = {} /\ Counting(g) = 0
    BY <2>1, <2>2 DEF Out, Counting, PlaceInv, Spent, Placed
  <2>5. emitted[g] = 0 /\ GroupSize[g] \in Nat \ {0} /\ Cardinality(Out(g)) = 0
    BY <2>1, <2>4, FS_EmptySet DEF EmittedExact
  <2>6. CountOf(g)'
    BY <2>2, <2>3, <2>4, <2>5 DEF CountOf
  <2>7. ASSUME NEW h \in groups PROVE CountOf(h)'
    <3>1. CountOf(h)
      BY DEF EmittedExact
    <3> QED
      BY <2>2, <2>3, <3>1 DEF CountOf
  <2> QED
    BY <2>1, <2>2, <2>6, <2>7 DEF EmittedExact
<1>4. ASSUME NEW g \in Group, ContinueGroup(g) PROVE EmittedExact'
  BY <1>4, QueueKept, CountSame DEF ContinueGroup, Reserve
<1>5. CASE SelectClient
  BY <1>5, QueueKept, CountSame DEF SelectClient, Reserve
<1>6. CASE SwitchToTrain \/ FillReturns \/ AcquirePermit \/ LaunchTask \/ Wake \/ HandledAll
           \/ EmittedAll
  BY <1>6, QueueKept, CountSame DEF SwitchToTrain, FillReturns, AcquirePermit, LaunchTask, Wake,
                                    HandledAll, EmittedAll
<1>7. ASSUME NEW m \in Member, SkipClaimed(m) \/ HandleTask(m) PROVE EmittedExact'
  BY <1>7, QueueKept, CountSame DEF SkipClaimed, HandleTask
<1>8. CASE Env \/ VersionPending
  BY <1>8, QueueKept, CountSame DEF Env, FinishTask, AbortTask, VersionPending
<1>9. ASSUME NEW g \in Group, DropGroup(g) PROVE EmittedExact'
  BY <1>9, QueueKept, CountSame DEF DropGroup
<1>10. CASE MarkUnscheduled \/ FinishDrop \/ CancelsSettled \/ DropsDone \/ VersionInstalled
  BY <1>10, QueueKept, CountSame DEF MarkUnscheduled, FinishDrop, CancelsSettled, DropsDone,
                                     VersionInstalled
<1>11. CASE TakeRollout
  <2>1. Queued' \cup delivered' = Queued \cup delivered
    BY <1>11, TakeQueues DEF TakeRollout, StateInv, PlaceInv
  <2> QED
    BY <1>11, <2>1, CountSame DEF TakeRollout
<1>12. ASSUME NEW fired, TriggerEval(fired) PROVE EmittedExact'
  BY <1>12, QueueKept, CountSame DEF TriggerEval
<1>13. CASE CloseGate \/ OpenGate \/ BeginDraining \/ Stop \/ KillLoop
  <2>1. groups' \subseteq groups /\ opened' = opened /\ UNCHANGED <<emitted, outQ, delivered, hold>>
    BY <1>13 DEF CloseGate, OpenGate, BeginDraining, Stop, KillLoop
  <2>2. dpc' = dpc \/ (dpc' = "dead" /\ stopped')
    BY <1>13 DEF CloseGate, OpenGate, BeginDraining, Stop, KillLoop
  <2>3. ~stopped' => ~stopped
    BY <1>13 DEF CloseGate, OpenGate, BeginDraining, Stop, KillLoop
  <2> QED
    BY <2>1, <2>2, <2>3, QueueKept, CountSame
<1>14. CASE UNCHANGED vars
  BY <1>14, QueueKept, CountSame DEF vars
<1> QED
  BY <1>1, <1>2, <1>3, <1>4, <1>5, <1>6, <1>7, <1>8, <1>9, <1>10, <1>11, <1>12, <1>13,
     <1>14 DEF Next, DispatchLoop, Watcher, MainLoop

-----------------------------------------------------------------------------
(* The members of a group, counted. *)

Column(g) == {m \in Member : m[1] = g}

LEMMA ColumnSize ==
  ASSUME NEW g \in Group PROVE IsFiniteSet(Column(g)) /\ Cardinality(Column(g)) = GroupSize[g]
<1>1. Column(g) = {g} \X (1..GroupSize[g])
  <2>1. ASSUME NEW m \in Column(g) PROVE m \in {g} \X (1..GroupSize[g])
    BY MemberParts DEF Column
  <2>2. ASSUME NEW m \in {g} \X (1..GroupSize[g]) PROVE m \in Column(g)
    BY DEF Column, Member
  <2> QED
    BY <2>1, <2>2
<1>2. Cardinality(Column(g)) = GroupSize[g]
  BY <1>1, ColumnCounted
<1>3. Column(g) \subseteq Member
  BY DEF Column
<1> QED
  BY <1>2, <1>3, SubsetCounted

\* A group that becomes whole has scheduled all of its members.
LEMMA WholeSpent ==
  ASSUME StateInv, PlaceInv, EmittedExact, ~stopped, dpc = "emit",
         NEW m \in hold, m[1] \in groups, Whole(m[1])
  PROVE \A n \in Member : n[1] = m[1] => ~InBudget(n)
<1> DEFINE g == m[1]
<1>1. m \in Member /\ g \in Group /\ toSchedule[g] \in Nat /\ emitted[g] \in Nat
  BY MemberParts DEF StateInv, StateOK
<1>2. Unscheduled(g) \subseteq Column(g) /\ Out(g) \cup {m} \subseteq Column(g)
  <2>1. Unscheduled(g) \subseteq Member
    BY <1>1, UnscheduledMembers DEF StateInv
  <2>2. \A n \in Unscheduled(g) : n[1] = g
    BY DEF Unscheduled
  <2> QED
    BY <1>1, <2>1, <2>2, OutCounted DEF Column, Out
<1>3. Unscheduled(g) \cap (Out(g) \cup {m}) = {}
  <2> SUFFICES ASSUME NEW n \in Unscheduled(g), n \in Out(g) \cup {m} PROVE FALSE
    OBVIOUS
  <2>1. n[1] = g /\ n[2] \in Int /\ n[2] <= toSchedule[g]
    BY <1>1 DEF Unscheduled
  <2>2. n \in Placed
    BY DEF Placed, Out
  <2> QED
    BY <1>1, <2>1, <2>2 DEF PlaceInv, Spent
<1>4. m \notin Out(g)
  BY DEF Out, PlaceInv, OnePlace
<1>5. Cardinality(Out(g) \cup {m}) = Cardinality(Out(g)) + 1 /\ IsFiniteSet(Out(g) \cup {m})
      /\ Cardinality(Out(g)) \in Nat
  BY <1>4, OutCounted, FS_AddElement
<1>6. Cardinality(Unscheduled(g)) = toSchedule[g] /\ IsFiniteSet(Unscheduled(g))
  BY <1>1, <1>2, UnscheduledCounted, ColumnSize, FS_Subset DEF StateInv
<1>7. Cardinality(Unscheduled(g) \cup (Out(g) \cup {m})) = toSchedule[g] + Cardinality(Out(g)) + 1
  <2> DEFINE S == Out(g) \cup {m}
             U == Unscheduled(g)
  <2>1. Cardinality(U \cup S) = Cardinality(U) + Cardinality(S) - Cardinality(U \cap S)
    BY <1>5, <1>6, FS_Union
  <2>2. Cardinality(U \cap S) = 0
    BY <1>3, FS_EmptySet
  <2> QED
    BY <1>1, <1>5, <1>6, <2>1, <2>2
<1>8. Cardinality(Unscheduled(g) \cup (Out(g) \cup {m})) <= GroupSize[g]
  BY <1>1, <1>2, ColumnSize, FS_Subset
<1>9. emitted[g] <= Cardinality(Out(g)) /\ emitted[g] + 1 >= GroupSize[g] /\ GroupSize[g] \in Nat
  BY <1>1, <1>5 DEF EmittedExact, CountOf, Counting, Whole
<1>10. toSchedule[g] = 0
  BY <1>1, <1>5, <1>7, <1>8, <1>9
<1> SUFFICES ASSUME NEW n \in Member, n[1] = g PROVE ~InBudget(n)
  OBVIOUS
<1>11. n[2] \in Nat \ {0}
  BY MemberParts
<1> QED
  BY <1>10, <1>11 DEF InBudget

-----------------------------------------------------------------------------
(* Emit-everything. *)

\* How a group stops being live.
LEMMA GroupsLeave ==
  ASSUME StateInv, [Next]_vars, NEW g \in groups, g \notin groups'
  PROVE \/ \E m \in Member : m[1] = g /\ EmitResult(m) /\ Whole(g)
        \/ \E m \in Member : m[1] = g /\ EmitMarker(m)
        \/ DropGroup(g)
        \/ BeginDraining \/ Stop
<1> USE DEF groupVars, taskVars, queueVars, controlVars, loopVars, watchVars
<1>1. \/ \E m \in Member : EmitResult(m) \/ EmitMarker(m)
      \/ \E h \in Group : OpenGroup(h) \/ DropGroup(h)
      \/ BeginDraining \/ Stop
  BY DEF Next, vars, DispatchLoop, Watcher, MainLoop, Env, ContinueGroup, SwitchToTrain,
         FillReturns, SelectClient, AcquirePermit, LaunchTask, Wake, HandledAll, EmittedAll,
         SkipClaimed, HandleTask, ResumePut, ResumeMarker, TakeRollout, MarkUnscheduled,
         FinishDrop, CancelsSettled, DropsDone, VersionInstalled, VersionPending, TriggerEval,
         CloseGate, OpenGate, KillLoop, FinishTask, AbortTask
<1>2. ASSUME NEW m \in Member, EmitResult(m) PROVE m[1] = g /\ Whole(g)
  BY <1>2 DEF EmitResult, CountEmitted
<1>3. ASSUME NEW m \in Member, EmitMarker(m) PROVE m[1] = g
  BY <1>3 DEF EmitMarker, CountEmitted
<1>4. ASSUME NEW h \in Group, OpenGroup(h) PROVE FALSE
  BY <1>4 DEF OpenGroup
<1>5. ASSUME NEW h \in Group, DropGroup(h) PROVE h = g
  BY <1>5 DEF DropGroup
<1> QED
  BY <1>1, <1>2, <1>3, <1>4, <1>5

\* What drop_group has not marked yet stays so until its second pass.
LEMMA UnmarkedKept ==
  ASSUME StateInv, [Next]_vars, NEW g, Unmarked(g), ~MarkUnscheduled
  PROVE Unmarked(g)'
<1>1. /\ wpc \in {"emit", "put"} => wpc' \in {"emit", "put"} \/ dropPass # "claimed"
      /\ wpc \in {"emit", "put"} => UNCHANGED <<dropPass, dropGroup>>
  BY DEF groupVars, taskVars, queueVars, controlVars, loopVars, watchVars,
         Next, vars, DispatchLoop, Watcher, MainLoop, Env, ContinueGroup, OpenGroup,
         SwitchToTrain, FillReturns, SelectClient, AcquirePermit, LaunchTask, Wake, HandledAll,
         EmittedAll, SkipClaimed, HandleTask, EmitResult, EmitMarker, ResumePut, ResumeMarker,
         TakeRollout, DropGroup, FinishDrop, CancelsSettled, DropsDone,
         VersionInstalled, VersionPending, TriggerEval, CloseGate, OpenGate, BeginDraining, Stop,
         KillLoop, FinishTask, AbortTask
<1>2. (\E h \in Group : DropGroup(h)) \/ dropFound' = dropFound
  BY Zenon DEF groupVars, taskVars, queueVars, controlVars, loopVars, watchVars,
         Next, vars, DispatchLoop, Watcher, MainLoop, Env, ContinueGroup, OpenGroup,
         SwitchToTrain, FillReturns, SelectClient, AcquirePermit, LaunchTask, Wake, HandledAll,
         EmittedAll, SkipClaimed, HandleTask, EmitResult, EmitMarker, ResumePut, ResumeMarker,
         TakeRollout, DropGroup, FinishDrop, CancelsSettled, DropsDone,
         VersionInstalled, VersionPending, TriggerEval, CloseGate, OpenGate, BeginDraining, Stop,
         KillLoop, FinishTask, AbortTask
<1>3. ASSUME NEW h \in Group, DropGroup(h) PROVE wpc = "drop"
  BY <1>3 DEF DropGroup
<1> QED
  BY <1>1, <1>2, <1>3 DEF Unmarked

\* Draining and stopping are never undone.
LEMMA FlagsStay ==
  ASSUME [Next]_vars
  PROVE (~trainDisabled' => ~trainDisabled) /\ (~stopped' => ~stopped)
        /\ (BeginDraining => trainDisabled') /\ (Stop => stopped')
<1>1. trainDisabled' = trainDisabled \/ BeginDraining
  BY Zenon DEF groupVars, taskVars, queueVars, controlVars, loopVars, watchVars,
         Next, vars, DispatchLoop, Watcher, MainLoop, Env, ContinueGroup, OpenGroup,
         SwitchToTrain, FillReturns, SelectClient, AcquirePermit, LaunchTask, Wake, HandledAll,
         EmittedAll, SkipClaimed, HandleTask, EmitResult, EmitMarker, ResumePut, ResumeMarker,
         TakeRollout, DropGroup, MarkUnscheduled, FinishDrop, CancelsSettled, DropsDone,
         VersionInstalled, VersionPending, TriggerEval, CloseGate, OpenGate, Stop,
         KillLoop, FinishTask, AbortTask
<1>2. stopped' = stopped \/ Stop
  BY Zenon DEF groupVars, taskVars, queueVars, controlVars, loopVars, watchVars,
         Next, vars, DispatchLoop, Watcher, MainLoop, Env, ContinueGroup, OpenGroup,
         SwitchToTrain, FillReturns, SelectClient, AcquirePermit, LaunchTask, Wake, HandledAll,
         EmittedAll, SkipClaimed, HandleTask, EmitResult, EmitMarker, ResumePut, ResumeMarker,
         TakeRollout, DropGroup, MarkUnscheduled, FinishDrop, CancelsSettled, DropsDone,
         VersionInstalled, VersionPending, TriggerEval, CloseGate, OpenGate, BeginDraining,
         KillLoop, FinishTask, AbortTask
<1>3. (BeginDraining => trainDisabled') /\ (Stop => stopped')
  BY Zenon DEF BeginDraining, Stop
<1> QED
  BY <1>1, <1>2, <1>3

LEMMA AllKeptStep == ASSUME StateInv, PlaceInv, KeptInv, [Next]_vars PROVE AllKept'
<1> SUFFICES ASSUME ~trainDisabled', ~stopped', NEW m \in Member, m[1] \in opened',
                    m \notin Placed'
             PROVE InBudget(m)' /\ (m[1] \in groups' \/ Unmarked(m[1])')
  BY DEF AllKept
<1> USE DEF KeptInv
<1>1. ~trainDisabled /\ ~stopped /\ ~BeginDraining /\ ~Stop
  BY FlagsStay
<1>2. CASE m[1] \notin opened
  <2>1. m[1] \in Group \ opened /\ UNCHANGED toSchedule /\ m[1] \in groups'
    BY <1>2, GroupsOpened
  <2>2. toSchedule[m[1]] = GroupSize[m[1]] /\ m[2] \in 1..GroupSize[m[1]]
    BY <2>1, MemberParts DEF StateInv, FreshGroups
  <2> QED
    BY <2>1, <2>2, MemberParts DEF InBudget
<1>3. CASE m[1] \in opened
  <2>1. m \notin Placed
    BY PlacedGrows
  <2>2. InBudget(m) /\ (m[1] \in groups \/ Unmarked(m[1]))
    BY <1>1, <1>3, <2>1 DEF AllKept
  <2>3. InBudget(m)'
    <3>1. acquiring' \subseteq Placed'
      BY DEF Placed
    <3> QED
      BY <2>2, <3>1, BudgetKept
  <2>4. ASSUME m[1] \in groups, m[1] \notin groups' PROVE Unmarked(m[1])'
    <3>1. ASSUME NEW n \in Member, n[1] = m[1], EmitResult(n), Whole(m[1]) PROVE FALSE
      <4>1. n \in hold /\ dpc = "emit"
        BY <3>1 DEF EmitResult
      <4> QED
        BY <1>1, <2>2, <2>4, <3>1, <4>1, WholeSpent
    <3>2. ASSUME NEW n \in Member, n[1] = m[1], EmitMarker(n) PROVE FALSE
      BY <2>4, <3>2 DEF EmitMarker, Emptied, PlaceInv, DropsFinal
    <3>3. DropGroup(m[1])
      BY <1>1, <2>4, <3>1, <3>2, GroupsLeave
    <3>4. wpc' = "emit" /\ dropPass' = "claimed" /\ m[1] \in dropGroup'
      BY <3>3 DEF DropGroup
    <3>5. dropFound'
      <4>1. dropFound' = (m[1] \in groups)
        BY <3>3, Zenon DEF DropGroup
      <4> QED
        BY <2>4, <4>1, Zenon
    <3> QED
      BY <3>4, <3>5 DEF Unmarked
  <2>5. ASSUME Unmarked(m[1]) PROVE Unmarked(m[1])'
    <3>1. ASSUME MarkUnscheduled PROVE FALSE
      <4>1. m[1] \in dropGroup /\ dropFound /\ dropping' = SecondPass
        BY <2>5, <3>1 DEF MarkUnscheduled, Unmarked
      <4>2. m \in Unscheduled(m[1])
        <5>1. m[2] \in Nat \ {0} /\ toSchedule[m[1]] \in Nat /\ m = <<m[1], m[2]>>
          <6>1. m[1] \in Group /\ m[2] \in Nat \ {0} /\ m = <<m[1], m[2]>>
            BY MemberParts
          <6>2. toSchedule \in [Group -> Nat]
            BY DEF StateInv, StateOK
          <6> QED
            BY <6>1, <6>2
        <5> QED
          BY <2>2, <5>1 DEF Unscheduled, InBudget
      <4>3. m \in dropping'
        BY <4>1, <4>2 DEF SecondPass
      <4> QED
        BY <4>3 DEF Placed
    <3> QED
      BY <2>5, <3>1, UnmarkedKept
  <2> QED
    BY <2>2, <2>3, <2>4, <2>5
<1> QED
  BY <1>2, <1>3

LEMMA KeptStart == Init => KeptInv
<1> SUFFICES ASSUME Init PROVE KeptInv
  OBVIOUS
<1>1. Emptied /\ HoldLive /\ LiveKept /\ AllKept
  BY DEF Init, Emptied, HoldLive, LiveKept, AllKept
<1>2. EmittedExact
  BY DEF Init, EmittedExact
<1> QED
  BY <1>1, <1>2 DEF KeptInv

LEMMA KeptInvariant == Spec => [](StateInv /\ PlaceInv /\ KeptInv)
<1>1. StateInv /\ PlaceInv /\ KeptInv /\ [Next]_vars => KeptInv'
  BY EmptiedStep, LiveKeptStep, AllKeptStep, HoldLiveStep, CountStep DEF KeptInv
<1> QED
  BY <1>1, KeptStart, PlacesInvariant, PTL DEF Spec

\* Until a drain or the shutdown, no rollout of an opened group is lost
\* between the loop, drop_group and out_q: what is not on its way waits in the
\* budget of a live group, or of the group whose budget drop_group is about to
\* mark.
THEOREM RolloutsKept == Spec => []NothingLost
<1>1. StateInv /\ KeptInv => NothingLost
  <2> SUFFICES ASSUME StateInv, KeptInv, ~trainDisabled, ~stopped,
                      NEW m \in Member, m[1] \in opened
               PROVE m \in Reachable \cup delivered \cup discarded
    BY Zenon DEF NothingLost
  <2> DEFINE Live == UNION {Unscheduled(g) : g \in groups}
             Dropped == UNION {Unscheduled(g) : g \in dropGroup}
             Marking == IF wpc \in {"emit", "put"} /\ dropPass = "claimed" /\ dropFound
                        THEN Dropped ELSE {}
  <2>1. Reachable = Live \cup Marking \cup acquiring \cup inflight \cup hold \cup dropping
                    \cup Queued
    BY Zenon DEF Reachable
  <2>2. ASSUME NEW g \in groups, m \in Unscheduled(g) PROVE m \in Live
    BY <2>2
  <2>3. ASSUME NEW g, Unmarked(g), m \in Unscheduled(g) PROVE m \in Marking
    <3>1. m \in Dropped
      BY <2>3 DEF Unmarked
    <3>2. Marking = Dropped
      BY <2>3, Zenon DEF Unmarked
    <3> QED
      BY <3>1, <3>2
  <2> HIDE DEF Live, Dropped, Marking
  <2>4. CASE m \in Placed
    BY <2>1, <2>4 DEF Placed
  <2>5. CASE m \notin Placed
    <3>1. InBudget(m) /\ (m[1] \in groups \/ Unmarked(m[1]))
      BY <2>5 DEF KeptInv, AllKept
    <3>2. m[2] \in Nat \ {0} /\ toSchedule[m[1]] \in Nat /\ m = <<m[1], m[2]>>
      <4>1. m[1] \in Group /\ m[2] \in Nat \ {0} /\ m = <<m[1], m[2]>>
        BY MemberParts
      <4>2. toSchedule \in [Group -> Nat]
        BY DEF StateInv, StateOK
      <4> QED
        BY <4>1, <4>2
    <3>3. m \in Unscheduled(m[1])
      BY <3>1, <3>2 DEF Unscheduled, InBudget
    <3> QED
      BY <2>1, <2>2, <2>3, <3>1, <3>3
  <2> QED
    BY <2>4, <2>5
<1> QED
  BY <1>1, KeptInvariant, PTL

\* self.groups keeps a group only while it owes a rollout: emit_rollout drops
\* it with its last member, counted by group.emitted.
THEOREM LiveGroupsOwe == Spec => []GroupOwes
<1>1. StateInv /\ PlaceInv /\ KeptInv => GroupOwes
  <2> SUFFICES ASSUME StateInv, PlaceInv, KeptInv, NEW g \in groups,
                      \A m \in Unscheduled(g) \cup acquiring \cup inflight \cup hold
                               \cup discarded : m[1] # g
               PROVE FALSE
    BY DEF GroupOwes
  <2> USE DEF KeptInv
  <2>1. g \in Group /\ emitted[g] \in Nat /\ toSchedule[g] \in Nat /\ GroupSize[g] \in Nat
    BY DEF StateInv, StateOK
  <2>2. Column(g) \subseteq Out(g)
    <3> SUFFICES ASSUME NEW m \in Member, m[1] = g PROVE m \in Queued \cup delivered
      BY DEF Column, Out
    <3>1. ~InBudget(m)
      <4>1. m[2] \in Nat \ {0} /\ m = <<m[1], m[2]>>
        BY MemberParts
      <4> SUFFICES ASSUME InBudget(m) PROVE FALSE
        OBVIOUS
      <4>2. m \in Unscheduled(g)
        BY <2>1, <4>1 DEF Unscheduled, InBudget
      <4> QED
        BY <4>2
    <3>2. m \notin dropping
      BY DEF Emptied, PlaceInv, DropsFinal
    <3> QED
      BY <3>1, <3>2 DEF LiveKept, Placed
  <2>3. GroupSize[g] <= Cardinality(Out(g)) /\ Cardinality(Out(g)) \in Nat
    <3>1. Cardinality(Column(g)) <= Cardinality(Out(g)) /\ Cardinality(Out(g)) \in Nat
      BY <2>2, OutCounted, FS_Subset
    <3> QED
      BY <2>1, <3>1, ColumnSize
  <2>4. Counting(g) \in Nat
    BY DEF Counting
  <2> QED
    BY <2>1, <2>3, <2>4 DEF EmittedExact, CountOf
<1> QED
  BY <1>1, KeptInvariant, PTL

=============================================================================
