-------------------------- MODULE ElasticPoolProofs --------------------------
(***************************************************************************)
(* Proof that a server the dispatcher may pick never serves a wrong        *)
(* policy, for any servers, number of versions and faults.                 *)
(***************************************************************************)
EXTENDS ElasticPool, TLAPS

\* The functions are functions, and versions are numbers.
Shapes ==
    /\ status \in [Server ->
         {"absent", "discovering", "syncing", "ready", "unhealthy"}]
    /\ phase \in [Server -> {"none", "pre", "load", "post"}]
    /\ adapter \in [Server -> Nat]
    /\ desired \in Nat /\ version \in Nat /\ unext \in Nat

\* Who holds the lock, and what is asked of the servers meanwhile.
LockInv ==
    /\ lock \in {"free", "sync", "update"}
    /\ (lock = "sync") <=> (spc # "idle")
    /\ (lock = "update") <=> (upc = "syncing")
    /\ lock = "free" => Busy = {}
    /\ desired = IF lock = "update" THEN unext ELSE version
    /\ upc # "idle" => unext > version

\* A server under repair is not exposed, except while update_weights has not
\* asked it yet.
RepairInv ==
    \A s \in Server :
        /\ phase[s] \in {"load", "post"} => status[s] # "ready"
        /\ phase[s] # "none" /\ lock # "update" => status[s] # "ready"

\* Before the first adapter nobody has one: a server is then ready as it is.
FirstInv == desired = NoAdapter => \A s \in Server : adapter[s] = NoAdapter

PoolInv == Shapes /\ LockInv /\ RepairInv /\ FirstInv /\ ExposedServesPolicy

\* The pool starts without servers.
LEMMA PoolInit == Init => PoolInv
  BY PoolAssumption DEF Init, PoolInv, Shapes, LockInv, RepairInv, FirstInv,
     ExposedServesPolicy, Exposed, Busy, NoAdapter

\* An adapter found to match is the one the exposed server must have.
LEMMA MatchIsDesired ==
    ASSUME PoolInv, NEW s \in Server, NEW loaded \in {adapter[s], NoAdapter},
           Matches(loaded)
    PROVE  adapter[s] = desired
  BY DEF PoolInv, Shapes, FirstInv, Matches, NoAdapter

\* The checks of one server.
LEMMA CheckStep ==
    ASSUME PoolInv, NEW s \in Server, PreCheck(s) \/ PostCheck(s)
    PROVE  PoolInv'
<1>1. PICK st \in {"ready", "syncing", "unhealthy"}, ph \in {"none", "load"} :
        /\ Becomes(s, st, ph) /\ phase[s] # "none"
        /\ UNCHANGED <<world, desired, lock, syncer, updater>>
        /\ st = "ready" => ph = "none" /\ adapter[s] = desired
  <2>1. CASE PreCheck(s)
    <3>1. PICK loaded \in {adapter[s], NoAdapter} :
            IF Matches(loaded) THEN Becomes(s, "ready", "none")
                               ELSE Becomes(s, "syncing", "load")
      BY <2>1 DEF PreCheck
    <3>2. CASE Matches(loaded)
      BY <2>1, <3>1, <3>2, MatchIsDesired DEF PreCheck
    <3>3. CASE ~Matches(loaded)
      BY <2>1, <3>1, <3>3 DEF PreCheck
    <3> QED BY <3>2, <3>3
  <2>2. CASE PostCheck(s)
    <3>1. PICK loaded \in {adapter[s], NoAdapter} :
            Becomes(s, IF Matches(loaded) THEN "ready" ELSE "unhealthy", "none")
      BY <2>2 DEF PostCheck
    <3>2. CASE Matches(loaded)
      BY <2>2, <3>1, <3>2, MatchIsDesired DEF PostCheck
    <3>3. CASE ~Matches(loaded)
      BY <2>2, <3>1, <3>3 DEF PostCheck
    <3> QED BY <3>2, <3>3
  <2> QED BY <2>1, <2>2
<1>2. Shapes' BY <1>1 DEF PoolInv, Shapes, Becomes, world, updater
<1>3. LockInv'
  <2>1. s \in Busy BY <1>1 DEF Busy
  <2> QED BY <1>1, <2>1 DEF PoolInv, LockInv, Becomes, syncer, updater, Busy
<1>4. RepairInv' BY <1>1 DEF PoolInv, Shapes, RepairInv, Becomes
<1>5. FirstInv' BY <1>1 DEF PoolInv, FirstInv, world
<1>6. ExposedServesPolicy'
  BY <1>1 DEF PoolInv, Shapes, LockInv, ExposedServesPolicy, Exposed, Becomes,
     world, updater
<1> QED BY <1>2, <1>3, <1>4, <1>5, <1>6 DEF PoolInv

\* A load, that succeeds or not, is of a server that is not exposed.
LEMMA LoadStep ==
    ASSUME PoolInv, NEW s \in Server, Load(s) \/ LoadFails(s)
    PROVE  PoolInv'
<1>1. PICK st \in {status[s], "unhealthy"}, ph \in {"post", "none"} :
        /\ Becomes(s, st, ph) /\ phase[s] = "load"
        /\ adapter' \in {adapter, [adapter EXCEPT ![s] = desired]}
        /\ UNCHANGED <<desired, lock, syncer, updater>>
  <2>1. CASE Load(s)
    <3>1. status' = [status EXCEPT ![s] = status[s]]
      BY <2>1 DEF Load, PoolInv, Shapes
    <3> QED BY <2>1, <3>1 DEF Load, Becomes
  <2>2. CASE LoadFails(s) BY <2>2 DEF LoadFails
  <2> QED BY <2>1, <2>2
<1>2. status[s] # "ready" /\ st # "ready"
  BY <1>1 DEF PoolInv, RepairInv
<1>3. Shapes' BY <1>1 DEF PoolInv, Shapes, Becomes, updater
<1>4. LockInv'
  <2>1. s \in Busy BY <1>1 DEF Busy
  <2> QED BY <1>1, <2>1 DEF PoolInv, LockInv, Becomes, syncer, updater, Busy
<1>5. RepairInv' BY <1>1, <1>2 DEF PoolInv, Shapes, RepairInv, Becomes
<1>6. FirstInv' BY <1>1 DEF PoolInv, Shapes, FirstInv, NoAdapter
<1>7. ExposedServesPolicy'
  BY <1>1, <1>2 DEF PoolInv, Shapes, ExposedServesPolicy, Exposed, Becomes, updater
<1> QED BY <1>3, <1>4, <1>5, <1>6, <1>7 DEF PoolInv

\* What DNS and the servers do: adapters only vanish.
LEMMA WorldStep ==
    ASSUME PoolInv, Environment
    PROVE  PoolInv'
<1>1. /\ UNCHANGED <<status, desired, lock, syncer, phase, updater>>
      /\ \/ UNCHANGED adapter
         \/ \E s \in Server : adapter' = [adapter EXCEPT ![s] = NoAdapter]
  BY DEF Environment, ServerJoins, ServerLeaves, ServerCrashes, ServerRestarts,
     ServerHangs, HangEnds
<1>2. Shapes' BY <1>1 DEF PoolInv, Shapes, updater, NoAdapter
<1>3. LockInv' BY <1>1 DEF PoolInv, LockInv, syncer, updater, Busy
<1>4. RepairInv' BY <1>1 DEF PoolInv, RepairInv
<1>5. FirstInv' BY <1>1 DEF PoolInv, Shapes, FirstInv
<1>6. ExposedServesPolicy'
  BY <1>1 DEF PoolInv, Shapes, ExposedServesPolicy, Exposed, updater
<1> QED BY <1>2, <1>3, <1>4, <1>5, <1>6 DEF PoolInv

\* The sync loop.
LEMMA SyncStep ==
    ASSUME PoolInv, Sync
    PROVE  PoolInv'
<1>1. CASE SyncBegins
  BY <1>1 DEF SyncBegins, Acquirable, PoolInv, Shapes, LockInv, RepairInv,
     FirstInv, ExposedServesPolicy, Exposed, Busy, world, updater
<1>2. CASE DropsBegin \/ ChecksBegin
  BY <1>2 DEF DropsBegin, ChecksBegin, PoolInv, Shapes, LockInv, RepairInv,
     FirstInv, ExposedServesPolicy, Exposed, Busy, world, updater
<1>3. CASE SyncEnds
  BY <1>3 DEF SyncEnds, PoolInv, Shapes, LockInv, RepairInv,
     FirstInv, ExposedServesPolicy, Exposed, Busy, world, updater
<1>4. ASSUME NEW s \in Server, AddServer(s) \/ RemoveServer(s) \/ CheckServer(s)
      PROVE  PoolInv'
  <2>1. /\ lock = "sync" /\ lock' = "sync" /\ spc' = spc /\ spc # "idle"
        /\ UNCHANGED <<adapter, desired, updater>>
    BY <1>4 DEF AddServer, RemoveServer, CheckServer, PoolInv, LockInv, world
  <2>2. \/ status' = [status EXCEPT ![s] = "absent"] /\ phase' = phase
        \/ status' = [status EXCEPT ![s] = "discovering"]
           /\ phase' = [phase EXCEPT ![s] = "pre"]
        \/ status' = status /\ phase' = phase
        \/ /\ status' = status /\ status[s] # "ready"
           /\ phase' = [phase EXCEPT ![s] = "pre"]
    BY <1>4 DEF AddServer, RemoveServer, CheckServer, Becomes, NeedsSync
  <2>3. Shapes' BY <2>1, <2>2 DEF PoolInv, Shapes, updater
  <2>4. LockInv' BY <2>1 DEF PoolInv, LockInv, updater
  <2>5. RepairInv' BY <2>1, <2>2 DEF PoolInv, Shapes, RepairInv
  <2>6. FirstInv' BY <2>1 DEF PoolInv, FirstInv
  <2>7. ExposedServesPolicy'
    BY <2>1, <2>2 DEF PoolInv, Shapes, ExposedServesPolicy, Exposed, updater
  <2> QED BY <2>3, <2>4, <2>5, <2>6, <2>7 DEF PoolInv
<1> QED BY <1>1, <1>2, <1>3, <1>4 DEF Sync

\* update_weights.
LEMMA UpdateStep ==
    ASSUME PoolInv, UpdateAsked \/ Update
    PROVE  PoolInv'
<1>1. CASE UpdateAsked
  <2>1. upc = "idle" /\ upc' = "waiting" /\ unext' \in Nat /\ unext' > version
        /\ UNCHANGED <<world, status, desired, lock, syncer, phase, version>>
    BY <1>1 DEF UpdateAsked, PoolInv, Shapes
  <2> QED
    BY <2>1 DEF PoolInv, Shapes, LockInv, RepairInv, FirstInv,
       ExposedServesPolicy, Exposed, Busy, world, syncer
<1>2. CASE UpdateBegins
  <2>1. /\ lock = "free" /\ lock' = "update" /\ desired' = unext
        /\ upc = "waiting" /\ upc' = "syncing"
        /\ phase' = [s \in Server |-> IF s \in Known THEN "pre" ELSE "none"]
        /\ UNCHANGED <<world, status, syncer, unext, version>>
    BY <1>2 DEF UpdateBegins, Acquirable
  <2>2. unext > 0 BY <2>1 DEF PoolInv, Shapes, LockInv
  <2>3. Shapes' BY <2>1 DEF PoolInv, Shapes, world
  <2>4. LockInv' BY <2>1 DEF PoolInv, LockInv, syncer
  <2>5. RepairInv' BY <2>1 DEF PoolInv, RepairInv, Known
  <2>6. FirstInv' BY <2>1, <2>2 DEF FirstInv, NoAdapter
  <2>7. ExposedServesPolicy'
    BY <2>1 DEF PoolInv, Shapes, LockInv, ExposedServesPolicy, Exposed, Known, world
  <2> QED BY <2>3, <2>4, <2>5, <2>6, <2>7 DEF PoolInv
<1>3. CASE UpdateEnds
  BY <1>3 DEF UpdateEnds, Gathered, PoolInv, Shapes, LockInv, RepairInv,
     FirstInv, ExposedServesPolicy, Exposed, Busy, world, syncer
<1> QED BY <1>1, <1>2, <1>3 DEF Update

\* Every step keeps the invariant.
LEMMA PoolStep == PoolInv /\ [Next]_vars => PoolInv'
<1> SUFFICES ASSUME PoolInv, [Next]_vars PROVE PoolInv' OBVIOUS
<1>1. CASE UNCHANGED vars
  BY <1>1 DEF vars, world, syncer, updater, PoolInv, Shapes, LockInv, RepairInv,
     FirstInv, ExposedServesPolicy, Exposed, Busy
<1>2. CASE Next
  BY <1>2, CheckStep, LoadStep, WorldStep, SyncStep, UpdateStep
  DEF Next, AdapterSync
<1> QED BY <1>1, <1>2

\* A server the dispatcher may pick serves policy.version, or the version
\* being installed: the lock, and the check of each server's own answer, keep
\* the sync loop, update_weights and servers that come back from exposing one
\* left at another version.
THEOREM ExposedServersServePolicy == Spec => []ExposedServesPolicy
<1>1. PoolInv => ExposedServesPolicy BY DEF PoolInv
<1> QED BY <1>1, PoolInit, PoolStep, PTL DEF Spec

-----------------------------------------------------------------------------
(* Types.  What PoolInv says of them is used; the rest is here. *)

Ranges ==
    /\ dns \subseteq Server /\ up \subseteq Server /\ hung \subseteq up
    /\ found \subseteq Server
    /\ todo \subseteq Server /\ faults \in 0..MaxFaults
    /\ adapter \in [Server -> 0..MaxVersion] /\ desired \in 0..MaxVersion
    /\ version \in 0..MaxVersion /\ unext \in 0..MaxVersion
    /\ spc \in {"idle", "add", "drop", "check"}
    /\ upc \in {"idle", "waiting", "syncing"}

OneByOne == lock # "update" => \A s, t \in Busy : s = t

TypeInv == PoolInv /\ Ranges /\ OneByOne

LEMMA TypeInit == Init => TypeInv
<1> SUFFICES ASSUME Init PROVE TypeInv OBVIOUS
<1>1. Ranges
  <2>1. dns \subseteq Server /\ up = dns /\ hung = {} BY DEF Init
  <2> QED BY <2>1, PoolAssumption DEF Init, Ranges, NoAdapter
<1>2. OneByOne BY DEF Init, OneByOne, Busy
<1> QED BY <1>1, <1>2, PoolInit DEF TypeInv

\* A fault is counted only below the bound.
LEMMA FaultCounted ==
    ASSUME Ranges, Fault \/ UNCHANGED faults
    PROVE  faults' \in 0..MaxFaults
  BY PoolAssumption DEF Ranges, Fault

LEMMA AdapterSyncTypes ==
    ASSUME TypeInv, NEW s \in Server, AdapterSync(s)
    PROVE  Ranges' /\ OneByOne'
<1>1. /\ UNCHANGED <<dns, up, hung, desired, lock, syncer, updater>>
      /\ adapter' \in {adapter, [adapter EXCEPT ![s] = desired]}
  BY DEF AdapterSync, PreCheck, Load, LoadFails, PostCheck, world
<1>2. Fault \/ UNCHANGED faults
  BY DEF AdapterSync, PreCheck, Load, LoadFails, PostCheck, Answers, Fails, Silent
<1>3. faults' \in 0..MaxFaults
  BY <1>2, FaultCounted DEF TypeInv
<1>4. Ranges'
  BY <1>1, <1>3 DEF TypeInv, Ranges, syncer, updater
<1>5. s \in Busy
  BY DEF AdapterSync, PreCheck, Load, LoadFails, PostCheck, Busy
<1>6. \E ph \in {"none", "load", "post"} : phase' = [phase EXCEPT ![s] = ph]
  <2>1. CASE PreCheck(s) BY <2>1 DEF PreCheck, Becomes
  <2>2. CASE Load(s) \/ LoadFails(s) BY <2>2 DEF Load, LoadFails, Becomes
  <2>3. CASE PostCheck(s) BY <2>3 DEF PostCheck, Becomes
  <2> QED BY <2>1, <2>2, <2>3 DEF AdapterSync
<1>7. Busy' \subseteq Busy
  BY <1>5, <1>6 DEF Busy, TypeInv, PoolInv, Shapes
<1>8. OneByOne'
  BY <1>1, <1>7 DEF TypeInv, OneByOne
<1> QED BY <1>4, <1>8

LEMMA WorldTypes ==
    ASSUME TypeInv, Environment
    PROVE  Ranges' /\ OneByOne'
<1>1. PICK s \in Server :
        \/ ServerJoins(s) \/ ServerLeaves(s) \/ ServerCrashes(s) \/ ServerRestarts(s)
        \/ ServerHangs(s) \/ HangEnds(s)
  BY DEF Environment
<1>2. Fault \/ UNCHANGED faults
  BY <1>1 DEF ServerJoins, ServerLeaves, ServerCrashes, ServerRestarts, ServerHangs, HangEnds
<1>3. faults' \in 0..MaxFaults
  BY <1>2, FaultCounted DEF TypeInv
<1>4. /\ dns' \in {dns, dns \cup {s}, dns \ {s}} /\ up' \in {up, up \cup {s}, up \ {s}}
      /\ adapter' \in {adapter, [adapter EXCEPT ![s] = NoAdapter]}
      /\ UNCHANGED <<desired, lock, syncer, phase, updater>>
  BY <1>1 DEF ServerJoins, ServerLeaves, ServerCrashes, ServerRestarts, ServerHangs, HangEnds
<1>7. hung' \subseteq up'
  BY <1>1 DEF ServerJoins, ServerLeaves, ServerCrashes, ServerRestarts, ServerHangs, HangEnds,
     TypeInv, Ranges
<1>5. dns' \subseteq Server /\ up' \subseteq Server
  BY <1>4 DEF TypeInv, Ranges
<1>6. adapter' \in [Server -> 0..MaxVersion]
  BY <1>4, PoolAssumption DEF TypeInv, Ranges, NoAdapter
<1> QED
  BY <1>3, <1>4, <1>5, <1>6, <1>7 DEF TypeInv, Ranges, OneByOne, Busy, syncer, updater

LEMMA SyncTypes ==
    ASSUME TypeInv, Sync
    PROVE  Ranges' /\ OneByOne'
<1>1. CASE SyncBegins \/ DropsBegin \/ ChecksBegin \/ SyncEnds
  <2>1. /\ UNCHANGED <<world, desired, phase, updater>>
        /\ Fault \/ UNCHANGED faults
        /\ lock # "update" /\ lock' # "update"
        /\ spc' \in {"idle", "add", "drop", "check"}
        /\ found' \in {dns, found, {}}
        /\ todo' \in {todo, dns \ Known, {}, Known \ found, Known}
    BY <1>1 DEF SyncBegins, DropsBegin, ChecksBegin, SyncEnds, Acquirable,
       TypeInv, PoolInv, LockInv
  <2>2. found' \subseteq Server /\ todo' \subseteq Server
    BY <2>1 DEF TypeInv, Ranges, Known
  <2>3. faults' \in 0..MaxFaults
    BY <2>1, FaultCounted DEF TypeInv
  <2> QED
    BY <2>1, <2>2, <2>3 DEF TypeInv, Ranges, OneByOne, Busy, world, updater
<1>2. ASSUME NEW s \in Server, AddServer(s) \/ RemoveServer(s) \/ CheckServer(s)
      PROVE  Ranges' /\ OneByOne'
  <2>1. /\ UNCHANGED <<world, desired, lock, found, spc, updater>>
        /\ todo' = todo \ {s} /\ (Fault \/ UNCHANGED faults)
        /\ \/ UNCHANGED phase
           \/ Busy = {} /\ phase' = [phase EXCEPT ![s] = "pre"]
    BY <1>2 DEF AddServer, RemoveServer, CheckServer, Answers, Silent, Fails, Becomes
  <2>2. faults' \in 0..MaxFaults
    BY <2>1, FaultCounted DEF TypeInv
  <2>3. Ranges'
    BY <2>1, <2>2 DEF TypeInv, Ranges, world, updater
  <2>4. OneByOne'
    BY <2>1 DEF TypeInv, OneByOne, PoolInv, Shapes, Busy
  <2> QED BY <2>3, <2>4
<1> QED BY <1>1, <1>2 DEF Sync

LEMMA UpdateTypes ==
    ASSUME TypeInv, UpdateAsked \/ Update
    PROVE  Ranges' /\ OneByOne'
<1>1. /\ UNCHANGED <<world, faults, syncer>>
      /\ desired' \in {desired, unext} /\ version' \in {version, unext}
      /\ upc' \in {"idle", "waiting", "syncing"}
  BY DEF UpdateAsked, Update, UpdateBegins, UpdateEnds, Gathered, updater
<1>2. unext' \in 0..MaxVersion
  <2>1. CASE UpdateAsked
    BY <2>1, PoolAssumption DEF UpdateAsked, TypeInv, Ranges
  <2>2. CASE Update
    BY <2>2 DEF Update, UpdateBegins, UpdateEnds, TypeInv, Ranges
  <2> QED BY <2>1, <2>2
<1>3. Ranges'
  BY <1>1, <1>2 DEF TypeInv, Ranges, world, syncer
<1>4. OneByOne'
  <2>1. CASE UpdateAsked BY <2>1 DEF UpdateAsked, TypeInv, OneByOne, Busy
  <2>2. CASE UpdateBegins BY <2>2 DEF UpdateBegins, OneByOne
  <2>3. CASE UpdateEnds BY <2>3 DEF UpdateEnds, Gathered, OneByOne, Busy
  <2> QED BY <2>1, <2>2, <2>3 DEF Update
<1> QED BY <1>3, <1>4

LEMMA TypeStep == TypeInv /\ [Next]_vars => TypeInv'
<1> SUFFICES ASSUME TypeInv, [Next]_vars PROVE TypeInv' OBVIOUS
<1>1. PoolInv' BY PoolStep DEF TypeInv
<1>2. Ranges' /\ OneByOne'
  <2>1. CASE UNCHANGED vars
    BY <2>1 DEF vars, world, syncer, updater, TypeInv, Ranges, OneByOne, Busy
  <2>2. CASE Next
    BY <2>2, AdapterSyncTypes, WorldTypes, SyncTypes, UpdateTypes DEF Next
  <2> QED BY <2>1, <2>2
<1> QED BY <1>1, <1>2 DEF TypeInv

\* The pool's state keeps its types, the lock is with the coroutine at work,
\* and outside update_weights servers are repaired one by one
\* (utils/elastic.py sync and sync_weights).
THEOREM TypeCorrect == Spec => []TypeOK
<1>1. TypeInv => TypeOK
  BY DEF TypeInv, PoolInv, Shapes, LockInv, Ranges, OneByOne, TypeOK
<1> QED BY <1>1, TypeInit, TypeStep, PTL DEF Spec

=============================================================================
