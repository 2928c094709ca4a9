----------------------------- MODULE ElasticPool -----------------------------
(***************************************************************************)
(* The elastic inference pool (utils/elastic.py): inference servers come   *)
(* and go behind a DNS name, and each must hold the LoRA adapter of the    *)
(* current policy before a rollout is sent to it.                          *)
(*                                                                         *)
(* Two coroutines share the pool, one at a time under an asyncio.Lock: the *)
(* sync loop, which follows DNS and health and repairs adapters server by  *)
(* server, and the weight watcher's update_weights, which loads the new    *)
(* adapter on all servers in parallel.  Dispatching reads the pool outside *)
(* the lock, between any two of their awaits.  An adapter is the policy    *)
(* version it was broadcast for.  DNS and the servers are modelled from    *)
(* how the pool uses them.                                                 *)
(***************************************************************************)
EXTENDS Integers, FiniteSets

CONSTANTS
    Server,         \* server IPs
    MaxVersion,     \* bound: policy versions
    MaxFaults       \* bound: crashes, hangs, DNS removals and failures, and
                    \* calls that fail

ASSUME PoolAssumption ==
    /\ IsFiniteSet(Server)
    /\ MaxVersion \in Nat \ {0} /\ MaxFaults \in Nat

NoAdapter == 0

\* Outside: DNS and the servers.
VARIABLES
    dns,            \* the IPs the host name resolves to
    up,             \* servers that run and have the base model
    hung,           \* those that take a call and do not answer it
    adapter,        \* what is loaded on a server
    faults          \* bounds the faults

\* The pool.
VARIABLES
    status,         \* _servers: "absent" or the server's status
    desired,        \* _desired.step, NoAdapter for no adapter
    lock,           \* _lock: who holds it
    found,          \* sync: discovered_ips
    spc, todo,      \* sync: where it is, and the servers left to go through
    phase,          \* _sync_server_adapter of a server: which await it is at
    upc, unext,     \* update_weights: where it is, the version asked for
    version         \* policy.version

world == <<dns, up, hung, adapter>>
syncer == <<found, spc, todo>>
updater == <<upc, unext, version>>
vars == <<world, faults, status, desired, lock, syncer, phase, updater>>

Known == {s \in Server : status[s] # "absent"}

\* ready_urls: the servers a rollout may be sent to.
Exposed == {s \in Server : status[s] = "ready"}

Busy == {s \in Server : phase[s] # "none"}

Init ==
    /\ dns \in SUBSET Server /\ up = dns /\ hung = {}
    /\ adapter = [s \in Server |-> NoAdapter] /\ faults = 0
    /\ status = [s \in Server |-> "absent"] /\ desired = NoAdapter
    /\ lock = "free" /\ found = {} /\ spc = "idle" /\ todo = {}
    /\ phase = [s \in Server |-> "none"]
    /\ upc = "idle" /\ unext = 0 /\ version = 0

-----------------------------------------------------------------------------
(* DNS and the servers. *)

Fault == faults < MaxFaults /\ faults' = faults + 1

\* A server's IP is published: of a new server without an adapter, or of one
\* that was withdrawn and still has the adapter of then.
ServerJoins(s) ==
    /\ s \notin dns
    /\ dns' = dns \cup {s} /\ up' = up \cup {s}
    /\ UNCHANGED <<hung, adapter, faults, status, desired, lock, syncer, phase,
                   updater>>

\* The IP of a running server is withdrawn from DNS.
ServerLeaves(s) ==
    /\ s \in dns /\ Fault
    /\ dns' = dns \ {s}
    /\ UNCHANGED <<up, hung, adapter, status, desired, lock, syncer, phase, updater>>

\* A server goes down and its adapter with it; its IP may stay in DNS.
ServerCrashes(s) ==
    /\ s \in up /\ Fault
    /\ up' = up \ {s} /\ hung' = hung \ {s} /\ dns' \in {dns, dns \ {s}}
    /\ adapter' = [adapter EXCEPT ![s] = NoAdapter]
    /\ UNCHANGED <<status, desired, lock, syncer, phase, updater>>

\* A server whose IP is still published is started again.
ServerRestarts(s) ==
    /\ s \in dns \ up
    /\ up' = up \cup {s}
    /\ UNCHANGED <<dns, hung, adapter, faults, status, desired, lock, syncer, phase,
                   updater>>

\* A server stops answering, and perhaps goes on.
ServerHangs(s) ==
    /\ s \in up \ hung /\ Fault
    /\ hung' = hung \cup {s}
    /\ UNCHANGED <<dns, up, adapter, status, desired, lock, syncer, phase, updater>>

HangEnds(s) ==
    /\ s \in hung
    /\ hung' = hung \ {s}
    /\ UNCHANGED <<dns, up, adapter, faults, status, desired, lock, syncer, phase,
                   updater>>

-----------------------------------------------------------------------------
(* _sync_server_adapter, one server. *)

\* A call of the pool to a server: it fails if the server is down, and may
\* fail though it is up.  A hung server keeps the caller waiting, for the admin
\* clients have no timeout; only load_lora_adapter brings its own.
Returns(s) == s \notin hung
Answers(s) == s \in up /\ Returns(s) /\ UNCHANGED faults
Fails(s) == IF s \in up \ hung THEN Fault ELSE UNCHANGED faults
Silent(s) == Returns(s) /\ Fails(s)

\* Mutant of Matches: any adapter will do.
MatchesAny(loaded) == desired = NoAdapter \/ loaded # NoAdapter

\* _adapter_matches_desired.
Matches(loaded) == desired = NoAdapter \/ loaded = desired

Becomes(s, st, ph) ==
    /\ status' = [status EXCEPT ![s] = st]
    /\ phase' = [phase EXCEPT ![s] = ph]

\* The server is asked what it has loaded: ready, or in need of a load.  A
\* server that does not answer counts as one without an adapter.
PreCheck(s) ==
    /\ phase[s] = "pre" /\ Returns(s)
    /\ \E loaded \in {adapter[s], NoAdapter} :
         /\ IF loaded = NoAdapter /\ adapter[s] # NoAdapter
            THEN Silent(s) ELSE UNCHANGED faults
         /\ IF Matches(loaded) THEN Becomes(s, "ready", "none")
                               ELSE Becomes(s, "syncing", "load")
    /\ UNCHANGED <<world, desired, lock, syncer, updater>>

\* load_lora_adapter succeeds ...
Load(s) ==
    /\ phase[s] = "load" /\ Answers(s)
    /\ adapter' = [adapter EXCEPT ![s] = desired]
    /\ phase' = [phase EXCEPT ![s] = "post"]
    /\ UNCHANGED <<dns, up, hung, status, desired, lock, syncer, updater>>

\* ... or fails for good after its retries or its timeouts; the server may
\* have loaded the adapter all the same.
LoadFails(s) ==
    /\ phase[s] = "load" /\ Fails(s)
    /\ adapter' \in IF s \in up THEN {adapter, [adapter EXCEPT ![s] = desired]}
                   ELSE {adapter}
    /\ Becomes(s, "unhealthy", "none")
    /\ UNCHANGED <<dns, up, hung, desired, lock, syncer, updater>>

\* What the server says it has loaded is checked once more.
PostCheck(s) ==
    /\ phase[s] = "post" /\ Returns(s)
    /\ \E loaded \in {adapter[s], NoAdapter} :
         /\ IF loaded = NoAdapter /\ adapter[s] # NoAdapter
            THEN Silent(s) ELSE UNCHANGED faults
         /\ Becomes(s, IF Matches(loaded) THEN "ready" ELSE "unhealthy", "none")
    /\ UNCHANGED <<world, desired, lock, syncer, updater>>

AdapterSync(s) ==
    PreCheck(s) \/ Load(s) \/ LoadFails(s) \/ PostCheck(s)

-----------------------------------------------------------------------------
(* sync: the loop and wait_for_ready. *)

\* The lock is free, and nobody who waits for it came first.
Acquirable == lock = "free"

\* discover_server_ips: a name that cannot be resolved has no servers.
SyncBegins ==
    /\ spc = "idle" /\ Acquirable /\ upc # "waiting"
    /\ lock' = "sync"
    /\ \/ found' = dns /\ UNCHANGED faults
       \/ found' = {} /\ Fault
    /\ spc' = "add" /\ todo' = found' \ Known
    /\ UNCHANGED <<world, status, desired, phase, updater>>

\* A server that DNS has and the pool has not: added if healthy.
AddServer(s) ==
    /\ spc = "add" /\ s \in todo /\ Busy = {}
    /\ todo' = todo \ {s}
    /\ \/ Answers(s) /\ Becomes(s, "discovering", "pre")
       \/ Silent(s) /\ UNCHANGED <<status, phase>>
    /\ UNCHANGED <<world, desired, lock, found, spc, updater>>

DropsBegin ==
    /\ spc = "add" /\ todo = {} /\ Busy = {}
    /\ spc' = "drop" /\ todo' = Known \ found
    /\ UNCHANGED <<world, faults, status, desired, lock, found, phase, updater>>

\* A server that DNS has no longer.
RemoveServer(s) ==
    /\ spc = "drop" /\ s \in todo
    /\ todo' = todo \ {s}
    /\ status' = [status EXCEPT ![s] = "absent"]
    /\ UNCHANGED <<world, faults, desired, lock, found, spc, phase, updater>>

ChecksBegin ==
    /\ spc = "drop" /\ todo = {}
    /\ spc' = "check" /\ todo' = Known
    /\ UNCHANGED <<world, faults, status, desired, lock, found, phase, updater>>

\* Mutant of NeedsSync: only servers being set up are.
NeedsSyncOnce(s) == status[s] \in {"discovering", "syncing"}

\* A healthy server is synced again unless it is ready.
NeedsSync(s) == status[s] # "ready"

CheckServer(s) ==
    /\ spc = "check" /\ s \in todo /\ Busy = {}
    /\ todo' = todo \ {s}
    /\ \/ /\ Answers(s)
          /\ phase' = IF NeedsSync(s) THEN [phase EXCEPT ![s] = "pre"] ELSE phase
          /\ UNCHANGED status
       \/ /\ Silent(s)
          /\ status' = [status EXCEPT ![s] = "absent"]
          /\ UNCHANGED phase
    /\ UNCHANGED <<world, desired, lock, found, spc, updater>>

SyncEnds ==
    /\ spc = "check" /\ todo = {} /\ Busy = {}
    /\ spc' = "idle" /\ lock' = "free" /\ found' = {}
    /\ UNCHANGED <<world, faults, status, desired, todo, phase, updater>>

Sync ==
    \/ SyncBegins \/ DropsBegin \/ ChecksBegin \/ SyncEnds
    \/ \E s \in Server : AddServer(s) \/ RemoveServer(s) \/ CheckServer(s)

-----------------------------------------------------------------------------
(* update_weights, called by the watcher for a newer version. *)

UpdateAsked ==
    /\ upc = "idle"
    /\ \E v \in (version + 1)..MaxVersion : unext' = v
    /\ upc' = "waiting"
    /\ UNCHANGED <<world, faults, status, desired, lock, syncer, phase, version>>

\* sync_weights holds the lock: the servers are synced in parallel.
UpdateBegins ==
    /\ upc = "waiting" /\ Acquirable
    /\ lock' = "update" /\ desired' = unext /\ upc' = "syncing"
    /\ phase' = [s \in Server |-> IF s \in Known THEN "pre" ELSE "none"]
    /\ UNCHANGED <<world, faults, status, syncer, unext, version>>

\* All servers are through, whatever came of them: gather raises nothing.
Gathered == upc = "syncing" /\ Busy = {}

UpdateEnds ==
    /\ Gathered
    /\ lock' = "free" /\ upc' = "idle" /\ version' = unext
    /\ UNCHANGED <<world, faults, status, desired, syncer, phase, unext>>

Update == UpdateBegins \/ UpdateEnds

-----------------------------------------------------------------------------
Environment ==
    \E s \in Server :
        \/ ServerJoins(s) \/ ServerLeaves(s) \/ ServerCrashes(s) \/ ServerRestarts(s)
        \/ ServerHangs(s) \/ HangEnds(s)

Next ==
    \/ Sync \/ UpdateAsked \/ Update \/ Environment
    \/ \E s \in Server : AdapterSync(s)

Spec == Init /\ [][Next]_vars

\* The event loop runs the coroutines, and a call to a server that is not hung
\* ends, as does every load.  Nothing is assumed of servers, of whether a hang
\* ends, of DNS or of new versions.
FairSpec ==
    /\ Spec /\ WF_vars(Sync) /\ WF_vars(Update)
    /\ \A s \in Server : WF_vars(AdapterSync(s))

-----------------------------------------------------------------------------
(* Properties. *)

\* Every variable has its type; the lock is with who is at work, and servers
\* are synced one by one by the sync loop only.
TypeOK ==
    /\ dns \subseteq Server /\ up \subseteq Server /\ hung \subseteq up
    /\ found \subseteq Server
    /\ adapter \in [Server -> 0..MaxVersion] /\ faults \in 0..MaxFaults
    /\ status \in [Server ->
         {"absent", "discovering", "syncing", "ready", "unhealthy"}]
    /\ phase \in [Server -> {"none", "pre", "load", "post"}]
    /\ desired \in 0..MaxVersion /\ version \in 0..MaxVersion
    /\ unext \in 0..MaxVersion /\ todo \subseteq Server
    /\ lock \in {"free", "sync", "update"}
    /\ spc \in {"idle", "add", "drop", "check"}
    /\ upc \in {"idle", "waiting", "syncing"}
    /\ (lock = "sync") <=> (spc # "idle")
    /\ (lock = "update") <=> (upc = "syncing")
    /\ lock # "update" => \A s, t \in Busy : s = t

\* Whenever the dispatcher looks, a server it may pick serves policy.version,
\* or the version update_weights is about to make it where that has come to
\* the server already; in no case another one.  The exception is a server that
\* restarted since it was found ready and has no adapter at all (the health
\* check does not ask for one).
ExposedServesPolicy ==
    \A s \in Exposed : adapter[s] \in
        {NoAdapter,
         IF lock = "update" /\ phase[s] = "none" THEN unext ELSE version}

\* A server that stays up and published ends up exposed for good, whatever
\* failed before, if no server hangs for ever: no failed load, missed update,
\* restart, failed look-up or hang that ends shuts it out.  One server that
\* hangs for ever shuts out all others, which without the premise TLC shows:
\* the health check or the query of its adapter keeps the lock.
HealthyBecomesReady ==
    <>[](hung = {}) =>
        \A s \in Server : <>[](s \in dns \cap up) => <>[](s \in Exposed)

=============================================================================
