-------------------------- MODULE DiscoverResolver --------------------------
(***************************************************************************)
(* The node map of a single-replica-set redis (DiscoverResolverClient,    *)
(* src/core/stores/redis/redisclustermanager.go) and the go-redis         *)
(* ClusterClient view it feeds through onUpdate.  The servers at the      *)
(* configured addresses fail over, crash, come back and restart (a        *)
(* restart gives a new run_id); the refresh goroutine rescans them on     *)
(* every tick and merges the result into NodeMap, keyed by run_id.        *)
(***************************************************************************)
EXTENDS Naturals, FiniteSets

CONSTANTS
    Servers,      \* the addresses LookupHost returns for the configured hosts
    RunIds,       \* run_id values a server process can have
    MaxEnvSteps,  \* bound: failovers, crashes, recoveries and restarts
    MaxRestarts   \* bound: restarts among them

ASSUME MaxEnvSteps \in Nat /\ MaxRestarts \in Nat

Roles == {"master", "slave"}
None == [addr |-> "none", role |-> "none"]
NodeInfo == [addr : Servers, role : Roles]
NodeMaps == [RunIds -> NodeInfo \cup {None}]

VARIABLES
    srv,       \* [Servers -> [up, rid, role]]: the redis processes
    envSteps,  \* environment steps taken
    restarts,  \* restarts taken
    nodeMap,   \* client.NodeMap
    loop,      \* the refresh goroutine: pc, newNodeMap, oldNodeMap, ...
    onUpdate,  \* client.onUpdate has been set by getCluster
    view       \* the masters and slaves the ClusterClient last loaded

vars == <<srv, envSteps, restarts, nodeMap, loop, onUpdate, view>>

\* GetClusterNodes (lines 184-203): masters first, then slaves.
ClusterNodes(m) ==
    [r \in Roles |-> {m[id].addr : id \in {x \in RunIds : m[x].role = r}}]

\* Mutant of Info: an entry is stored although no role line was parsed.
InfoUnparsed(a) == [addr |-> a, role |-> ""]

\* What INFO on the address returns, as far as GetNodeMap uses it
\* (lines 216-237: run_id and role parsed, port kept).
Info(a) == [addr |-> a, role |-> srv[a].role]

-----------------------------------------------------------------------------
(* NewDiscoverResolverClient (lines 252-261): GetNodeMap under the lock.  *)
(* getCluster has not set onUpdate yet, so nothing is reloaded.           *)
Init ==
    /\ \E ids \in [Servers -> RunIds] :
          /\ \A a, b \in Servers : a # b => ids[a] # ids[b]
          /\ \E m \in Servers :
                srv = [a \in Servers |-> [up |-> TRUE, rid |-> ids[a],
                                          role |-> IF a = m THEN "master" ELSE "slave"]]
    /\ nodeMap = [r \in RunIds |->
                    IF \E a \in Servers : srv[a].rid = r
                    THEN Info(CHOOSE a \in Servers : srv[a].rid = r) ELSE None]
    /\ envSteps = 0
    /\ restarts = 0
    /\ loop = [pc |-> "idle", toScan |-> {}, new |-> [r \in RunIds |-> None],
               old |-> [r \in RunIds |-> None], toPrune |-> {}, updated |-> FALSE]
    /\ onUpdate = FALSE
    /\ view = [r \in Roles |-> {}]

-----------------------------------------------------------------------------
(* Environment.  Sentinel promotes a slave that is up; a server crashes, *)
(* comes back with its run_id (a partition heals) or restarts with a new *)
(* run_id.                                                                *)
Env(a, s) ==
    /\ envSteps < MaxEnvSteps
    /\ envSteps' = envSteps + 1
    /\ srv' = [srv EXCEPT ![a] = s]
    /\ UNCHANGED <<nodeMap, loop, onUpdate, view>>

Failover(a) ==
    /\ srv[a].up /\ srv[a].role = "slave"
    /\ envSteps < MaxEnvSteps
    /\ envSteps' = envSteps + 1
    /\ srv' = [b \in Servers |-> [srv[b] EXCEPT !.role = IF b = a THEN "master" ELSE "slave"]]
    /\ UNCHANGED <<restarts, nodeMap, loop, onUpdate, view>>

Crash(a) == srv[a].up /\ Env(a, [srv[a] EXCEPT !.up = FALSE]) /\ UNCHANGED restarts

Recover(a) == ~srv[a].up /\ Env(a, [srv[a] EXCEPT !.up = TRUE]) /\ UNCHANGED restarts

Restart(a) ==
    /\ restarts < MaxRestarts
    /\ restarts' = restarts + 1
    /\ \E r \in RunIds \ {srv[b].rid : b \in Servers} :
          Env(a, [srv[a] EXCEPT !.up = TRUE, !.rid = r])

-----------------------------------------------------------------------------
(* getCluster (lines 101-126): onUpdate is set under the lock, then the  *)
(* first command (InfoMap) makes the ClusterClient load its state via    *)
(* ClusterSlots, i.e. GetClusterNodes.                                   *)
SetOnUpdate ==
    /\ ~onUpdate
    /\ onUpdate' = TRUE
    /\ view' = ClusterNodes(nodeMap)
    /\ UNCHANGED <<srv, envSteps, restarts, nodeMap, loop>>

(* A tick: GetNodeMap queries each address in turn (lines 205-244).      *)
Tick ==
    /\ loop.pc = "idle"
    /\ loop' = [loop EXCEPT !.pc = "scan", !.toScan = Servers,
                            !.new = [r \in RunIds |-> None], !.updated = FALSE]
    /\ UNCHANGED <<srv, envSteps, restarts, nodeMap, onUpdate, view>>

\* Mutant of Scan: the INFO error is not checked, the old reply is used.
ScanIgnoringError(a) ==
    /\ loop.pc = "scan"
    /\ a \in loop.toScan
    /\ loop' = [loop EXCEPT !.toScan = @ \ {a}, !.new = [@ EXCEPT ![srv[a].rid] = Info(a)]]
    /\ UNCHANGED <<srv, envSteps, restarts, nodeMap, onUpdate, view>>

\* INFO fails on a server that is down: it is left out of the new map.
Scan(a) ==
    /\ loop.pc = "scan"
    /\ a \in loop.toScan
    /\ loop' = [loop EXCEPT !.toScan = @ \ {a},
                            !.new = IF srv[a].up THEN [@ EXCEPT ![srv[a].rid] = Info(a)] ELSE @]
    /\ UNCHANGED <<srv, envSteps, restarts, nodeMap, onUpdate, view>>

\* Mutant of Upserts: only run_ids missing from the old map are written.
UpsertsNewOnly(old, new) == {r \in RunIds : new[r] # None /\ old[r] = None}

\* lines 278-285: every entry of the new map that differs from the old.
Upserts(old, new) == {r \in RunIds : new[r] # None /\ old[r] # new[r]}

\* lines 287-291: the entries of the old map the scan did not report.
Missing(old, new) == {r \in RunIds : old[r] # None /\ new[r] = None}

(* lines 272-285: copy NodeMap, then write the entries that changed.     *)
Merge ==
    LET up == Upserts(nodeMap, loop.new) IN
    /\ loop.pc = "scan"
    /\ loop.toScan = {}
    /\ nodeMap' = [r \in RunIds |-> IF r \in up THEN loop.new[r] ELSE nodeMap[r]]
    /\ loop' = [loop EXCEPT !.pc = "prune", !.old = nodeMap, !.updated = up # {},
                            !.toPrune = Missing(nodeMap, loop.new)]
    /\ UNCHANGED <<srv, envSteps, restarts, onUpdate, view>>

\* Mutant of PruneUpdated: a deletion does not mark the map as updated.
PruneUpdatedDropped(u) == u

\* line 298: a deletion marks the map as updated.
PruneUpdated(u) == TRUE

(* lines 287-301: an old entry missing from the new map is pinged at its *)
(* address and deleted only if the ping fails.                          *)
Prune(r) ==
    LET a == loop.old[r].addr IN
    /\ loop.pc = "prune"
    /\ r \in loop.toPrune
    /\ nodeMap' = IF srv[a].up THEN nodeMap ELSE [nodeMap EXCEPT ![r] = None]
    /\ loop' = [loop EXCEPT !.toPrune = @ \ {r},
                            !.updated = IF srv[a].up THEN @ ELSE PruneUpdated(@)]
    /\ UNCHANGED <<srv, envSteps, restarts, onUpdate, view>>

(* lines 303-305: onUpdate is store.ReloadState, which reloads the slots *)
(* from GetClusterNodes.                                                 *)
Notify ==
    /\ loop.pc = "prune"
    /\ loop.toPrune = {}
    /\ view' = IF loop.updated /\ onUpdate THEN ClusterNodes(nodeMap) ELSE view
    /\ loop' = [loop EXCEPT !.pc = "idle"]
    /\ UNCHANGED <<srv, envSteps, restarts, nodeMap, onUpdate>>

Refresh == Tick \/ (\E a \in Servers : Scan(a)) \/ Merge \/ (\E r \in RunIds : Prune(r)) \/ Notify

Next ==
    \/ \E a \in Servers : Failover(a) \/ Crash(a) \/ Recover(a) \/ Restart(a)
    \/ SetOnUpdate
    \/ Refresh

(* The refresh goroutine runs on a ticker and is never stopped; getCluster *)
(* goes on to set onUpdate.                                               *)
Spec == Init /\ [][Next]_vars /\ WF_vars(Refresh) /\ WF_vars(SetOnUpdate)

-----------------------------------------------------------------------------
TypeOK ==
    /\ srv \in [Servers -> [up : BOOLEAN, rid : RunIds, role : Roles]]
    /\ envSteps \in 0..MaxEnvSteps
    /\ restarts \in 0..MaxRestarts
    /\ nodeMap \in NodeMaps
    /\ loop.pc \in {"idle", "scan", "prune"}
    /\ onUpdate \in BOOLEAN
    /\ view \in [Roles -> SUBSET Servers]

(* Once the servers stop changing, every live server is in NodeMap under *)
(* its current run_id with its current role: roles changed by a failover *)
(* and run_ids changed by a restart are written by the upserts.          *)
LiveEntriesConverge ==
    <>[](\A a \in Servers : srv[a].up => nodeMap[srv[a].rid] = Info(a))

(* Once the servers stop changing, no entry points at an address that is *)
(* down: the prune step deletes what the scan missed and PING confirms.  *)
DeadEntriesPruned ==
    <>[](\A r \in RunIds : nodeMap[r] # None => srv[nodeMap[r].addr].up)

(* Once the servers stop changing, the ClusterClient's view is what      *)
(* GetClusterNodes returns for NodeMap: every change, upsert or deletion,*)
(* sets updated and is followed by onUpdate.                             *)
ViewFollowsNodeMap == <>[](view = ClusterNodes(nodeMap))

(* Once the servers stop changing, the ClusterClient's view (reloaded by *)
(* onUpdate) lists exactly the live master as master: go-redis takes the *)
(* first node of the slot as its master, so a second or stale master in  *)
(* the view sends writes to a replica.                                   *)
ViewConverges ==
    <>[](view["master"] = {a \in Servers : srv[a].up /\ srv[a].role = "master"})

=============================================================================
