--------------------------- MODULE ServerManager ---------------------------
(***************************************************************************)
(* The instance managers of one dbresolver Config (src/dbresolver/        *)
(* connection.go): a "source" and a "replica" ServerManagerImpl, each     *)
(* keeping an instance store keyed by address, each running a health-     *)
(* check loop and one DNS-resolve loop per hostname DSN, and each the     *)
(* peer of the other.  Every loop iteration is split at the points where  *)
(* the Go code lets other goroutines in (sync.Map operations, a dial, a   *)
(* WaitGroup), so the loops of both managers interleave freely.           *)
(*                                                                         *)
(* An instance is identified by <<manager, address, generation>>: every   *)
(* call of newInstance for an address makes a new generation, so a probe  *)
(* or a creator that still holds an old *Instance never touches a newer   *)
(* one.  Backend reachability (up) and DNS answers are the environment.   *)
(***************************************************************************)
EXTENDS Naturals, FiniteSets

CONSTANTS
    Addrs,              \* ipv4:port addresses the backends can have
    Hosts,              \* hostname DSNs (resolved by CronResolve)
    HostRole,           \* [Hosts -> Roles]: the manager a hostname DSN belongs to
    HostAnswers,        \* [Hosts -> SUBSET Addrs]: the A records DNS may return
    StaticAddrs,        \* [Roles -> SUBSET Addrs]: IP-literal DSNs (m.ipMap)
    MaxHealthCheckRetry,\* Config.MaxHealthCheckRetry
    MaxGen,             \* bound: newInstance calls per manager and address
    MaxInstances        \* bound: newInstance calls in all

Roles == {"source", "replica"}
NoAddr == "none"

\* The managers that exist as ServerManagerImpl (compileConfig, lines
\* 149-162): a role with no DSN gets an EmptyServerManager (source) or
\* shares the source manager (replica) and runs no loop.
Managers == {r \in Roles : StaticAddrs[r] # {} \/ \E h \in Hosts : HostRole[h] = r}

\* SetPeerManager is called only when both roles have DSNs (lines 159-161).
HasPeer == Managers = Roles
Peer(m) == CHOOSE p \in Roles : p # m

ASSUME
    /\ HostRole \in [Hosts -> Roles]
    /\ HostAnswers \in [Hosts -> SUBSET Addrs]
    /\ StaticAddrs \in [Roles -> SUBSET Addrs]
    /\ Managers # {}                                        \* Config.Validate
    /\ Cardinality(StaticAddrs["source"])
         + Cardinality({h \in Hosts : HostRole[h] = "source"}) <= 1
    /\ MaxHealthCheckRetry \in Nat \ {0}
    /\ MaxGen \in Nat \ {0}
    /\ MaxInstances \in Nat

Gens == 1..MaxGen
Ids == Managers \X Addrs \X Gens

\* Instance.connPool: nil until a gorm.Open succeeds, closed by Close.
Pools == {"nil", "open", "closed"}

\* Instance.healthy and Instance.retry (atomics).  Only those of the
\* stored instance are kept: once an instance has left the store nothing
\* reads them again (GetInstances and the eviction Range walk the store).
HealthRec == [healthy : BOOLEAN, retry : 0..MaxHealthCheckRetry]
NoHealth == [healthy |-> FALSE, retry |-> 0]

VARIABLES
    up,      \* [Addrs -> BOOLEAN]: the backend at the address accepts connections
    pool,    \* [Ids -> Pools]
    health,  \* [Managers -> [Addrs -> HealthRec]]: of the stored instance
    gen,     \* [Managers -> [Addrs -> 0..MaxGen]]: newest generation created
    store,   \* [Managers -> [Addrs -> 0..MaxGen]]: m.instanceStore, 0 = no entry
    done,    \* [Managers -> BOOLEAN]: m.done is closed (Close was called)
    hc,      \* [Managers -> HC loop state]
    rs,      \* [Hosts -> CronResolve loop state]
    closing  \* [Managers -> ClearRec]: the Clear run by Close

vars == <<up, pool, health, gen, store, done, hc, rs, closing>>

HCState == [pc : {"idle", "probe", "remove", "stopped"},
            pending : SUBSET Ids, removals : SUBSET Addrs]
\* A Clear in progress (lines 184-193): the addresses its Range has still
\* to visit, and the address whose instance it has closed but not yet
\* deleted.
ClearRec == [left : SUBSET Addrs, at : Addrs \cup {NoAddr}]
NoClear == [left |-> {}, at |-> NoAddr]
StartClear == [left |-> Addrs, at |-> NoAddr]
RSState == [pc : {"idle", "iter", "clear", "store", "notify", "stopped"},
            ips : SUBSET Addrs, cur : Addrs \cup {NoAddr}, g : 0..MaxGen, clr : ClearRec]

Id(m, a, g) == <<m, a, g>>
Created == {i \in Ids : i[3] <= gen[i[1]][i[2]]}
Stored(m) == {a \in Addrs : store[m][a] # 0}
StoredId(m, a) == Id(m, a, store[m][a])
StoredIds(m) == {StoredId(m, a) : a \in Stored(m)}

\* newInstance (lines 352-410): gorm.Open pings the backend; on error the
\* instance is still returned, unhealthy and with a nil pool.
NewPool(a) == IF up[a] THEN "open" ELSE "nil"
NewHealth(p) == [healthy |-> p = "open", retry |-> 0]

\* Instance.Close (lines 449-465) of every instance in I: nothing to close
\* while the pool is nil.
CloseAll(I) == [i \in Ids |-> IF i \in I /\ pool[i] = "open" THEN "closed" ELSE pool[i]]

-----------------------------------------------------------------------------
(* NewServerManager / initDSN (lines 98-136): an IP-literal DSN gets its  *)
(* instance at once; SetPrimary and SetPeerManager come later, so neither *)
(* Clear nor NotifyPeer runs here.  RunAndWait then starts the loops.     *)
Init ==
    /\ up \in [Addrs -> BOOLEAN]
    /\ gen = [m \in Managers |-> [a \in Addrs |-> IF a \in StaticAddrs[m] THEN 1 ELSE 0]]
    /\ store = gen
    /\ pool = [i \in Ids |-> IF i[3] = 1 /\ i[2] \in StaticAddrs[i[1]]
                             THEN NewPool(i[2]) ELSE "nil"]
    /\ health = [m \in Managers |-> [a \in Addrs |->
                    IF a \in StaticAddrs[m] THEN NewHealth(NewPool(a)) ELSE NoHealth]]
    /\ done = [m \in Managers |-> FALSE]
    /\ hc = [m \in Managers |-> [pc |-> "idle", pending |-> {}, removals |-> {}]]
    /\ rs = [h \in Hosts |-> [pc |-> "idle", ips |-> {}, cur |-> NoAddr, g |-> 0, clr |-> NoClear]]
    /\ closing = [m \in Managers |-> NoClear]

-----------------------------------------------------------------------------
(* Environment: a backend goes down or comes back.                        *)
BackendFlip(a) ==
    /\ up' = [up EXCEPT ![a] = ~@]
    /\ UNCHANGED <<pool, health, gen, store, done, hc, rs, closing>>

(* StartCronJob (utils.go 20-36): a loop waits on its ticker or on     *)
(* m.done.  When both are ready Go's select picks either, so a loop may  *)
(* run a job after Close; it stops only when it picks m.done.            *)
LoopStop(pcOf, m) == done[m] /\ pcOf = "idle"

-----------------------------------------------------------------------------
(* CronHealthCheck job (lines 250-282), first Range: one probe goroutine *)
(* per stored instance.                                                   *)
HCStart(m) ==
    /\ hc[m].pc = "idle"
    /\ hc' = [hc EXCEPT ![m] = [pc |-> "probe", removals |-> {}, pending |-> StoredIds(m)]]
    /\ UNCHANGED <<up, pool, health, gen, store, done, rs, closing>>

\* Instance.IncreaseRetry: retry only matters compared with
\* MaxHealthCheckRetry, so it saturates there.
IncreaseRetry(r) == IF r < MaxHealthCheckRetry THEN r + 1 ELSE r

\* healthCheck's redial (GetConnPool, then SetConnPoolAndPrepareStmt with
\* a fresh newInstance's pool, lines 467-484): a nil pool is replaced when
\* the backend answers.
Redial(p, a) == IF p = "nil" /\ up[a] THEN "open" ELSE p

\* Mutant of Probed: a failed probe marks the instance unhealthy but does
\* not count the failure.
ProbedNoRetry(h, ok) ==
    IF ok THEN [healthy |-> TRUE, retry |-> 0]
    ELSE [healthy |-> FALSE, retry |-> h.retry]

\* Mutant of Probed: a successful probe resets retry but not healthy.
ProbedKeepsHealth(h, ok) ==
    IF ok THEN [h EXCEPT !.retry = 0]
    ELSE [healthy |-> FALSE, retry |-> IncreaseRetry(h.retry)]

\* The probe's outcome on the instance's atomics: SetHealthy, then
\* ResetRetry or IncreaseRetry (lines 486-500).
Probed(h, ok) ==
    IF ok THEN [healthy |-> TRUE, retry |-> 0]
    ELSE [healthy |-> FALSE, retry |-> IncreaseRetry(h.retry)]

(* healthCheck(inst) (lines 284-310) on an instance the probe holds,     *)
(* whether or not it is still stored.  A nil pool is first replaced by a *)
(* fresh newInstance's pool (on failure: IncreaseRetry and return); then *)
(* the probe query sets healthy and resets or increments retry.          *)
HCProbe(m, i) ==
    LET a == i[2]
        h == health[m][a]
        h2 == IF pool[i] = "nil" /\ ~up[a] THEN [h EXCEPT !.retry = IncreaseRetry(@)]
              ELSE Probed(h, up[a] /\ pool[i] # "closed")
    IN
    /\ hc[m].pc = "probe"
    /\ i \in hc[m].pending
    /\ pool' = [pool EXCEPT ![i] = Redial(@, a)]
    /\ health' = IF store[m][a] = i[3] THEN [health EXCEPT ![m][a] = h2] ELSE health
    /\ hc' = [hc EXCEPT ![m].pending = @ \ {i}]
    /\ UNCHANGED <<up, gen, store, done, rs, closing>>

(* After wg.Wait, the second Range picks the evictions: not IP-literal,  *)
(* unhealthy, and retry >= MaxHealthCheckRetry.                          *)
Evictable(m, a) ==
    a \notin StaticAddrs[m] /\ ~health[m][a].healthy /\ health[m][a].retry >= MaxHealthCheckRetry

HCCollect(m) ==
    LET removals == {a \in Stored(m) : Evictable(m, a)}
    IN
    /\ hc[m].pc = "probe"
    /\ hc[m].pending = {}
    /\ hc' = [hc EXCEPT ![m].pc = IF removals = {} THEN "idle" ELSE "remove",
                        ![m].removals = removals]
    /\ UNCHANGED <<up, pool, health, gen, store, done, rs, closing>>

\* Mutant of Remove: the instance is closed but left in the store.
RemoveCloseOnly(m, a) ==
    /\ UNCHANGED <<store, health>>
    /\ pool' = IF store[m][a] = 0 THEN pool ELSE CloseAll({StoredId(m, a)})

(* Remove(addr) (lines 196-203): LoadAndDelete then Close, of whatever   *)
(* instance is at the address now.                                        *)
Remove(m, a) ==
    /\ store' = [store EXCEPT ![m][a] = 0]
    /\ health' = [health EXCEPT ![m][a] = NoHealth]
    /\ pool' = IF store[m][a] = 0 THEN pool ELSE CloseAll({StoredId(m, a)})

HCRemove(m, a) ==
    /\ hc[m].pc = "remove"
    /\ a \in hc[m].removals
    /\ Remove(m, a)
    /\ hc' = [hc EXCEPT ![m].removals = @ \ {a},
                        ![m].pc = IF hc[m].removals = {a} THEN "idle" ELSE "remove"]
    /\ UNCHANGED <<up, gen, done, rs, closing>>

HCStop(m) ==
    /\ LoopStop(hc[m].pc, m)
    /\ hc' = [hc EXCEPT ![m].pc = "stopped"]
    /\ UNCHANGED <<up, pool, health, gen, store, done, rs, closing>>

-----------------------------------------------------------------------------
(* CronResolve job (lines 227-247): HostResolve returns some of the A    *)
(* records, or an error and no address.                                  *)
ResolveStart(h) ==
    /\ rs[h].pc = "idle"
    /\ \E ips \in SUBSET HostAnswers[h] :
          rs' = [rs EXCEPT ![h] = [pc |-> "iter", ips |-> ips, cur |-> NoAddr, g |-> 0,
                                   clr |-> NoClear]]
    /\ UNCHANGED <<up, pool, health, gen, store, done, hc, closing>>

(* createInstanceIfNotExists (lines 327-341): Load, and on a miss dial a *)
(* new instance, which is not yet stored; the primary then Clears.       *)
ResolveLoad(h) ==
    LET m == HostRole[h] IN
    /\ rs[h].pc = "iter"
    /\ \/ /\ rs[h].ips = {}
          /\ rs' = [rs EXCEPT ![h].pc = "idle"]
          /\ UNCHANGED <<pool, gen>>
       \/ \E a \in rs[h].ips :
          \/ /\ store[m][a] # 0
             /\ rs' = [rs EXCEPT ![h].ips = @ \ {a}]
             /\ UNCHANGED <<pool, gen>>
          \/ /\ store[m][a] = 0
             /\ gen[m][a] < MaxGen
             /\ Cardinality(Created) < MaxInstances
             /\ gen' = [gen EXCEPT ![m][a] = @ + 1]
             /\ pool' = [pool EXCEPT ![Id(m, a, gen[m][a] + 1)] = NewPool(a)]
             /\ rs' = [rs EXCEPT ![h].ips = @ \ {a},
                                 ![h].pc = IF m = "source" THEN "clear" ELSE "store",
                                 ![h].clr = IF m = "source" THEN StartClear ELSE NoClear,
                                 ![h].cur = a, ![h].g = gen[m][a] + 1]
    /\ UNCHANGED <<up, health, store, done, hc, closing>>

(* One step of Clear's Range over m's store (lines 184-193), from its    *)
(* caller's record c to c2: visit a stored address not yet visited and   *)
(* Close its instance, or Delete the key whose instance it has closed,   *)
(* or end when no unvisited address is stored.  Between                  *)
(* Close and Delete the closed instance is still stored, and still       *)
(* healthy: Instance.Close (449-465) leaves healthy alone.               *)
ClearVisit(m, c, c2) ==
    /\ c.at = NoAddr
    /\ \/ \E a \in c.left :
             /\ store[m][a] # 0
             /\ c2 = [left |-> c.left \ {a}, at |-> a]
             /\ pool' = CloseAll({StoredId(m, a)})
       \/ /\ c # NoClear
          /\ \A a \in c.left : store[m][a] = 0
          /\ c2 = NoClear
          /\ UNCHANGED pool
    /\ UNCHANGED <<store, health>>

ClearDelete(m, c, c2) ==
    /\ c.at # NoAddr
    /\ store' = [store EXCEPT ![m][c.at] = 0]
    /\ health' = [health EXCEPT ![m][c.at] = NoHealth]
    /\ c2 = [c EXCEPT !.at = NoAddr]
    /\ UNCHANGED pool

(* The primary's Clear in createInstanceIfNotExists (lines 339-341).     *)
ResolveClear(h) ==
    /\ rs[h].pc = "clear"
    /\ \E c2 \in ClearRec :
          /\ ClearVisit(HostRole[h], rs[h].clr, c2) \/ ClearDelete(HostRole[h], rs[h].clr, c2)
          /\ rs' = [rs EXCEPT ![h].clr = c2,
                              ![h].pc = IF c2 = NoClear THEN "store" ELSE "clear"]
    /\ UNCHANGED <<up, gen, done, hc, closing>>

(* LoadOrStore (lines 343-346): an instance stored meanwhile is kept and *)
(* closed, and the one just dialled is dropped; else the new one is      *)
(* stored.  created is true either way, so NotifyPeer follows.           *)
ResolveStore(h) ==
    LET m == HostRole[h]
        a == rs[h].cur
        keep == store[m][a] # 0
    IN
    /\ rs[h].pc = "store"
    /\ store' = [store EXCEPT ![m][a] = IF keep THEN @ ELSE rs[h].g]
    /\ health' = [health EXCEPT ![m][a] = IF keep THEN @ ELSE NewHealth(pool[Id(m, a, rs[h].g)])]
    /\ pool' = IF keep THEN CloseAll({StoredId(m, a)}) ELSE pool
    /\ rs' = IF HasPeer THEN [rs EXCEPT ![h].pc = "notify"]
             ELSE [rs EXCEPT ![h].pc = "iter", ![h].cur = NoAddr, ![h].g = 0]
    /\ UNCHANGED <<up, gen, done, hc, closing>>

(* NotifyPeer (lines 220-224): the peer Removes the address.             *)
ResolveNotify(h) ==
    /\ rs[h].pc = "notify"
    /\ Remove(Peer(HostRole[h]), rs[h].cur)
    /\ rs' = [rs EXCEPT ![h].pc = "iter", ![h].cur = NoAddr, ![h].g = 0]
    /\ UNCHANGED <<up, gen, done, hc, closing>>

ResolveStop(h) ==
    /\ LoopStop(rs[h].pc, HostRole[h])
    /\ rs' = [rs EXCEPT ![h].pc = "stopped"]
    /\ UNCHANGED <<up, pool, health, gen, store, done, hc, closing>>

-----------------------------------------------------------------------------
(* Close (lines 206-217): once only, close m.done, then Clear.  Jobs      *)
(* already running go on, and so does the Clear, step by step.           *)
Close(m) ==
    /\ ~done[m]
    /\ done' = [done EXCEPT ![m] = TRUE]
    /\ closing' = [closing EXCEPT ![m] = StartClear]
    /\ UNCHANGED <<up, pool, health, gen, store, hc, rs>>

CloseClear(m) ==
    /\ \E c2 \in ClearRec :
          /\ ClearVisit(m, closing[m], c2) \/ ClearDelete(m, closing[m], c2)
          /\ closing' = [closing EXCEPT ![m] = c2]
    /\ UNCHANGED <<up, gen, done, hc, rs>>

-----------------------------------------------------------------------------
HealthCheckLoop(m) ==
    \/ HCStart(m)
    \/ \E i \in Ids : HCProbe(m, i)
    \/ HCCollect(m)
    \/ \E a \in Addrs : HCRemove(m, a)

ResolveLoop(h) ==
    ResolveStart(h) \/ ResolveLoad(h) \/ ResolveClear(h) \/ ResolveStore(h) \/ ResolveNotify(h)

Next ==
    \/ \E a \in Addrs : BackendFlip(a)
    \/ \E m \in Managers : HealthCheckLoop(m) \/ HCStop(m) \/ Close(m) \/ CloseClear(m)
    \/ \E h \in Hosts : ResolveLoop(h) \/ ResolveStop(h)

(* Every loop is a goroutine driven by a time.Ticker: while it runs, its *)
(* next step is eventually taken, and so is the next step of a Close      *)
(* once called.  Backends and the call of Close are environment.          *)
Fairness ==
    /\ \A m \in Managers : WF_vars(HealthCheckLoop(m)) /\ WF_vars(CloseClear(m))
    /\ \A h \in Hosts : WF_vars(ResolveLoop(h))

Spec == Init /\ [][Next]_vars /\ Fairness

-----------------------------------------------------------------------------
(* GetInstances (lines 313-325): the healthy stored instances.           *)
GetInstances(m) == {a \in Stored(m) : health[m][a].healthy}

TypeOK ==
    /\ up \in [Addrs -> BOOLEAN]
    /\ pool \in [Ids -> Pools]
    /\ health \in [Managers -> [Addrs -> HealthRec]]
    /\ gen \in [Managers -> [Addrs -> 0..MaxGen]]
    /\ store \in [Managers -> [Addrs -> 0..MaxGen]]
    /\ \A m \in Managers, a \in Addrs : store[m][a] <= gen[m][a]
    /\ done \in [Managers -> BOOLEAN]
    /\ hc \in [Managers -> HCState]
    /\ rs \in [Hosts -> RSState]
    /\ closing \in [Managers -> ClearRec]

-----------------------------------------------------------------------------
(* Routing never hands out a closed pool: while the manager is open,    *)
(* every instance GetInstances can return is open.  The code closes an   *)
(* instance together with its removal from the store in Remove and       *)
(* NotifyPeer, but Clear closes before it deletes, and LoadOrStore closes *)
(* the instance it leaves stored.                                         *)
RoutableInstancesOpen ==
    \A m \in Managers :
        ~done[m] => \A a \in GetInstances(m) : pool[StoredId(m, a)] = "open"

(* Every open connection pool belongs to a stored instance or to a step *)
(* still holding the instance it just dialled: nothing is leaked.        *)
NoLeakedPool ==
    \A i \in Ids :
        pool[i] = "open" =>
            \/ store[i[1]][i[2]] = i[3]
            \/ \E h \in Hosts : rs[h].pc \in {"clear", "store"} /\ Id(HostRole[h], rs[h].cur, rs[h].g) = i

(* A DNS-discovered instance that is unhealthy is, while its manager is *)
(* open, eventually evicted by CronHealthCheck or healthy again.         *)
EvictionOrRecovery ==
    \A m \in Managers : \A a \in Addrs \ StaticAddrs[m], g \in Gens :
        (store[m][a] = g /\ ~health[m][a].healthy)
            ~> (store[m][a] # g \/ health[m][a].healthy \/ done[m])

(* RunAndWait (lines 138-157) lets compileConfig go on only once          *)
(* GetInstances is non-empty, and panics after a minute.  What it waits   *)
(* for does come for a manager with an IP-literal DSN: once every backend *)
(* stays up, it (unless closed) eventually keeps a routable instance for  *)
(* good, even when that DSN's first dial failed at start-up and the       *)
(* peer's resolve loop and Clear run beside it.  (A hostname-only manager *)
(* needs a dial per loss, which MaxGen bounds.)                           *)
ReadyOnceBackendsUp ==
    \A m \in Managers :
        StaticAddrs[m] # {} /\ <>[](\A a \in Addrs : up[a])
            => <>[](GetInstances(m) # {} \/ done[m])

====
