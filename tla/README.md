# TLA+ models of zard's dbresolver, redis node discovery and i18n

This directory holds TLA+ models of the read/write-splitting database resolver in
`src/dbresolver`, of the redis replica-set node discovery in
`src/core/stores/redis/redisclustermanager.go` and of the nacos-backed translations
in `src/i18n/i18ngo` and `src/core/i18n`, the TLC configurations that check them,
and `PROJECT.json`.
`PROJECT.json` records every component, run, mutant, finding and hazard, and the
source lines that each definition models.

## The system

`dbresolver` is a gorm plugin. `Register(Config)` followed by `Initialize` compiles
each config into a `resolver` with two `ServerManager`s (`compileConfig`,
`dbresolver.go` 141-191):

- the primary (source) manager, marked with `SetPrimary(true)`;
- the replica manager. When no replica is configured, the replica manager is the
  primary manager itself. Otherwise the two managers are each other's peer.

A `ServerManagerImpl` (`connection.go`) owns a `sync.Map` instance store keyed by
address. It is fed from the configured DSNs:

- **IP-literal DSNs.** These get their instance at once (`initDSN`) and are listed
  in `ipMap`.
- **Hostname DSNs.** Each gets its own `CronResolve` goroutine, which resolves the
  name and calls `createInstanceIfNotExists` for every IPv4 address. If it created
  an instance, it calls `NotifyPeer`, which removes that address from the peer
  manager.
- **`CronHealthCheck`.** One goroutine probes every stored instance in parallel. It
  then evicts the instances that are not IP-literal, are unhealthy, and have
  `retry >= MaxHealthCheckRetry`.
- **`createInstanceIfNotExists`.** On the primary it `Clear`s the store first,
  because the primary holds one instance. It then uses `LoadOrStore` and closes the
  instance that was already there.
- **`Clear`.** It walks the store with `Range`, and for each entry calls
  `Instance.Close` and then `Delete`. Between the two the closed instance is
  still stored and still healthy.
- **`Close`.** This closes `done`, which stops the loops when their `select` picks
  it, and `Clear`s the store.

Every gorm statement passes through a callback (`callbacks.go`) that classifies it
as Read or Write:

- `switchSource` handles create, update and delete.
- `switchReplica` handles query and row. A write marker or a `FOR` clause makes
  the statement a Write; raw SQL is passed on to `switchGuess`.
- `switchGuess` handles raw SQL. It checks the markers, then the text tests, then
  the `WITH` regexp.
- Inside a transaction, every callback leaves the pool alone.

`resolver.resolve` (`resolver.go`) reads `GetInstances()` of both managers: the
healthy stored instances, sorted by address. One instance is used directly. None
gives `EmptyConnPool`. Several go to the `Policy` (`policy.go`), which is
`RandomPolicy` or `RoundRobinPolicy` with an atomic `uint32` counter.

The redis cluster client has a single-replica-set mode (`SingleReplicaSet`). In
that mode `getCluster` creates a `DiscoverResolverClient`, which works as follows:

- **The node map.** `GetNodeMap` runs `INFO` on every address of the configured
  hosts and builds `NodeMap`, keyed by the server's `run_id`, with its address
  and role.
- **The refresh goroutine.** On every tick it rescans and writes the entries that
  changed. An old entry that the scan no longer reports is deleted only when a
  `PING` to its address fails. If anything changed, it calls `onUpdate`, which is
  `ClusterClient.ReloadState`.
- **go-redis.** It loads its slot table through `ClusterSlots`, which returns
  `GetClusterNodes`: the masters, then the slaves. The first node is used as the
  master.

The i18n translator (`i18ngo.NacosTranslator`) keeps one cache per locale:
- **Start-up.** `SetTranslatorByConfig` takes the package mutex and calls
  `InitByTranslatorConfig`, which starts one goroutine per group (`I18N_<TEAM>`)
  and data ID (`<locale>.json`). Each goroutine calls `ExistsTranslator`
  (`SearchConfig`), then `SetupTranslator`: `GetConfig`, `InitCache` (store every
  key) and `ListenConfig`. Errors are logged and the function returns nil.
- **Updates.** The nacos SDK calls `OnChange` with a new config, and `UpdateCache`
  stores every key whose text is new or changed (`UpdateLocale`). Nothing is
  deleted.
- **Requests.** `I18n.MiddlewareHandler` takes the locale from the first
  configured header that is set, maps it through `localeMap` and puts an
  `EmbeddedTranslator` into the request context. `LocalizeText` looks the key up
  in the locale's cache and falls back to `defaultType`.

## Modules

| module | models | state | actions |
|---|---|---|---|
| `ServerManager` | `connection.go`, `utils.go` `StartCronJob`, the manager wiring of `compileConfig` | `up` (the backends, environment), `pool` per instance generation (nil/open/closed), `health` and `retry` of the stored instance, `gen` (instances dialled per address), `store` (the instance store: which generation is at an address), `done`, the program counters of the health-check loop (`hc`) and of each resolve loop (`rs`, with its `Clear` record), and the `Clear` of a called `Close` (`closing`) | `HCStart` (first `Range`), `HCProbe` (one `healthCheck` goroutine, whole function), `HCCollect` (second `Range`), `HCRemove` (`Remove`), `ResolveStart` (`HostResolve`), `ResolveLoad` (`Load` + `newInstance`), `ResolveClear` (one step of the primary's `Clear`), `ResolveStore` (`LoadOrStore`, close of `actual`), `ResolveNotify` (`NotifyPeer`), `HCStop`/`ResolveStop` (select picks `done`), `Close` (close `done`), `CloseClear` (one step of its `Clear`), `BackendFlip` (environment) |
| `MCServerManager` | constants for TLC | three configuration shapes | |
| `Router` | `callbacks.go`, `resolver.go`, `policy.go`, `empty_conn_pool.go` | `healthy` (what `GetInstances` returns for each role), `next` (the RoundRobin counter, `W` bits), `calls`, `inTx`, `last` (where the last statement ran), `lastPick` | `Membership` (environment: the managers' loops), `Begin`/`Commit`, `ExecInTx`, `ExecResolved` (classification, then resolve, then policy) |
| `MCRouter` | constants for TLC | | |
| `DiscoverResolver` | `redisclustermanager.go` lines 56-126 and 171-311 | `srv` (the redis processes: up, run_id, role; environment), `nodeMap`, `loop` (the refresh goroutine: the scan in progress, the old map, the entries to prune, `updated`), `onUpdate` (set by `getCluster`), `view` (the masters and slaves the ClusterClient loaded last) | `Failover`, `Crash`, `Recover`, `Restart` (environment), `SetOnUpdate` (with the first state load), `Tick`, `Scan` (INFO of one address), `Merge` (the upserts), `Prune` (PING, then delete), `Notify` (`onUpdate`) |
| `MCDiscoverResolver` | constants for TLC | two servers, three run_ids | |
| `NacosTranslator` | `nacos_translator.go` (StoreLocale, UpdateLocale, InitByTranslatorConfig, UpdateCache, InitCache, ExistsTranslator, SetupTranslator), `Init`, `translator.go` (`SetTranslator`, `SetTranslatorByConf`, `SetTranslatorByConfig`, `GetTranslator`) | `published` (nacos, environment: a config, a malformed one, or none), `phase` (`initialized`), `entry` (which start-up the last call ran), `inits` (calls so far), `task` (the pc of each start-up goroutine; `failed` when `SetupTranslator` returned an error), `got` (what `GetConfig` returned), `known` (what the listener last delivered), `cache` | `StartInit(e)` (a `SetTranslator*` call; `e` is `config` or `env`), `Exists` (an SDK error ends the goroutine), `GetAndInitCache` (Client/GetConfig error, malformed config, or `StoreLocale`), `Listen` (or its error), `FinishInit` (`wg.Wait`; `InitByTranslatorConfig` logs the errors, `Init` returns them and the call leaves the translator uninitialized), `OnChange` (a malformed config is only logged), `Publish` (environment) |
| `I18nRequest` | `core/i18n/i18n.go` (MiddlewareHandler, LocalizeText), `NacosTranslator.LocalizeText` | `cache` (which keys each locale has), `req` (the headers), `ctx` (the context's locale), `result` | `CacheGrows` (the translator, seen from the request side), `Handle` (MiddlewareHandler), `Localize` (LocalizeText with the recursive fallback `Lookup`) |
| `I18n` | the composition: `MustNewI18n` (groups from `TeamID`/`TeamIDs`) starting `NacosTranslator`, then the middleware serving requests from the same `t.cache` | the variables of both modules; the translator's cache is `tcache` | `TranslatorSide` (any `NacosTranslator` step), `RequestSide` (`Handle` or `Localize`, only once `initialized`) |
| `I18nFormat` | `nacos_translator.go` `RE`, `Sprintf`, `LocalizeSprintf`, `LocalizeInfof`; `core/i18n/i18n.go` `EmbeddedTranslator.LocalizeSprintf` and the package `LocalizeSprintf` | none: pure operators | `SprintfFrom` (recursive, with `argIndex`), `KvFrom` (the map of pairs), the wrappers; `RefFormat` is the reference definition they are checked against |
| `MCI18n` | constants for TLC | one team, two locales (`fr` the default), one key, two texts, two headers; placeholders `{0}`, `{1}`, `{-1}`, `{name}`, one literal, two argument strings | |
| `DBResolver` | `dbresolver.go` (package `Register`/`Close`, `DBResolver.Register`, `Initialize`, `compileConfig`, `getResolver`), `dsn.go` `EqualAddrTo`, `Config.Validate`, and the `Parse` panic of `connection.go` | `drs` (per `DBResolver`: created, configs, the `*gorm.DB` once `Initialize` ran, `used`, its resolvers, the table map `rmap` and the global resolver), `drResolvers` (the package list), `regs`, `closes`, `crashed` | `PkgRegister`, `Register` (before `Initialize`: append; after: compile, error dropped; or the panic), `Initialize` (Validate, then compile every config, stopping at the first error; or the panic), `PkgClose` (`CloseResolver` of every listed resolver); `GetResolver` is a query operator |
| `MCDBResolver` | constants for TLC | two resolvers; five configs: a global one, a table-bound one with replicas only, an invalid one (same host as source and replica), one whose second table does not parse, a second global one | |

### How `ServerManager` abstracts the code

- **Instances.** An instance is identified by (manager, address, generation).
  Every `newInstance` makes a new generation, so a closed instance is never
  confused with its successor. Health and retry are kept only for the instance
  that is stored, because eviction and routing read nothing else.
- **Retry.** The retry counter saturates at `MaxHealthCheckRetry`. The code
  compares it only with `>=` against that value, so `retry.Add(1)` past the
  limit changes no decision.
- **Granularity.** Each action is one Go step whose effects other goroutines can
  observe: one probe, one removal, one `Load` and dial, one `Close` or one
  `Delete` of a `Clear` (`ClearVisit`, `ClearDelete`), one `LoadOrStore` with the
  close of the instance it finds, or one `NotifyPeer`. `Remove` is one step,
  because it deletes before it closes, so nothing can see the gap.
- **`Clear`.** Its callers keep a record `[left, at]`: the addresses its `Range`
  has still to visit, and the address it has closed but not yet deleted. The
  resolve loop keeps it in `rs`, and `Close` in `closing`.
- **Probes.** A probe holds the instance it started with, so it may act on an
  instance that has since been removed.

### How the i18n modules abstract the code

- **Composition.** `I18nRequest` sees the translator only through
  `CacheGrows`: some locales gain keys. `I18n` instantiates it with the
  refinement mapping `cache <- KeySets`, the keys that have a text in
  `tcache`. `RQ!Spec` is then a `PROPERTY`, so every translator step must
  be a `CacheGrows` step, or leave the key sets alone.
- **Texts.** A config is a function from keys to texts (or `Absent`); a
  malformed config is one model value, which `UnmarshalToSyncMap` rejects.
- **SDK calls.** `Client`, `SearchConfig`, `GetConfig` and `ListenConfig`
  may each fail when `SdkMayFail` holds. The listener is modelled by what it
  delivers: the current content, whenever it differs from what it last saw.
- **Start-up calls.** A failed `SetTranslator` may be called again, and the
  listeners of the failed call stay registered. The model keeps one listener
  per data ID: the newest one that registered. Every listener delivers the
  same current content, and `UpdateLocale` applied twice is applied once.
  This is sound for one start-up call, which is what `i18n_compose` checks.
  With a second call it is not, as the defects below describe.
- **Formatting.** `I18nFormat` sees a text as `RE` splits it: a sequence of
  tokens, each the match `%s`, a match `{name}` (with the `strconv.Atoi` of
  the name as a constant), or the text between matches. The regular
  expression itself is not modelled. `ReplaceAllStringFunc` never rescans a
  replacement, so the output is the sequence of replaced tokens.
  `FormatMatchesReference` compares `Sprintf`, `LocalizeSprintf` and
  `LocalizeInfof` with `RefFormat` for every text of up to three tokens, up
  to two arguments and up to two name/value pairs. Its first conjunct does
  not depend on the state, so TLC evaluates it once; the second relates the
  handler's `LocalizeSprintf` to `LocalizeText` in every state.

### How `DBResolver` abstracts the code

- **Configs.** A config is a model value with its sources, replicas and
  datas. A `datas` entry is a table name or `Unparsable`, for which
  `schema.Parse` fails in `compileConfig`.
- **Resolvers.** A resolver keeps the state of its two managers
  (empty, running or closed) and the count of package `Close`s before it
  started, its epoch. The `ServerManager` module models what the managers do.
- **Statements.** `getResolver` is checked over every statement in
  `Stmts`: the `Use` name, table, model table, schema and raw table.

### How `Router` abstracts the code

- **Raw SQL.** A raw statement is a sequence of tokens from a small grammar:
  - an optional `INSERT INTO t`;
  - an optional CTE;
  - a SELECT or DML body;
  - an optional tail: `FOR UPDATE`, `FOR SHARE`, `FOR UPDATE NOWAIT` or `;`.
- **Text tests.** The code's tests run on the joined text: the length above 10,
  the `select` prefix, the `for update` suffix, and the unanchored `WITH` regexp.
- **RoundRobin counter.** The counter is `W` bits wide, so its wrap is reachable.
  Go's truncating `%` is `GoRem`.

## Runs

| run | cfg | expect | what it shows |
|---|---|---|---|
| sm_safety | `ServerManager.cfg` | violation | The primary hostname has two A records. When the resolve loop dials the second address, the primary's `Clear` closes the stored, healthy instance before it deletes it. In between, `GetInstances` returns a closed instance to an open manager (9 states). |
| sm_liveness | `ServerManagerLive.cfg` | pass | A source hostname, and an IP-literal replica at the other address. `EvictionOrRecovery`: under weak fairness of the loops and of a called `Close`'s `Clear`, an unhealthy DNS-discovered instance is eventually evicted, healthy again, or its manager is closed. `ReadyOnceBackendsUp`: once every backend stays up, the replica keeps a routable instance for good, even when its dial failed at start-up. So what `RunAndWait` waits for comes. About 157,000 states in 70 seconds. |
| sm_alias_closed | `ServerManagerAlias.cfg` | violation | Two replica hostnames with the same address: the second `LoadOrStore` closes the stored instance, and that instance stays routable. |
| sm_leak | `ServerManagerLeak.cfg` | violation | A probe of a nil-pool instance that was removed meanwhile dials a pool that nobody ever closes. |
| router_rr | `Router.cfg` | pass | Writes and locking reads built with the gorm API reach only the source, with either policy, in and out of transactions, while the healthy instances change. |
| router_raw_sql | `RouterRawSQL.cfg` | violation | Raw `FOR SHARE`, `FOR UPDATE NOWAIT`, CTE `... FOR UPDATE` and `INSERT ... WITH ... SELECT` go to a replica. |
| router_wrap | `RouterWrap.cfg` | violation | When the RoundRobin counter wraps to 0, the index is `-1`, which panics in Go. |
| dr_converge | `DiscoverResolver.cfg` | pass | Failovers, crashes, recoveries and one restart. The refresh loop ends with every live server under its current run_id and role, and no entry at an address that is down. The ClusterClient's view ends equal to `GetClusterNodes` of the map, so every change reaches `onUpdate`. |
| dr_restart_stale_master | `DiscoverResolverRestart.cfg` | violation | A server restarts at its address with a new run_id, and a failover swaps the roles; TLC finds these steps in varying orders. The old run_id's entry keeps its old role. It answers `PING` at its address and is never pruned. `GetClusterNodes` then lists two masters in random map order. |
| i18n_compose | `I18n.cfg` | pass | The translator, started by `SetTranslatorByConfig` or by `SetTranslator` (whose errors leave it uninitialized), with SDK errors, malformed configs and two publications, and requests served once `MustNewI18n` returned. `CacheOnlyGrows`: the translator refines `I18nRequest`, so no key is ever lost. `FallbackWhileUpdating`: a key the default locale has is translated whichever supported locale the middleware chose. Clients also send a raw header value that is no locale, which `LocalizeText` refuses before its fallback (see the defects below). `CacheConverges`: every data ID whose listener was registered ends with its last published texts, even when a publication falls between `GetConfig` and `ListenConfig`. `FormatMatchesReference`: placeholders get the arguments the reference says, and a handler's `LocalizeSprintf` returns the untranslated key exactly when `LocalizeText` fails. About 189,000 states in 50 seconds. |
| dbr_routing | `DBResolver.cfg` | pass | Any order of package `Register`, `DBResolver.Register`, `Initialize` and package `Close`, with invalid and half-parsable configs. Every statement is routed to the resolver of the first bound name among `Use`, table, model, schema and raw table. A statement with no bound name goes to the global resolver, which is never a table-bound config. |
| dbr_close_then_use | `DBResolverClose.cfg` | violation | A resolver registered before the package `Close` and initialized after it starts managers that no later `Close` ever closes. |

`TypeOK` is checked in `router_rr` and `dr_converge`.
It is not checked for `NacosTranslator`, `I18nRequest` or `DBResolver`: no
slip in the code they map can break it.
The configuration without replicas, where reads use the primary manager
(`ReadRole`), is not checked yet. With no replicas, every read has at most one
instance, so the policy is never called.

Every property of a passing run has a mutant in `PROJECT.json`: an operator next
to the code it changes, modelling a plausible slip, under which TLC finds the
property violated.

## Bounds

- **Addresses.** Two addresses are enough for every race found: two A records of
  one host, and a shared address between roles.
- **`MaxGen = 2`.** In the violation runs each address can be dialled twice, so
  an instance can be replaced. The liveness run keeps `MaxGen = 1`,
  `MaxInstances = 2` and `MaxHealthCheckRetry = 1`. The source dials its
  address once, and can lose it to eviction, a `Close` or nothing. Two managers
  with two loops each and a split `Clear` go past five minutes with larger
  bounds.
- **`MaxInstances = 3`.** This caps all dials together.
- **`MaxHealthCheckRetry = 1`.** One failed probe of a DNS instance makes it
  evictable; the `>=` test is what matters.
- **Router.** It has three addresses, so the policy chooses among two or three
  replicas. `W = 2` and `MaxCalls = 3` stay below the wrap in the passing run;
  `MaxCalls = 4` reaches it.

- **DiscoverResolver.** It has two servers, because a failover needs two. It has
  three run_ids, so that one restart has a fresh id. There are at most 3
  environment steps, which is enough for a crash, a failover and a restart, or
  for a crash and a recovery.

- **i18n.** One group per locale, so the text of a key is unique. Two locales
  give two start-up goroutines that interleave, and a default locale to fall
  back to. One key with two texts or none lets a publication add, change and
  drop the key. Each data ID starts with a config, a malformed one or none.
  `MaxPublish = 2` lets one publication fall during start-up and one after.
  `MaxInit = 1`: one start-up call. A second call, after a failed
  `SetTranslator`, breaks `CacheConverges`, as the defects below describe.
  Two headers (`X-Lang`, then `Accept-Language`) exercise the
  first-set-header loop. A second key made the run take over four minutes
  and shows nothing new, because keys are independent in every action.
- **DBResolver.** Two `DBResolver`s, so that one can be registered with the
  package and the other not. `MaxRegister = 3` lets three configs be added in
  any order. `MaxClose = 2` allows a package `Close` before and after an
  `Initialize`.

## Fairness

Each loop is a goroutine driven by a `time.Ticker` (`StartCronJob`). While it
runs, its next step is eventually taken, so each `HealthCheckLoop(m)` and
`ResolveLoop(h)` gets weak fairness. Once `Close` is called, its `Clear` runs
to the end in the calling goroutine, so `CloseClear(m)` is weakly fair too.

The redis refresh goroutine also runs on a ticker and is never stopped, so
`Refresh` is weakly fair. `getCluster` goes on to set `onUpdate`, so
`SetOnUpdate` is weakly fair too.

The environment's steps are bounded, so every behaviour ends with servers that no
longer change. The convergence properties are stated with `<>[]`, which is
meaningful because of that bound.

The i18n start-up goroutines and the SDK's listener goroutine run until they
are done, so `Translator` is weakly fair. The program's `SetTranslator*`
calls, publishing in nacos and requests are environment, and get no fairness. `i18n_compose` does not check deadlock, because with no request
the translator stops once everything is loaded. `DBResolver` has no
goroutines and no liveness. Its runs do not check deadlock either, because
the program may stop calling it at any point.

Backends, `Close` and DNS answers are environment and get no fairness. A backend
may stay down forever; `EvictionOrRecovery` allows that by accepting eviction,
and `ReadyOnceBackendsUp` assumes only that the backends eventually stay up.
DNS may keep failing, so that property is stated for the managers with an
IP-literal DSN; a hostname alone may never resolve. A hostname-only manager
also needs a new dial after each loss, and `MaxGen` bounds the dials.

## Not modelled

- the one-minute panic of `RunAndWait`: it is wall-clock time. What it waits
  for is `ReadyOnceBackendsUp`;
- the `GlobalInstances` registry, which the metrics plugin reads. It is keyed
  by address, so closing one instance deletes the entry of another instance
  at the same address, for example the peer's copy that `NotifyPeer` removes.
  A passing property would need a run of its own.
- `DBResolver.Use`/`Call` and `ReadRole` (spec 4.2 and 4.3);
- the redis refresh goroutine's missing stop, which leaks it;
- `NacosTranslator.Close`, which nothing in the repository calls. Several
  groups writing the same locale are also not modelled, nor the regular
  expression that splits a text into placeholders, nor the i18n tools
  (command-line file and HTTP I/O);
- the xxl-job and gateway servers: each is `Start` (listen and serve) and
  `Stop`, with the shutdown left to go-zero's `proc` and `net/http`; their
  hazards are listed in `PROJECT.json`;
- the NDS HTTP transport (`rest/httpc/v2/nds`): `Register` swaps the nacos
  naming client under `n.mu` while `dialContext` reads it without the lock.
  That race is listed as a hazard; checking it needs a violation run, and
  the twelve runs the project keeps are all taken by the questions above;
- the strict redis wrapper: JSON encoding around go-zero's `Redis`, whose
  code is not in this repository.

The goctl generators, the formatting helpers (decimal, datetime), logging and the
config loader are data transformation or I/O and are out of TLC's scope.

## Defects seen while modelling that no run checks

These were found while translating the code. A model run would add nothing that a
unit test does not show:
- **Default locale.** `MiddlewareHandler` (`core/i18n/i18n.go` 121) sets
  `acceptLang` to the default locale, but the header loop overwrites it with
  `r.Header.Get`, which is `""` when no header is set. A request without the
  header gets no translator, and the default locale is never used.
- **Raw header values.** A header value missing from `localeMap` is used as the
  locale itself (line 129). Browsers send values such as `en-US,en;q=0.9`.
  `LocalizeText` then fails with "cache not found for locale" before its
  default-locale fallback is reached.
- **`SetLocaleTCtx`.** It (line 172) sets the locale on a copy of the
  `EmbeddedTranslator` stored in the context. It returns nil, and nothing changes.
- **Locales lost at start-up.** `InitByTranslatorConfig` logs the errors of
  its goroutines and returns nil (`nacos_translator.go` 112-130). A data ID
  whose `SearchConfig`, `GetConfig` or `ListenConfig` failed, or whose
  config was malformed at start-up, is never loaded and never listened to,
  while `SetTranslatorByConfig` reports success. `i18n_compose` reaches
  these states. `CacheConverges` is therefore stated only for the data IDs
  whose listener was registered.
- **A retried `SetTranslator` serves stale texts.** TLC finds this with
  `MaxInit = 2` in 15 states:
  1. The first call's listener for `fr.json` is registered and knows v1.
  2. nacos publishes v2.
  3. Another data ID fails, so `Init` returns an error.
  4. The program calls again. `GetConfig` and `InitCache` store v2, but
     `ListenConfig` fails.
  5. nacos goes back to v1. The surviving listener last saw v1, so it reports
     nothing.

  The cache serves v2 for good.
- **No fallback after `SetTranslator`.** `Init` (`nacos_translator.go`
  144-192) never sets `defaultType`, so `LocalizeText` of a translator
  started from the environment does not fall back to a default locale.
- **Late `Register`.** `DBResolver.Register` after `Initialize`
  (`dbresolver.go` 108) compiles the config without `Validate` and drops
  the error of `compileConfig`.
- **Half-bound config.** A config whose second table fails `schema.Parse`
  leaves its first table bound in `rmap` (`dbresolver.go` 167-179), and
  `Initialize` stops compiling at that error. `dbr_routing` shows the routing
  stays consistent with the bindings that were made.
- **Deleted keys.** `UpdateLocale` never deletes, so a key removed in nacos is
  served until the process restarts.
- **IP-literal replica removed by the source.** With a source hostname that
  resolves to the address of an IP-literal replica DSN, `ReadyOnceBackendsUp`
  for the replica manager is violated in 10 states, with every backend up:
  the source's resolve loop stores an instance at that address, its
  `NotifyPeer` removes the replica's instance, and nothing recreates an
  IP-literal instance. The replica manager has no instance from then on.
- **Static source removed by a peer.** A replica hostname resolving to an
  IP-literal source address removes the source instance through `NotifyPeer`. No
  loop recreates it. The `ServerManager` model reaches this, but spec section 8
  leaves the peer removal as an open question, so no run asserts an outcome.
