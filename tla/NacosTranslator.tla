-------------------------- MODULE NacosTranslator --------------------------
(***************************************************************************)
(* The translation cache of i18ngo's NacosTranslator                      *)
(* (src/i18n/i18ngo/nacos_translator.go, translator.go): one config per   *)
(* (group, locale) in nacos, loaded at start-up by one goroutine each     *)
(* (ExistsTranslator, GetConfig + InitCache, ListenConfig) and kept up to *)
(* date by the nacos listener (OnChange -> UpdateCache -> UpdateLocale).  *)
(* A config is a map from keys to texts; Absent marks a missing key.      *)
(***************************************************************************)
EXTENDS Naturals, FiniteSets

CONSTANTS
    Groups,         \* the nacos groups (I18N_<TEAM>) read
    Locales,        \* the locales whose <locale>.json data IDs are read
    Keys, Values,   \* translation keys and texts
    Absent,         \* a key with no text
    NoConfig,       \* no config published for the data ID
    MaxPublish,     \* bound: configs published after start-up
    MaxInit,        \* bound: calls of SetTranslator* (start-up attempts)
    Malformed,      \* a config that is not a JSON object of strings
    SdkMayFail,     \* the nacos SDK calls of start-up may return an error
    MissingAtStart  \* a data ID may be created only after start-up

Pairs == Groups \X Locales
Configs == [Keys -> Values \cup {Absent}]

VARIABLES
    published,  \* [Pairs -> Configs \cup {Malformed, NoConfig}]: in nacos
    pubs,       \* configs published so far
    phase,      \* "idle", "init" (a SetTranslator* call holds mu), "ready" (initialized)
    entry,      \* the start-up of the current or last call: "config" or "env"
    inits,      \* start-up attempts so far
    task,       \* [Pairs -> pc of the start-up goroutine]
    got,        \* [Pairs -> config returned by GetConfig]
    known,      \* [Pairs -> config the listener last saw], NoConfig if none
    cache       \* [Locales -> [Keys -> Values \cup {Absent}]]: t.cache

vars == <<published, pubs, phase, entry, inits, task, got, known, cache>>

\* "failed": SetupTranslator returned an error (stored in errMap).
TaskPcs == {"idle", "exists", "get", "listen", "done", "failed"}
Contents == Configs \cup {Malformed}

-----------------------------------------------------------------------------
\* StoreLocale (lines 36-49), from InitCache: every key of the config is
\* stored; keys not in it stay.
StoreLocale(c, conf) == [k \in Keys |-> IF conf[k] # Absent THEN conf[k] ELSE c[k]]

\* Mutant of UpdateLocale: a key already cached is never rewritten.
UpdateLocaleAddOnly(c, conf) == [k \in Keys |-> IF c[k] = Absent THEN conf[k] ELSE c[k]]

\* Mutant of UpdateLocale: the cache mirrors the config, dropping the keys
\* the config no longer has.
UpdateLocaleMirror(c, conf) == conf

\* UpdateLocale (lines 51-70): a key missing from the cache or with another
\* text is stored; nothing is deleted.
UpdateLocale(c, conf) ==
    [k \in Keys |-> IF conf[k] # Absent /\ c[k] # conf[k] THEN conf[k] ELSE c[k]]

Init ==
    /\ published \in [Pairs -> Contents \cup (IF MissingAtStart THEN {NoConfig} ELSE {})]
    /\ pubs = 0
    /\ phase = "idle"
    /\ entry = "none"
    /\ inits = 0
    /\ task = [p \in Pairs |-> "idle"]
    /\ got = [p \in Pairs |-> NoConfig]
    /\ known = [p \in Pairs |-> NoConfig]
    /\ cache = [l \in Locales |-> [k \in Keys |-> Absent]]

-----------------------------------------------------------------------------
(* A call under mu while not initialized (translator.go 49-98):          *)
(* SetTranslatorByConfig runs InitByTranslatorConfig ("config"),         *)
(* SetTranslator and SetTranslatorByConf run Init ("env").  Both start   *)
(* one goroutine per group and data ID (nacos_translator.go 101-120 and  *)
(* 163-182).  After a failed call the clients and listeners of the last  *)
(* one stay registered; a listener is kept per data ID, the newest, as   *)
(* every listener delivers the same current content.                     *)
StartInit(e) ==
    /\ phase = "idle"
    /\ inits < MaxInit
    /\ phase' = "init"
    /\ entry' = e
    /\ inits' = inits + 1
    /\ task' = [p \in Pairs |-> "exists"]
    /\ UNCHANGED <<published, pubs, got, known, cache>>

(* ExistsTranslator (lines 322-343): Client and SearchConfig; a data ID  *)
(* that is not there, or an error of either, ends the goroutine quietly. *)
Exists(p) ==
    /\ task[p] = "exists"
    /\ \/ /\ published[p] # NoConfig
          /\ task' = [task EXCEPT ![p] = "get"]
       \/ /\ published[p] = NoConfig \/ SdkMayFail
          /\ task' = [task EXCEPT ![p] = "done"]
    /\ UNCHANGED <<published, pubs, phase, entry, inits, got, known, cache>>

(* SetupTranslator up to InitCache (lines 345-363, 311-320 and 72-82):   *)
(* Client or GetConfig may fail; a config that does not unmarshal is an  *)
(* error of InitCache; either way the goroutine returns before            *)
(* ListenConfig.  Otherwise StoreLocale fills the locale's cache.        *)
GetAndInitCache(p) ==
    LET conf == published[p] IN
    /\ task[p] = "get"
    /\ \/ /\ SdkMayFail
          /\ task' = [task EXCEPT ![p] = "failed"]
          /\ UNCHANGED <<got, cache>>
       \/ /\ conf = Malformed
          /\ task' = [task EXCEPT ![p] = "failed"]
          /\ got' = [got EXCEPT ![p] = conf]
          /\ UNCHANGED cache
       \/ /\ conf \in Configs
          /\ task' = [task EXCEPT ![p] = "listen"]
          /\ got' = [got EXCEPT ![p] = conf]
          /\ cache' = [cache EXCEPT ![p[2]] = StoreLocale(@, conf)]
    /\ UNCHANGED <<published, pubs, phase, entry, inits, known>>

(* ListenConfig (lines 364-379): the SDK starts from what GetConfig      *)
(* returned and reports any later difference; it may fail.               *)
Listen(p) ==
    /\ task[p] = "listen"
    /\ \/ /\ task' = [task EXCEPT ![p] = "done"]
          /\ known' = [known EXCEPT ![p] = got[p]]
       \/ /\ SdkMayFail
          /\ task' = [task EXCEPT ![p] = "failed"]
          /\ UNCHANGED known
    /\ UNCHANGED <<published, pubs, phase, entry, inits, got, cache>>

\* Some goroutine stored an error in errMap.
SetupFailed == \E p \in Pairs : task[p] = "failed"

\* After wg.Wait: InitByTranslatorConfig only logs the errors and returns
\* nil (lines 121-130); Init returns them joined (lines 183-191).
InitFails(e) == e = "env" /\ SetupFailed

(* The call returns: on an error initialized stays false and mu is       *)
(* released, so the program may call again; otherwise initialized.       *)
FinishInit ==
    /\ phase = "init"
    /\ \A p \in Pairs : task[p] \in {"done", "failed"}
    /\ phase' = IF InitFails(entry) THEN "idle" ELSE "ready"
    /\ UNCHANGED <<published, pubs, entry, inits, task, got, known, cache>>

-----------------------------------------------------------------------------
(* Environment: a config is published in nacos.                          *)
Publish(p, c) ==
    /\ pubs < MaxPublish
    /\ c # published[p]
    /\ pubs' = pubs + 1
    /\ published' = [published EXCEPT ![p] = c]
    /\ UNCHANGED <<phase, entry, inits, task, got, known, cache>>

\* GetTranslator (translator.go 100-108): the translator, once initialized.
Initialized == phase = "ready"

(* A listener is registered once known is set, and stays registered      *)
(* through later start-up attempts.                                      *)
(* The listener's OnChange with the current content: UpdateCache         *)
(* (lines 279-294, 296-303) then UpdateLocale; content that does not     *)
(* unmarshal is an error that is only logged.                            *)
OnChange(p) ==
    /\ known[p] # NoConfig
    /\ published[p] # NoConfig
    /\ known[p] # published[p]
    /\ known' = [known EXCEPT ![p] = published[p]]
    /\ cache' = IF published[p] = Malformed THEN cache
                ELSE [cache EXCEPT ![p[2]] = UpdateLocale(@, published[p])]
    /\ UNCHANGED <<published, pubs, phase, entry, inits, task, got>>

\* The steps of the start-up goroutines, of the call waiting for them and
\* of the SDK's listener goroutine.
Translator ==
    \/ FinishInit
    \/ \E p \in Pairs : Exists(p) \/ GetAndInitCache(p) \/ Listen(p) \/ OnChange(p)

Next ==
    \/ Translator
    \/ \E e \in {"config", "env"} : StartInit(e)
    \/ \E p \in Pairs, c \in Contents : Publish(p, c)

(* The goroutines keep running; the program's calls and publishing are   *)
(* not forced.                                                            *)
Spec == Init /\ [][Next]_vars /\ WF_vars(Translator)

-----------------------------------------------------------------------------
TypeOK ==
    /\ published \in [Pairs -> Contents \cup {NoConfig}]
    /\ pubs \in 0..MaxPublish
    /\ phase \in {"idle", "init", "ready"}
    /\ entry \in {"none", "config", "env"}
    /\ inits \in 0..MaxInit
    /\ task \in [Pairs -> TaskPcs]
    /\ got \in [Pairs -> Contents \cup {NoConfig}]
    /\ known \in [Pairs -> Contents \cup {NoConfig}]
    /\ cache \in [Locales -> [Keys -> Values \cup {Absent}]]

(* Once nothing is published any more, every key of every data ID whose *)
(* listener was registered is cached with its latest published text (one *)
(* group per locale, so the text is unique): GetConfig, InitCache,       *)
(* ListenConfig and the listener together miss no update, however       *)
(* publishing interleaves with them and whatever malformed content is    *)
(* published in between.                                                 *)
CacheConverges ==
    <>[](\A p \in Pairs, k \in Keys :
            (known[p] # NoConfig /\ published[p] \in Configs /\ published[p][k] # Absent)
                => cache[p[2]][k] = published[p][k])

=============================================================================
