-------------------------------- MODULE I18n --------------------------------
(***************************************************************************)
(* The i18n service as it runs: NacosTranslator's start-up and listener   *)
(* goroutines fill the per-locale cache (NacosTranslator), and once       *)
(* MustNewI18n has returned the HTTP middleware and the handlers read it  *)
(* (I18nRequest).  The two share t.cache; the request side only sees      *)
(* which keys each locale has, so I18nRequest is instantiated with its    *)
(* cache mapped from the translator's texts (tcache).  Its Spec, asserted as a     *)
(* property, says that every step of the translator is a CacheGrows step  *)
(* of the request side's model: no key ever disappears.                   *)
(***************************************************************************)
CONSTANTS
    TeamID, TeamIDs,    \* I18nConf.TeamID and I18nConf.TeamIDs
    Locales, Keys, Values, Absent, NoConfig,
    MaxPublish, MaxInit, Malformed, SdkMayFail, MissingAtStart,
    Tags, DefaultLocale, Headers, NoTranslator,
    Names, Atoi, NotInt, Lits, ArgVals, Pct, Failed    \* placeholder formatting

VARIABLES
    published, pubs, phase, entry, inits, task, got, known, tcache, \* translator
    req, ctx, result                                           \* request side

ntVars == <<published, pubs, phase, entry, inits, task, got, known, tcache>>
rqVars == <<req, ctx, result>>
vars == <<ntVars, rqVars>>

\* I18nConf.Validate (conf.go 48-56), which MustNewI18n asserts.
ASSUME TeamIDs # {} \/ TeamID # ""

\* MustNewI18n (i18n.go 47-74) appends TeamID to TeamIDs unless it is
\* there and passes them as TranslatorConf.Groups; InitByTranslatorConfig
\* (nacos_translator.go 84-98) keeps them, as they are never empty, and
\* reads every locale's data ID, as MustNewI18n sets no DataIDs.
Groups == IF TeamID \in TeamIDs THEN TeamIDs ELSE TeamIDs \cup {TeamID}

\* tcache is NacosTranslator's t.cache.
NT == INSTANCE NacosTranslator WITH cache <- tcache

\* The refinement mapping: a locale's cache has the keys with a text.
KeySets == [l \in Locales |-> {k \in Keys : tcache[l][k] # Absent}]

RQ == INSTANCE I18nRequest WITH cache <- KeySets

\* The formatting LocalizeSprintf and LocalizeInfof apply to a text.
FMT == INSTANCE I18nFormat

Init == NT!Init /\ RQ!Init

\* A translator goroutine (or the publishing environment) takes a step.
TranslatorSide == NT!Next /\ UNCHANGED rqVars
TranslatorStep == NT!Translator /\ UNCHANGED rqVars

\* Requests are served only after MustNewI18n has returned, i.e. after its
\* SetTranslatorByConfig set initialized and GetTranslator returned the
\* translator (i18n.go 73-75).  After a successful SetTranslator it fails
\* ("translator already initialized") and the process exits.
RequestSide ==
    /\ NT!Initialized
    /\ entry = "config"
    /\ UNCHANGED ntVars
    /\ \/ \E r \in RQ!Requests : RQ!Handle(r)
       \/ \E k \in Keys : RQ!Localize(k)

Next == TranslatorSide \/ RequestSide

Spec == Init /\ [][Next]_vars /\ WF_vars(TranslatorStep)

-----------------------------------------------------------------------------
(* The translator's goroutines implement the cache the request side      *)
(* relies on: StoreLocale and UpdateLocale never drop a key, so a text   *)
(* a handler found stays available to every later request.               *)
CacheOnlyGrows == RQ!Spec

(* LocalizeText falls back to the default locale for whatever keys the   *)
(* cache holds at the time of the call, while the listener updates it.   *)
FallbackWhileUpdating == RQ!TranslatedWhenDefaultHas

(* Start-up and the listener miss no published update (NacosTranslator). *)
CacheConverges == NT!CacheConverges

(* LocalizeSprintf and LocalizeInfof put every argument where the text's *)
(* placeholders say (I18nFormat), and a handler's LocalizeSprintf gives   *)
(* back the untranslated key exactly when its LocalizeText would: with no *)
(* translator in the context, or when the lookup with fallback fails.     *)
FormatMatchesReference ==
    /\ FMT!FormatMatchesReference
    /\ \A k \in Keys :
        LET failed == ctx = NoTranslator \/ RQ!Lookup(k, ctx) = RQ!Error
            content == IF failed THEN Failed ELSE <<CHOOSE l \in Lits : TRUE>>
        IN (FMT!CtxLocalizeSprintf(ctx # NoTranslator, k, content, <<>>).out = k) = failed

=============================================================================
