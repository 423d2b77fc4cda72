---------------------------- MODULE I18nRequest ----------------------------
(***************************************************************************)
(* The request side of i18n: I18n.MiddlewareHandler picks the locale of a *)
(* request from its headers and puts an EmbeddedTranslator into the       *)
(* context (src/core/i18n/i18n.go); a handler may override the locale     *)
(* with SetLocaleTCtx and translates keys with LocalizeText, which looks  *)
(* the key up in NacosTranslator's cache and falls back to the default    *)
(* locale (src/i18n/i18ngo/nacos_translator.go).  A text is identified by *)
(* the locale whose cache it came from.  The translator's goroutines are  *)
(* seen only through CacheGrows; module I18n composes this module with    *)
(* NacosTranslator and checks that the translator implements it.          *)
(***************************************************************************)
EXTENDS Naturals, Sequences, FiniteSets

CONSTANTS
    Locales,        \* i18ngo.Locales: the locales with a cache
    Tags,           \* header values a client may send
    DefaultLocale,  \* I18nConf.DefaultLocale (also t.defaultType)
    Headers,        \* i.headers, in order
    Keys,           \* translation keys
    NoTranslator    \* the context carries no EmbeddedTranslator

HeaderNames == {Headers[i] : i \in 1..Len(Headers)}
\* i.localeMap as MustNewI18n builds it: every supported locale to itself.
LocaleMap == [x \in Locales |-> x]
\* A request's headers; "" is a header that is not set.
Requests == [HeaderNames -> Tags \cup {""}]
Error == "error"
Untranslated == "untranslated"

VARIABLES
    cache,     \* [Locales -> SUBSET Keys]: the keys each locale's cache has
    req,       \* the headers of the request being served (none yet: NoTranslator)
    ctx,       \* the locale of the context's EmbeddedTranslator, or NoTranslator
    result     \* [key, out] of the handler's last LocalizeText(ctx, key)

vars == <<cache, req, ctx, result>>

-----------------------------------------------------------------------------
\* The loop of MiddlewareHandler (i18n.go 119-125): the first header that is
\* set, else the last header read (""), else the default locale.
AcceptLang(r) ==
    IF Len(Headers) = 0 THEN DefaultLocale
    ELSE LET set == {i \in 1..Len(Headers) : r[Headers[i]] # ""}
         IN IF set = {} THEN ""
            ELSE r[Headers[CHOOSE i \in set : \A j \in set : i <= j]]

\* i18n.go 127-130: localeMap, else the header value itself as a LocaleT.
LangOf(tag) == IF tag \in DOMAIN LocaleMap THEN LocaleMap[tag] ELSE tag

\* Mutant of Lookup: a missing key is an error, without the fallback.
LookupNoFallback(k, l) ==
    IF l \notin Locales \/ k \notin cache[l] THEN Error ELSE l

\* NacosTranslator.LocalizeText (lines 200-217): an unknown locale is an
\* error; a missing key is looked up again in defaultType.
RECURSIVE Lookup(_, _)
Lookup(k, l) ==
    IF l \notin Locales THEN Error
    ELSE IF k \in cache[l] THEN l
    ELSE IF DefaultLocale # "" /\ DefaultLocale # l THEN Lookup(k, DefaultLocale)
    ELSE Error

Init ==
    /\ cache \in [Locales -> SUBSET Keys]
    /\ req = NoTranslator
    /\ ctx = NoTranslator
    /\ result = [key |-> NoTranslator, out |-> Untranslated]

-----------------------------------------------------------------------------
(* MiddlewareHandler (i18n.go 113-141) for a new request.                *)
Handle(r) ==
    LET tag == AcceptLang(r) IN
    /\ req' = r
    /\ ctx' = IF tag # "" THEN LangOf(tag) ELSE NoTranslator
    /\ result' = [key |-> NoTranslator, out |-> Untranslated]
    /\ UNCHANGED cache

(* The translator's listener and start-up goroutines store texts:        *)
(* StoreLocale and UpdateLocale only Store into the locale's sync.Map,    *)
(* so a locale's cache gains keys and never loses one.                   *)
CacheGrows(c) ==
    /\ \A l \in Locales : cache[l] \subseteq c[l]
    /\ c # cache
    /\ cache' = c
    /\ UNCHANGED <<req, ctx, result>>

(* LocalizeText(ctx, key) (i18n.go 150-159 and 160-168): without a       *)
(* translator the key comes back as it is; an error also returns it.     *)
Localize(k) ==
    /\ result' = [key |-> k,
                  out |-> IF ctx = NoTranslator THEN Untranslated ELSE Lookup(k, ctx)]
    /\ UNCHANGED <<cache, req, ctx>>

Next ==
    \/ \E c \in [Locales -> SUBSET Keys] : CacheGrows(c)
    \/ \E r \in Requests : Handle(r)
    \/ \E k \in Keys : Localize(k)

Spec == Init /\ [][Next]_vars

-----------------------------------------------------------------------------
TypeOK ==
    /\ cache \in [Locales -> SUBSET Keys]
    /\ req \in Requests \cup {NoTranslator}
    /\ ctx \in Tags \cup {DefaultLocale, NoTranslator}
    /\ result.out \in Locales \cup {Error, Untranslated}

(* A key the default locale's cache has when LocalizeText runs is always *)
(* translated when the middleware put a supported locale in the context, *)
(* whichever one: LocalizeText falls back to defaultType (lines 208-211). *)
(* A header value that is not a locale (a raw "en-US,en;q=0.9") is an    *)
(* error before any fallback (lines 202-206), so it is left out.          *)
TranslatedWhenDefaultHas ==
    [][\A k \in Keys :
         (Localize(k) /\ ctx \in Locales /\ k \in cache[DefaultLocale])
            => result'.out # Error]_vars

=============================================================================
