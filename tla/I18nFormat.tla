----------------------------- MODULE I18nFormat -----------------------------
(***************************************************************************)
(* Placeholder formatting of i18ngo (src/i18n/i18ngo/nacos_translator.go): *)
(* Sprintf replaces, left to right, every match of RE in a translated     *)
(* text: "%s" by the next positional argument, "{i}" by argument i, and   *)
(* "{name}" by the named value; LocalizeSprintf and LocalizeInfof wrap it *)
(* around LocalizeText, and core/i18n's EmbeddedTranslator wraps those.   *)
(*                                                                         *)
(* A text is seen as RE splits it: a sequence of tokens, each the match   *)
(* "%s" (Pct), a match "{name}" (a record with the name between the       *)
(* braces), or text between matches (a model value of Lits).  Arguments   *)
(* are model values; the output is the sequence of replaced tokens, as    *)
(* ReplaceAllStringFunc never rescans a replacement.                      *)
(***************************************************************************)
EXTENDS Integers, Sequences, SequencesExt

CONSTANTS
    Names,      \* texts between braces that RE matches
    Atoi,       \* [Names -> Int \cup {NotInt}]: strconv.Atoi of the name
    NotInt,     \* Atoi returned an error
    Lits,       \* text between two matches
    ArgVals,    \* argument strings
    Pct,        \* the match "%s"
    Failed      \* LocalizeText returned an error (unknown locale, missing key)

Brace(n) == [name |-> n]
Tokens == {Pct} \cup {Brace(n) : n \in Names} \cup Lits

-----------------------------------------------------------------------------
\* The closure of Sprintf (lines 265-276) on a "{...}" match: an index in
\* range takes that argument, else a name of kv takes its value, else the
\* match stays.  Any other token is left as it is.
Replace(m, kv, args) ==
    IF m \in {Brace(n) : n \in Names}
    THEN IF Atoi[m.name] # NotInt /\ Atoi[m.name] >= 0 /\ Atoi[m.name] < Len(args)
         THEN args[Atoi[m.name] + 1]
         ELSE IF m.name \in DOMAIN kv THEN kv[m.name] ELSE m
    ELSE m

\* Mutant of SprintfFrom: every match, not only "%s", consumes an argument.
RECURSIVE SprintfFromCountAll(_, _, _, _)
SprintfFromCountAll(f, kv, args, argIndex) ==
    IF f = <<>> THEN <<>>
    ELSE IF argIndex < Len(args) /\ Head(f) = Pct
         THEN <<args[argIndex + 1]>> \o SprintfFromCountAll(Tail(f), kv, args, argIndex + 1)
         ELSE <<Replace(Head(f), kv, args)>>
                \o SprintfFromCountAll(Tail(f), kv, args,
                                       IF Head(f) \in Lits THEN argIndex ELSE argIndex + 1)

\* Sprintf (lines 258-277): argIndex advances only when a "%s" takes an
\* argument; once the arguments run out "%s" stays as it is.
RECURSIVE SprintfFrom(_, _, _, _)
SprintfFrom(f, kv, args, argIndex) ==
    IF f = <<>> THEN <<>>
    ELSE IF argIndex < Len(args) /\ Head(f) = Pct
         THEN <<args[argIndex + 1]>> \o SprintfFrom(Tail(f), kv, args, argIndex + 1)
         ELSE <<Replace(Head(f), kv, args)>> \o SprintfFrom(Tail(f), kv, args, argIndex)

Sprintf(f, kv, args) == SprintfFrom(f, kv, args, 0)

\* The map LocalizeInfof builds (lines 245-248): one pair after the other,
\* so a name given twice keeps its last value.
RECURSIVE KvFrom(_, _)
KvFrom(kvargs, kv) ==
    IF kvargs = <<>> THEN kv
    ELSE KvFrom(Tail(Tail(kvargs)), (kvargs[1] :> kvargs[2]) @@ kv)

\* Results are [out, err]; err is "ok" or the error's origin.
Ok(out) == [out |-> out, err |-> "ok"]

\* LocalizeSprintf (lines 223-229): content is LocalizeText's result.
LocalizeSprintf(content, args) ==
    IF content = Failed THEN [out |-> <<>>, err |-> Failed]
    ELSE Ok(Sprintf(content, <<>>, args))

\* LocalizeInfof (lines 235-250): an odd number of arguments is refused
\* before the text is looked up; positional arguments are none.
LocalizeInfof(content, kvargs) ==
    IF Len(kvargs) % 2 # 0 THEN [out |-> <<>>, err |-> "odd"]
    ELSE IF content = Failed THEN [out |-> <<>>, err |-> Failed]
    ELSE Ok(Sprintf(content, KvFrom(kvargs, <<>>), <<>>))

\* EmbeddedTranslator.LocalizeSprintf (core/i18n/i18n.go 151-157): on an
\* error the untranslated text comes back with the error.
EmbeddedLocalizeSprintf(text, content, args) ==
    LET r == LocalizeSprintf(content, args)
    IN IF r.err = "ok" THEN r ELSE [out |-> text, err |-> r.err]

\* The package LocalizeSprintf (core/i18n/i18n.go 179-188): without a
\* translator in the context the text comes back with no error.
CtxLocalizeSprintf(hasTranslator, text, content, args) ==
    IF ~hasTranslator THEN Ok(text) ELSE EmbeddedLocalizeSprintf(text, content, args)

-----------------------------------------------------------------------------
(* The reference: the k-th "%s" of the text (counting from 0) takes the   *)
(* k-th argument, whatever "{i}" matches stand between them; a "{i}" with *)
(* 0 <= i < len(args) takes argument i; any other "{name}" takes the last *)
(* value given for name; everything else is kept.                         *)
PctBefore(f, j) == Len(SelectSeq(SubSeq(f, 1, j - 1), LAMBDA t : t = Pct))
\* The value of the last pair naming n: the first match in reversed order.
LastValue(kvargs, n) ==
    LET pairs == [i \in 1..(Len(kvargs) \div 2) |-> <<kvargs[2 * i - 1], kvargs[2 * i]>>]
        rev == Reverse(pairs)
    IN rev[SelectInSeq(rev, LAMBDA p : p[1] = n)][2]
KeyNames(kvargs) == {kvargs[2 * i - 1] : i \in 1..(Len(kvargs) \div 2)}

RefFormat(f, kvargs, args) ==
    [j \in DOMAIN f |->
        LET t == f[j] IN
        CASE t = Pct ->
                 IF PctBefore(f, j) < Len(args) THEN args[PctBefore(f, j) + 1] ELSE t
          [] t \in Lits -> t
          [] Atoi[t.name] # NotInt /\ Atoi[t.name] \in 0..(Len(args) - 1) ->
                 args[Atoi[t.name] + 1]
          [] t.name \in KeyNames(kvargs) -> LastValue(kvargs, t.name)
          [] OTHER -> t]

\* LocalizeInfof's arguments: up to two name/value pairs, a name possibly
\* given twice; odd lengths are refused before anything else.
KvArgs(k) == {FlattenSeq(ps) : ps \in BoundedSeq(Names \X ArgVals, k)}

(* Sprintf, given LocalizeSprintf's positional arguments and the map      *)
(* LocalizeInfof builds from its pairs, replaces every match as the        *)
(* reference says, for every text of up to three tokens; the running      *)
(* argIndex must count "%s" matches only, and later pairs must win.       *)
FormatMatchesReference ==
    \A f \in BoundedSeq(Tokens, 3), args \in BoundedSeq(ArgVals, 2), kvargs \in KvArgs(2) :
        /\ Sprintf(f, KvFrom(kvargs, <<>>), args) = RefFormat(f, kvargs, args)
        /\ LocalizeInfof(f, kvargs) = Ok(RefFormat(f, kvargs, <<>>))
        /\ LocalizeSprintf(f, args) = Ok(RefFormat(f, <<>>, args))

====
