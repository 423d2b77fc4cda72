------------------------------- MODULE MCI18n -------------------------------
(* Instantiation of I18n for TLC: one team group, two locales with fr the *)
(* default, one key and two texts; clients send a supported tag or a raw  *)
(* header value that is no locale in the X-Lang or Accept-Language header. *)
EXTENDS I18n, Integers

CONSTANTS g1, en, fr, enUS, k1, k2, v1, v2, absent, noConfig, malformed, noTranslator,
          n0, n1, nneg, nx, lit, a1, a2, pct, notInt, failed

\* I18nConf.TeamIDs lists the team of TeamID.
MCTeamIDs == {g1}
MCLocales == {en, fr}
\* A raw Accept-Language value such as "en-US,en;q=0.9": not in localeMap.
MCTags == MCLocales \cup {enUS}
MCKeys == {k1}
MCValues == {v1, v2}
MCHeaders == <<"X-Lang", "Accept-Language">>

\* Placeholders "{0}", "{1}", "{-1}" and "{name}"; one literal; two
\* argument strings.
MCNames == {n0, n1, nneg, nx}
MCAtoi == [n \in MCNames |-> CASE n = n0 -> 0 [] n = n1 -> 1 [] n = nneg -> -1
                                  [] OTHER -> notInt]
MCLits == {lit}
MCArgVals == {a1, a2}
=============================================================================
