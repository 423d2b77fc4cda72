------------------------- MODULE MCDiscoverResolver -------------------------
(* Instantiation of DiscoverResolver for TLC: two redis servers of one  *)
(* replica set and three run_ids, so that one restart has a fresh id.   *)
EXTENDS DiscoverResolver

CONSTANTS s1, s2, r1, r2, r3

MCServers == {s1, s2}
MCRunIds == {r1, r2, r3}
=============================================================================
