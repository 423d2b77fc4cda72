---------------------------- MODULE MCRouter ----------------------------
(* Instantiation of Router for TLC: three backend addresses and a 2-bit *)
(* RoundRobin counter standing for Go's uint32.                          *)
EXTENDS Router

MCAddrs == 1..3
=============================================================================
