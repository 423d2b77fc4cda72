-------------------------- MODULE MCServerManager --------------------------
(* Instantiation of ServerManager for TLC: two backend addresses and    *)
(* three shapes of configuration, one per group of definitions below.   *)
EXTENDS ServerManager

CONSTANTS a1, a2, hs, hr, hr2

\* A source hostname with two A records (the primary flips between them)
\* and a replica hostname sharing one of them, no IP-literal DSN.
MCAddrs == {a1, a2}
MCHosts == {hs, hr}
MCHostRole == [h \in MCHosts |-> IF h = hs THEN "source" ELSE "replica"]
MCHostAnswers == [h \in MCHosts |-> IF h = hs THEN {a1, a2} ELSE {a2}]
MCStaticAddrs == [r \in Roles |-> {}]

\* Two replica hostnames that are aliases of the same address.
MCHostsAlias == {hs, hr, hr2}
MCHostRoleAlias == [h \in MCHostsAlias |-> IF h = hs THEN "source" ELSE "replica"]
MCHostAnswersAlias == [h \in MCHostsAlias |-> IF h = hs THEN {a2} ELSE {a1}]
MCStaticNone == [r \in Roles |-> {}]

\* A source hostname with one A record, and an IP-literal replica at the
\* other address (MCStaticReplica); the replica runs no resolve loop.
MCHostsLive == {hs}
MCHostRoleLive == [h \in MCHostsLive |-> "source"]
MCHostAnswersLive == [h \in MCHostsLive |-> {a1}]

\* One replica hostname with two A records.
MCHostsReplicaOnly == {hr}
MCHostRoleReplicaOnly == [h \in MCHostsReplicaOnly |-> "replica"]
MCHostAnswersReplicaOnly == [h \in MCHostsReplicaOnly |-> {a1, a2}]
\* An IP-literal replica beside the replica hostname: it is never evicted.
MCStaticReplica == [r \in Roles |-> IF r = "replica" THEN {a2} ELSE {}]
=============================================================================
