--------------------------- MODULE MCDBResolver ---------------------------
(* Instantiation of DBResolver for TLC: two DBResolver values and five    *)
(* configs that between them take every branch of Validate and           *)
(* compileConfig.                                                        *)
EXTENDS DBResolver, TLC

CONSTANTS d1, d2, cGlobal, cOrders, cSame, cUsers, cGlobal2, unparsable

DSN(p) == [path |-> p, port |-> 3306]

MCDRs == {d1, d2}
MCCfgs == {cGlobal, cOrders, cSame, cUsers, cGlobal2}
MCTables == {"orders", "users"}

MCConf ==
    \* a source and a replica, no datas: the global resolver
       cGlobal :> [sources |-> <<DSN("db1")>>, replicas |-> <<DSN("db2")>>, datas |-> <<>>]
    \* replicas only, bound to orders: the primary is the EmptyServerManager
    @@ cOrders :> [sources |-> <<>>, replicas |-> <<DSN("db3")>>, datas |-> <<"orders">>]
    \* localhost and 127.0.0.1: rejected by Validate
    @@ cSame :> [sources |-> <<DSN("localhost")>>, replicas |-> <<DSN("127.0.0.1")>>,
                datas |-> <<"users">>]
    \* a source only, bound to users and to a model stmt.Parse rejects
    @@ cUsers :> [sources |-> <<DSN("db4")>>, replicas |-> <<>>,
                 datas |-> <<"users", unparsable>>]
    \* a second config without datas: a conflicted global resolver
    @@ cGlobal2 :> [sources |-> <<DSN("db5")>>, replicas |-> <<>>, datas |-> <<>>]
=============================================================================
