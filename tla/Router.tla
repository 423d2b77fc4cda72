------------------------------- MODULE Router -------------------------------
(***************************************************************************)
(* The statement path of dbresolver: the gorm callbacks that classify a   *)
(* statement as Read or Write (src/dbresolver/callbacks.go), the resolver *)
(* that turns the operation into an instance of the source or replica     *)
(* manager (resolver.go), and the Policy that picks among several         *)
(* (policy.go).  The managers are seen through GetInstances only: the     *)
(* healthy addresses of each role change between statements, as the      *)
(* ServerManager loops make them.  The source manager never holds more    *)
(* than one instance (PrimaryHoldsAtMostOne, checked in ServerManager).   *)
(*                                                                         *)
(* Raw SQL is a sequence of word tokens joined by single spaces; the code *)
(* tests on the text (prefix, length, suffix, the WITH regexp) are        *)
(* evaluated on that text.                                                *)
(***************************************************************************)
EXTENDS Integers, Sequences, FiniteSets

CONSTANTS
    Addrs,              \* backend addresses, 1..N so that they sort
    ReplicasConfigured, \* Config.Replicas is not empty
    PolicyKind,         \* "roundRobin" or "random"
    W,                  \* bit width of RoundRobinPolicy.next (uint32 in Go)
    MaxCalls            \* bound: Policy.Resolve calls

ASSUME
    /\ Addrs \subseteq Nat
    /\ ReplicasConfigured \in BOOLEAN
    /\ PolicyKind \in {"roundRobin", "random"}
    /\ W \in Nat \ {0}
    /\ MaxCalls \in Nat

Roles == {"source", "replica"}
Modulus == 2^W

\* Go's % truncates toward zero.
GoRem(a, b) == IF a >= 0 THEN a % b ELSE -((-a) % b)

\* The sorted slice GetInstances returns (connection.go 313-325).
RECURSIVE SortedSeq(_)
SortedSeq(S) ==
    IF S = {} THEN <<>>
    ELSE LET x == CHOOSE x \in S : \A y \in S : x <= y
         IN <<x>> \o SortedSeq(S \ {x})

-----------------------------------------------------------------------------
(* Raw SQL texts: an optional INSERT INTO, an optional CTE, a body and, *)
(* for a SELECT body, an optional locking clause or a semicolon.         *)
Cte == <<"WITH", "c", "AS", "(", "SELECT", "x", "FROM", "t", ")">>
SelectBodies == {<<"SELECT", "x", "FROM", "t">>, <<"SELECT", "1">>}
DmlBodies == {<<"UPDATE", "t", "SET", "x", "=", "1">>, <<"DELETE", "FROM", "t">>}
LockClauses == {<<"FOR", "UPDATE">>, <<"FOR", "SHARE">>, <<"FOR", "UPDATE", "NOWAIT">>}
Tails == LockClauses \cup {<<>>, <<";">>}
InsertInto == <<"INSERT", "INTO", "t">>

Texts ==
    {c \o b \o s : c \in {<<>>, Cte}, b \in SelectBodies, s \in Tails}
    \cup {c \o b : c \in {<<>>, Cte}, b \in DmlBodies}
    \cup {InsertInto \o c \o <<"SELECT", "x", "FROM", "t">> : c \in {<<>>, Cte}}

\* What the statement does, from how it was built: it writes, or it is a
\* locking read.  Either must run on the source (spec 4.1).
NeedsPrimary(sql) ==
    \E i \in 1..Len(sql) : sql[i] \in {"INSERT", "UPDATE", "DELETE", "SHARE"}

\* The text as the code sees it (strings.TrimSpace of the joined tokens).
RECURSIVE TextLen(_)
TextLen(sql) == IF Len(sql) <= 1 THEN (IF sql = <<>> THEN 0 ELSE Len(sql[1]))
                ELSE Len(sql[1]) + 1 + TextLen(Tail(sql))

\* callbacks.go 55: longer than 10, EqualFold(rawSQL[:6], "select") and not
\* EqualFold(rawSQL[len-10:], "for update").
IsPlainSelect(sql) ==
    /\ TextLen(sql) > 10
    /\ sql[1] = "SELECT"
    /\ ~(Len(sql) >= 2 /\ SubSeq(sql, Len(sql) - 1, Len(sql)) = <<"FOR", "UPDATE">>)

\* isWITHSelect (callbacks.go 40-47): the unanchored regexp
\* with\s+[a-zA-Z0-9_]+\s+as\s*\(.*\)\s*select\s+.*  on the text.
IsWord(t) == t \notin {"(", ")", "=", ";"}
IsWITHSelect(sql) ==
    \E i \in 1..Len(sql) - 3 :
        /\ sql[i] = "WITH" /\ IsWord(sql[i + 1]) /\ sql[i + 2] = "AS" /\ sql[i + 3] = "("
        /\ \E j \in i + 4..Len(sql) - 2 : sql[j] = ")" /\ sql[j + 1] = "SELECT"

\* Mutant of RoundRobinAdvance: the counter is read but never advanced.
RoundRobinLoad(n) == n

\* Mutant of RoundRobinAdvance: the counter is taken as unbounded.
RoundRobinUnwrapped(n) == n + 1

\* atomic.AddUint32(r.next, 1) (policy.go 35): the W-bit counter wraps.
RoundRobinAdvance(n) == (n + 1) % Modulus

-----------------------------------------------------------------------------
(* A statement as the callbacks see it: the callback kind, the           *)
(* dbresolver.Write / dbresolver.Read settings, a FOR clause, raw SQL.   *)
NoSQL == <<>>
Stmts ==
    [cb : {"create", "update", "delete"}, write : {FALSE}, read : {FALSE},
     locking : {FALSE}, sql : {NoSQL}]
    \cup [cb : {"query", "row"}, write : BOOLEAN, read : {FALSE},
          locking : BOOLEAN, sql : {NoSQL}]
    \cup [cb : {"query", "raw"}, write : BOOLEAN, read : BOOLEAN,
          locking : {FALSE}, sql : Texts]

\* switchGuess (callbacks.go 49-62), outside a transaction.
GuessOp(st) ==
    IF st.write THEN "write"
    ELSE IF st.read THEN "read"
    ELSE IF IsPlainSelect(st.sql) THEN "read"
    ELSE IF IsWITHSelect(st.sql) THEN "read"
    ELSE "write"

\* Mutant of Classify: switchReplica without the FOR clause test.
ClassifyIgnoringLock(st) ==
    CASE st.cb \in {"create", "update", "delete"} -> "write"
      [] st.cb = "raw" -> GuessOp(st)
      [] st.sql # NoSQL -> GuessOp(st)
      [] st.write -> "write"
      [] OTHER -> "read"

\* registerCallbacks (callbacks.go 10-17): the operation the callback of
\* the statement resolves, outside a transaction.
Classify(st) ==
    CASE st.cb \in {"create", "update", "delete"} -> "write"          \* switchSource
      [] st.cb = "raw" -> GuessOp(st)                                 \* switchGuess
      [] st.sql # NoSQL -> GuessOp(st)                                \* switchReplica
      [] st.write \/ st.locking -> "write"
      [] OTHER -> "read"

\* The statements that must run on the source: a create, update or delete,
\* a query forced to the write path or with a FOR clause, and raw SQL that
\* writes or locks unless forced to the read path.
StructuredNeedsPrimary(st) ==
    /\ st.sql = NoSQL
    /\ st.cb \in {"create", "update", "delete"} \/ st.write \/ st.locking
RawNeedsPrimary(st) ==
    /\ st.sql # NoSQL
    /\ st.write \/ (NeedsPrimary(st.sql) /\ ~st.read)

\* What the properties tell apart about a statement: whether it must run
\* on the source, and how it was built.
NeedOf(st) ==
    IF StructuredNeedsPrimary(st) THEN "structured"
    ELSE IF RawNeedsPrimary(st) THEN "raw" ELSE "none"

-----------------------------------------------------------------------------
VARIABLES
    healthy,  \* [Roles -> SUBSET Addrs]: what GetInstances returns now
    next,     \* RoundRobinPolicy.next, a W-bit unsigned counter
    calls,    \* Policy.Resolve calls so far (bounded by MaxCalls)
    inTx,     \* the session's Statement.ConnPool is a gorm.TxCommitter
    last      \* the last statement run and where it ran

vars == <<healthy, next, calls, inTx, last>>

\* Mutant of EmptyPool: resolve returns no pool at all (a nil ConnPool).
EmptyPoolNil == <<"nil", 0>>
EmptyPool == <<"empty", 0>>
TxPool == <<"tx", 0>>
Panic == <<"panic", 0>>

\* The replica role reads from the source manager when no replica is
\* configured (compileConfig, dbresolver.go 156-158).
ReadRole == IF ReplicasConfigured THEN "replica" ELSE "source"

Init ==
    /\ healthy \in [Roles -> SUBSET Addrs]
    /\ Cardinality(healthy["source"]) <= 1
    /\ next = 0
    /\ calls = 0
    /\ inTx = FALSE
    /\ last = [need |-> "none", op |-> "none", target |-> TxPool]

(* The managers' loops change which instances are healthy.               *)
Membership ==
    /\ \E H \in [Roles -> SUBSET Addrs] :
          /\ Cardinality(H["source"]) <= 1
          /\ healthy' = H
    /\ UNCHANGED <<next, calls, inTx, last>>

(* db.Begin / tx.Commit: the session's pool becomes, or stops being, a   *)
(* transaction.                                                           *)
Begin == ~inTx /\ inTx' = TRUE /\ UNCHANGED <<healthy, next, calls, last>>
Commit == inTx /\ inTx' = FALSE /\ UNCHANGED <<healthy, next, calls, last>>

(* Every callback first checks isTransaction and leaves the pool alone. *)
ExecInTx(st) ==
    /\ inTx
    /\ last' = [need |-> NeedOf(st), op |-> "none", target |-> TxPool]
    /\ UNCHANGED <<healthy, next, calls, inTx>>

(* resolver.resolve (resolver.go 26-68) for the statement's operation:   *)
(* GetInstances of the replica and the source manager; one instance is   *)
(* taken directly, none gives EmptyConnPool, several go to the Policy.   *)
ExecResolved(st) ==
    LET op == Classify(st)
        role == IF op = "read" THEN ReadRole ELSE "source"
        list == SortedSeq(healthy[role])
        k == Len(list)
    IN
    /\ ~inTx
    /\ \/ /\ k <= 1
          /\ last' = [need |-> NeedOf(st), op |-> op,
                      target |-> IF k = 0 THEN EmptyPool ELSE <<role, list[1]>>]
          /\ UNCHANGED <<next, calls>>
       \/ /\ k >= 2
          /\ calls < MaxCalls
          /\ calls' = calls + 1
          /\ \/ /\ PolicyKind = "random"                     \* RandomPolicy
                /\ \E idx \in 0..k - 1 :
                      last' = [need |-> NeedOf(st), op |-> op, target |-> <<role, list[idx + 1]>>]
                /\ UNCHANGED next
             \/ /\ PolicyKind = "roundRobin"                 \* RoundRobinPolicy
                /\ LET n == RoundRobinAdvance(next)
                       idx == GoRem(n - 1, k)
                   IN /\ next' = n
                      /\ last' = [need |-> NeedOf(st), op |-> op,
                                  target |-> IF idx < 0 THEN Panic ELSE <<role, list[idx + 1]>>]
    /\ UNCHANGED <<healthy, inTx>>

Next ==
    \/ Membership
    \/ Begin
    \/ Commit
    \/ \E st \in Stmts : ExecInTx(st) \/ ExecResolved(st)

Spec == Init /\ [][Next]_vars

-----------------------------------------------------------------------------
TypeOK ==
    /\ healthy \in [Roles -> SUBSET Addrs]
    /\ next \in 0..Modulus - 1
    /\ calls \in 0..MaxCalls
    /\ inTx \in BOOLEAN
    /\ last.need \in {"structured", "raw", "none"}
    /\ last.op \in {"read", "write", "none"}
    \* where a statement runs: an instance of a role, the EmptyConnPool
    \* sentinel, the transaction's pool, or a panic of the policy
    /\ last.target \in (Roles \X Addrs) \cup {<<"empty", 0>>, TxPool, Panic}

-----------------------------------------------------------------------------
OnSourceOrFailed(t) == t \in ({"source"} \X Addrs) \cup {EmptyPool}

(* A write or locking read built with gorm's API (switchSource, and      *)
(* switchReplica's writeName / FOR clause test) outside a transaction    *)
(* runs on the source instance, or fails with the empty pool; it never   *)
(* reaches a replica, whatever the membership.                           *)
StructuredWritesOnSource ==
    (last.target # TxPool /\ last.need = "structured") => OnSourceOrFailed(last.target)

(* The same for raw SQL, classified from its text by switchGuess: a     *)
(* statement that writes (INSERT ... SELECT, UPDATE, DELETE) or locks    *)
(* (FOR UPDATE, FOR SHARE, NOWAIT) never runs on a replica (spec 4.1:    *)
(* "DML disguised as raw SQL, or a locking read, always goes to the      *)
(* primary").                                                             *)
RawWritesOnSource ==
    (last.target # TxPool /\ last.need = "raw") => OnSourceOrFailed(last.target)

(* RoundRobinPolicy.Resolve never indexes outside the instance list,     *)
(* however many calls the process makes.                                  *)
RoundRobinIndexInRange == last.target # Panic

=============================================================================
