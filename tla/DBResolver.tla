----------------------------- MODULE DBResolver -----------------------------
(***************************************************************************)
(* The registry of dbresolver (src/dbresolver/dbresolver.go): the package *)
(* Register that creates a DBResolver and lists it for the package Close, *)
(* the chained DBResolver.Register, Initialize (Validate every config,    *)
(* then compile them in order), compileConfig (a resolver with its source *)
(* and replica ServerManagers, started with RunAndWait, bound to the      *)
(* config's tables and hints or made the global resolver), getResolver   *)
(* and the package Close.  A ServerManager is seen only as "empty" (the   *)
(* EmptyServerManager), "running" or "closed"; the replica manager of a   *)
(* config without replicas is the source manager itself ("same").         *)
(***************************************************************************)
EXTENDS Integers, Sequences, FiniteSets

CONSTANTS
    DRs,          \* the DBResolver values a program creates
    Cfgs,         \* config identities
    Conf,         \* [Cfgs -> [sources, replicas : Seq(DSN), datas : Seq(data)]]
    Tables,       \* table names and Using hints (the string datas)
    Unparsable,   \* a data that is not a string and that stmt.Parse rejects
    MaxRegister,  \* bound: Register calls
    MaxClose      \* bound: package Close calls

ASSUME Unparsable \notin Tables

NoTable == ""
Pool == 0      \* getResolver found no resolver: stmt.ConnPool is kept

\* DSN.EqualAddrTo (dsn.go 59-75): same port, and the same host once
\* localhost and 127.1 are read as 127.0.0.1.
HostOf(dsn) == IF dsn.path \in {"localhost", "127.1"} THEN "127.0.0.1" ELSE dsn.path
EqualAddrTo(a, b) == a.port = b.port /\ HostOf(a) = HostOf(b)

\* Config.Validate (dbresolver.go 44-65) returns nil.
Valid(c) ==
    LET s == Conf[c].sources
        r == Conf[c].replicas
    IN /\ Len(s) + Len(r) > 0
       /\ Len(s) <= 1
       /\ ~\E i \in DOMAIN s, j \in DOMAIN r : EqualAddrTo(s[i], r[j])

\* The datas compileConfig binds (lines 167-179): every string, and every
\* model stmt.Parse accepts, up to the first it rejects.
Binds(c) ==
    LET ds == Conf[c].datas
        bad == {i \in DOMAIN ds : ds[i] = Unparsable}
        stop == IF bad = {} THEN Len(ds) + 1
                ELSE CHOOSE i \in bad : \A j \in bad : i <= j
    IN {ds[i] : i \in 1..stop - 1}

ParseFails(c) == \E i \in DOMAIN Conf[c].datas : Conf[c].datas[i] = Unparsable

-----------------------------------------------------------------------------
VARIABLES
    drs,          \* [DRs -> the DBResolver's fields]
    drResolvers,  \* the package's list for Close
    regs,         \* Register calls so far
    closes,       \* package Close calls so far
    crashed       \* RunAndWait panicked: the process is gone

vars == <<drs, drResolvers, regs, closes, crashed>>

\* A resolver: its config, its two managers, and (ghost) how many package
\* Close calls had run when its managers were started.
NewDR == [created |-> FALSE, configs |-> <<>>, db |-> FALSE, used |-> FALSE,
          resolvers |-> <<>>, rmap |-> [t \in Tables |-> Pool], global |-> Pool]

Init ==
    /\ drs = [d \in DRs |-> NewDR]
    /\ drResolvers = <<>>
    /\ regs = 0
    /\ closes = 0
    /\ crashed = FALSE

-----------------------------------------------------------------------------
\* Mutant of CompileConfig: the else is dropped, so a config with datas
\* also becomes the global resolver when there is none yet.
CompileConfigAlwaysGlobal(dr, c) ==
    LET i == Len(dr.resolvers) + 1
        r == [cfg |-> c,
              primary |-> IF Conf[c].sources = <<>> THEN "empty" ELSE "running",
              replicas |-> IF Conf[c].replicas = <<>> THEN "same" ELSE "running",
              epoch |-> closes]
        dr1 == [dr EXCEPT !.resolvers = Append(@, r),
                          !.rmap = [t \in Tables |-> IF t \in Binds(c) THEN i ELSE @[t]]]
    IN IF dr.global = Pool THEN [dr |-> [dr1 EXCEPT !.global = i], err |-> ParseFails(c)]
       ELSE [dr |-> dr1, err |-> Conf[c].datas = <<>> \/ ParseFails(c)]

\* compileConfig (lines 141-191) once RunAndWait has returned for both
\* managers: the resolver is listed, then bound or made global; the error
\* of a rejected model or of a second global resolver comes last.
CompileConfig(dr, c) ==
    LET i == Len(dr.resolvers) + 1
        r == [cfg |-> c,
              primary |-> IF Conf[c].sources = <<>> THEN "empty" ELSE "running",
              replicas |-> IF Conf[c].replicas = <<>> THEN "same" ELSE "running",
              epoch |-> closes]
        dr1 == [dr EXCEPT !.resolvers = Append(@, r)]
    IN IF Conf[c].datas # <<>>
       THEN [dr |-> [dr1 EXCEPT !.rmap = [t \in Tables |-> IF t \in Binds(c) THEN i ELSE @[t]]],
             err |-> ParseFails(c)]
       ELSE IF dr.global = Pool THEN [dr |-> [dr1 EXCEPT !.global = i], err |-> FALSE]
       ELSE [dr |-> dr1, err |-> TRUE]                  \* conflicted global resolver

\* compile (lines 132-139): the configs in order, up to the first error.
RECURSIVE Compile(_, _)
Compile(dr, cs) ==
    IF cs = <<>> THEN dr
    ELSE LET res == CompileConfig(dr, Head(cs))
         IN IF res.err THEN res.dr ELSE Compile(res.dr, Tail(cs))

\* A real ServerManager's RunAndWait panics when no instance appears in a
\* minute (connection.go 138-158); the EmptyServerManager returns at once.
MayPanic(cs) == \E i \in DOMAIN cs : Conf[cs[i]].sources # <<>> \/ Conf[cs[i]].replicas # <<>>

-----------------------------------------------------------------------------
(* The package Register (lines 87-91): a new DBResolver, Register on it, *)
(* listed for Close.                                                     *)
PkgRegister(d, c) ==
    /\ ~crashed /\ regs < MaxRegister
    /\ ~drs[d].created
    /\ drs' = [drs EXCEPT ![d] = [NewDR EXCEPT !.created = TRUE, !.configs = <<c>>]]
    /\ drResolvers' = Append(drResolvers, d)
    /\ regs' = regs + 1
    /\ UNCHANGED <<closes, crashed>>

(* DBResolver.Register (lines 93-112) on an existing DBResolver: the     *)
(* config is appended, and compiled at once if Initialize has set DB; the *)
(* error of compileConfig is dropped.                                    *)
Register(d, c) ==
    /\ ~crashed /\ regs < MaxRegister
    /\ drs[d].created
    /\ regs' = regs + 1
    /\ \/ /\ ~drs[d].db
          /\ drs' = [drs EXCEPT ![d].configs = Append(@, c)]
          /\ UNCHANGED crashed
       \/ /\ drs[d].db
          /\ drs' = [drs EXCEPT ![d] = [CompileConfig(@, c).dr EXCEPT !.configs = Append(@, c)]]
          /\ UNCHANGED crashed
       \/ /\ drs[d].db /\ MayPanic(<<c>>)
          /\ crashed' = TRUE
          /\ UNCHANGED drs
    /\ UNCHANGED <<drResolvers, closes>>

(* Initialize (lines 118-130), called once by db.Use: an invalid config   *)
(* fails before DB is set; otherwise DB is set, the callbacks are         *)
(* registered and compile runs, its error returned to db.Use.            *)
Initialize(d) ==
    LET cs == drs[d].configs IN
    /\ ~crashed
    /\ drs[d].created /\ ~drs[d].used
    /\ \/ /\ \E i \in DOMAIN cs : ~Valid(cs[i])
          /\ drs' = [drs EXCEPT ![d].used = TRUE]
          /\ UNCHANGED crashed
       \/ /\ \A i \in DOMAIN cs : Valid(cs[i])
          /\ drs' = [drs EXCEPT ![d] = [Compile(@, cs) EXCEPT !.used = TRUE, !.db = TRUE]]
          /\ UNCHANGED crashed
       \/ /\ \A i \in DOMAIN cs : Valid(cs[i])
          /\ MayPanic(cs)
          /\ crashed' = TRUE
          /\ UNCHANGED drs
    /\ UNCHANGED <<drResolvers, regs, closes>>

\* The body of Close's loop (lines 74-81) for one resolver: both managers
\* (ServerManagerImpl.Close is idempotent, so "same" needs nothing more).
CloseResolver(r) ==
    [r EXCEPT !.primary = IF @ = "empty" THEN @ ELSE "closed",
              !.replicas = IF @ = "running" THEN "closed" ELSE @]

(* The package Close (lines 72-85): every listed DBResolver's resolvers,  *)
(* then the list is emptied.                                             *)
PkgClose ==
    LET listed == {drResolvers[i] : i \in DOMAIN drResolvers} IN
    /\ ~crashed /\ closes < MaxClose
    /\ drs' = [d \in DRs |->
                 IF d \in listed
                 THEN [drs[d] EXCEPT !.resolvers = [i \in DOMAIN @ |-> CloseResolver(@[i])]]
                 ELSE drs[d]]
    /\ drResolvers' = <<>>
    /\ closes' = closes + 1
    /\ UNCHANGED <<regs, crashed>>

-----------------------------------------------------------------------------
(* A statement as getResolver sees it: the Using hint, stmt.Table, the   *)
(* table of stmt.Model (or Unparsable), stmt.Schema.Table and the table  *)
(* getTableFromRawSQL finds; NoTable where the statement has none.       *)
Stmts == [use : Tables \cup {NoTable}, table : Tables \cup {NoTable},
          model : Tables \cup {NoTable, Unparsable}, schema : Tables \cup {NoTable},
          raw : Tables \cup {NoTable}]

\* The names getResolver tries, in its order.
Names(st) == <<st.use, st.table, st.model, st.schema, st.raw>>

\* getResolver (lines 204-240): the first name bound in resolversMap, else
\* the global resolver; resolve (lines 197-202) keeps stmt.ConnPool when
\* that is nil.  A resolver is its index in resolversList.
GetResolver(dr, st) ==
    LET ns == Names(st)
        hit == {i \in 1..5 : ns[i] \in Tables /\ dr.rmap[ns[i]] # Pool}
    IN IF hit = {} THEN dr.global
       ELSE dr.rmap[ns[CHOOSE i \in hit : \A j \in hit : i <= j]]

Next ==
    \/ \E d \in DRs, c \in Cfgs : PkgRegister(d, c) \/ Register(d, c)
    \/ \E d \in DRs : Initialize(d)
    \/ PkgClose

Spec == Init /\ [][Next]_vars

-----------------------------------------------------------------------------
Managers == {"empty", "running", "closed", "same"}

TypeOK ==
    /\ \A d \in DRs :
          /\ drs[d].configs \in Seq(Cfgs)
          /\ drs[d].db => drs[d].used
          /\ \A i \in DOMAIN drs[d].resolvers :
                drs[d].resolvers[i] \in [cfg : Cfgs, primary : Managers \ {"same"},
                                        replicas : Managers, epoch : 0..MaxClose]
          /\ drs[d].rmap \in [Tables -> 0..Len(drs[d].resolvers)]
          /\ drs[d].global \in 0..Len(drs[d].resolvers)
    /\ drResolvers \in Seq(DRs)
    /\ regs \in 0..MaxRegister /\ closes \in 0..MaxClose /\ crashed \in BOOLEAN

(* The package Close stops every ServerManager started before it: after   *)
(* any sequence of Register, Initialize and Close calls, a manager still *)
(* running was started after the last Close (spec 6: "a single entry    *)
(* point that closes every router registered in the process").           *)
TeardownClosesStarted ==
    \A d \in DRs : \A i \in DOMAIN drs[d].resolvers :
        LET r == drs[d].resolvers[i]
        IN "running" \in {r.primary, r.replicas} => r.epoch = closes

(* Every statement the callbacks route goes to a resolver whose config    *)
(* binds the first of its names (hint, table, model, schema, raw SQL)    *)
(* that some compiled config binds, and otherwise to a resolver of a     *)
(* config with no datas, or keeps its own pool when there is none: the   *)
(* lookup order of spec 4.1, whatever order the configs were registered, *)
(* compiled or rejected in.                                              *)
RoutedToBinding ==
    \A d \in DRs : drs[d].db =>
        LET dr == drs[d]
            bound == UNION {Binds(dr.resolvers[i].cfg) : i \in DOMAIN dr.resolvers}
        IN \A st \in Stmts :
            LET to == GetResolver(dr, st)
                ns == Names(st)
                named == {i \in 1..5 : ns[i] \in bound}
            IN IF named # {}
               THEN /\ to # Pool
                    /\ ns[CHOOSE i \in named : \A j \in named : i <= j] \in Binds(dr.resolvers[to].cfg)
               ELSE to # Pool => Conf[dr.resolvers[to].cfg].datas = <<>>

=============================================================================
