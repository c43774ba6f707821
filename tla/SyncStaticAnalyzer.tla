------------------------- MODULE SyncStaticAnalyzer --------------------------
(***************************************************************************)
(* The compile-time deadlock check (src/ast/common/SyncStaticAnalyzerImpl.h *)
(* with src/ast/SyncGraphAnalyzer.cpp).  A first pass summarises functions *)
(* and lambdas as lists of operations on their parameters, a second one    *)
(* walks the program, replays the summary of every callable it can name    *)
(* and stops at the first operation that could deadlock.  The analyzer is  *)
(* a record threaded through both passes:                                  *)
(*   scopes    names with their resource or callable, innermost last       *)
(*   imports, module     the aliases and name of the module being visited  *)
(*   held      the mutexes each thread holds                               *)
(*   locks, joins        edges of the lock-order and the join graph        *)
(*   summaries, lambdas  what the first pass found, by callable and by node*)
(*   build     the summaries being built, innermost last                   *)
(*   active    the callables being replayed                                *)
(*   threads, mutexes, fns    counters of ids                              *)
(*   last      the resource inferred last                                  *)
(*   err       the reason of a thrown error, or ""                         *)
(* A resource is [kind, id]; a lambda is known by its text, so that equal  *)
(* lambdas of one program share a summary.                                 *)
(***************************************************************************)
EXTENDS Syntax, Naturals, SequencesExt, TLC

UnknownResource == [kind |-> "unknown", id |-> 0]
Thread(n) == [kind |-> "thread", id |-> n]
Mutex(n) == [kind |-> "mutex", id |-> n]
CurrentThread == Thread(0)

EmptyScope == [res |-> <<>>, fns |-> <<>>]
NewSyncAnalyzer ==
    [scopes |-> <<EmptyScope>>, imports |-> <<>>, module |-> <<>>, held |-> <<>>, locks |-> {}, joins |-> {},
     summaries |-> <<>>, lambdas |-> <<>>, build |-> <<>>, active |-> {},
     threads |-> 0, mutexes |-> 0, fns |-> 0, last |-> UnknownResource, err |-> ""]
Halt(a, why) == IF a.err = "" THEN [a EXCEPT !.err = why] ELSE a

----------------------------------------------------------------------------
(* Scopes and names *)

EnterScope(a) == [a EXCEPT !.scopes = Append(@, EmptyScope)]
LeaveScope(a) == IF a.scopes = <<>> THEN a ELSE [a EXCEPT !.scopes = Front(@)]
InSomeScope(a) == IF a.scopes = <<>> THEN EnterScope(a) ELSE a
DefineResource(a, name, r) ==
    LET b == InSomeScope(a) IN [b EXCEPT !.scopes[Len(b.scopes)].res = (name :> r) @@ @]
DefineCallable(a, name, id) ==
    LET b == InSomeScope(a) IN [b EXCEPT !.scopes[Len(b.scopes)].fns = (name :> id) @@ @]

\* the innermost of the scopes in which a table has the name
Innermost(at) == CHOOSE i \in at : \A j \in at : j <= i
ResolveResource(a, name) ==
    LET at == {i \in DOMAIN a.scopes : name \in DOMAIN a.scopes[i].res}
    IN  IF at = {} THEN UnknownResource ELSE a.scopes[Innermost(at)].res[name]
ResolveCallable(a, name) ==                     \* <<>> when there is none
    LET at == {i \in DOMAIN a.scopes : name \in DOMAIN a.scopes[i].fns}
    IN  IF at = {} THEN <<>> ELSE a.scopes[Innermost(at)].fns[name]
AliasCallable(a, name, value) ==                \* name = value, for a value that names a callable
    LET id == IF value.k = "id" THEN ResolveCallable(a, value.n) ELSE <<>>
    IN  IF id = <<>> THEN a ELSE DefineCallable(a, name, id)

EnterModule(a, q) == [a EXCEPT !.module = q, !.scopes = <<EmptyScope>>, !.imports = <<>>]
Import(a, n) == [a EXCEPT !.imports = (n.alias :> n.q) @@ @]
QualifyCallableName(a, name) == Append(a.module, name)

\* the method of a call sync.method(...), or ""
GetSyncCallInfo(a, n) ==
    IF n.k = "call" /\ n.f.k = "member" /\ n.f.o.k = "id" /\ n.f.o.n \in DOMAIN a.imports
       /\ a.imports[n.f.o.n] = <<"std", "sync">>
    THEN n.f.m ELSE ""
IsSyncOperation(a, n) == GetSyncCallInfo(a, n) \in {"lock", "unlock", "join"} /\ Len(n.args) = 2

ResolveCalleeName(a, f) ==                      \* <<>> when it cannot be named
    CASE f.k = "id" -> IF ResolveCallable(a, f.n) # <<>> THEN ResolveCallable(a, f.n) ELSE QualifyCallableName(a, f.n)
      [] f.k = "member" /\ f.o.k = "id" ->
            IF f.o.n \in DOMAIN a.imports THEN Append(a.imports[f.o.n], f.m)
            ELSE IF ResolveCallable(a, f.o.n) # <<>> THEN Append(ResolveCallable(a, f.o.n), f.m)
            ELSE <<>>
      [] OTHER -> <<>>

\* the resource an expression denotes; spawn and mutex make a new one
InferResource(a, n) ==
    LET method == GetSyncCallInfo(a, n)
    IN  CASE n.k = "id" -> [a EXCEPT !.last = ResolveResource(a, n.n)]
          [] method = "spawn" -> [a EXCEPT !.threads = @ + 1, !.last = Thread(a.threads + 1)]
          [] method = "mutex" -> [a EXCEPT !.mutexes = @ + 1, !.last = Mutex(a.mutexes + 1)]
          [] method = "current_thread" -> [a EXCEPT !.last = CurrentThread]
          [] OTHER -> [a EXCEPT !.last = UnknownResource]

----------------------------------------------------------------------------
(* The graphs *)

RECURSIVE ReachedFrom(_, _)
ReachedFrom(edges, S) ==
    LET T == S \cup {e[2] : e \in {e \in edges : e[1] \in S}} IN IF T = S THEN S ELSE ReachedFrom(edges, T)

\* faulty variant: an edge is checked against its direct reverse only
WouldReverse(edges, from, to) == from = to \/ <<to, from>> \in edges

WouldCycle(edges, from, to) == from \in ReachedFrom(edges, {to})

\* faulty variant: a cycle is not looked for
AddLockEdgeUnchecked(a, from, to) == [a EXCEPT !.locks = @ \cup {<<from, to>>}]

AddLockEdge(a, from, to) ==
    IF WouldCycle(a.locks, from, to) THEN Halt(a, "lock cycle") ELSE [a EXCEPT !.locks = @ \cup {<<from, to>>}]
AddJoinEdge(a, from, to) ==
    IF WouldCycle(a.joins, from, to) THEN Halt(a, "join cycle") ELSE [a EXCEPT !.joins = @ \cup {<<from, to>>}]

HeldBy(a, t) == IF t \in DOMAIN a.held THEN a.held[t] ELSE {}
WithHeld(a, t, S) == [a EXCEPT !.held = (t :> S) @@ @]

\* faulty variant: only the mutex locked last counts as held
ApplyLockForgets(a, t, m) ==
    LET Edge(b, h) == AddLockEdge(b, h, m.id)
    IN  IF t.kind # "thread" \/ m.kind # "mutex" THEN a
        ELSE WithHeld(FoldLeft(Edge, a, SetToSeq(HeldBy(a, t.id) \ {m.id})), t.id, {m.id})

ApplyLock(a, t, m) ==
    LET Edge(b, h) == AddLockEdge(b, h, m.id)
    IN  IF t.kind # "thread" \/ m.kind # "mutex" THEN a
        ELSE IF m.id \in HeldBy(a, t.id) THEN Halt(a, "relock")
        ELSE WithHeld(FoldLeft(Edge, a, SetToSeq(HeldBy(a, t.id))), t.id, HeldBy(a, t.id) \cup {m.id})

ApplyUnlock(a, t, m) ==
    IF t.kind # "thread" \/ m.kind # "mutex" THEN a
    ELSE IF m.id \notin HeldBy(a, t.id) THEN Halt(a, "not owner")
    ELSE WithHeld(a, t.id, HeldBy(a, t.id) \ {m.id})

ApplyJoin(a, t, u) ==
    IF t.kind # "thread" \/ u.kind # "thread" THEN a ELSE AddJoinEdge(a, t.id, u.id)

Apply(a, method, x, y) ==
    CASE method = "lock" -> ApplyLock(a, x, y)
      [] method = "unlock" -> ApplyUnlock(a, x, y)
      [] method = "join" -> ApplyJoin(a, x, y)

----------------------------------------------------------------------------
(* Summaries: a reference is a resource, or the name of a parameter *)

MakeRef(a, n) ==
    IF n.k = "id" /\ a.build # <<>> /\ n.n \in ToSet(Last(a.build).params)
    THEN [a EXCEPT !.last = [kind |-> "parameter", id |-> n.n]]
    ELSE InferResource(a, n)

AddOp(a, op) == [a EXCEPT !.build[Len(a.build)].ops = Append(@, op)]

\* a, and the references or resources of the arguments in order
Refs(a, args, Ref(_, _)) ==
    LET Next(p, n) == LET b == Ref(p.a, n) IN [a |-> b, refs |-> Append(p.refs, b.last)]
    IN  FoldLeft(Next, [a |-> a, refs |-> <<>>], args)

RECURSIVE BuildSummaryNode(_, _)

RecordSummaryCall(a, n) ==
    LET b == FoldLeft(BuildSummaryNode, a, n.args)
        r == Refs(b, n.args, MakeRef)
        method == GetSyncCallInfo(b, n)
        callee == ResolveCalleeName(b, n.f)
    IN  IF a.build = <<>> THEN a
        ELSE IF IsSyncOperation(b, n) THEN AddOp(r.a, [op |-> method, callee |-> <<>>, args |-> r.refs])
        ELSE IF method # "" \/ callee = <<>> THEN b
        ELSE AddOp(r.a, [op |-> "call", callee |-> callee, args |-> r.refs])

BuildSummary(a, id, n) ==
    LET params == [i \in DOMAIN n.params |-> n.params[i].n]
        Parameter(b, p) == DefineResource(b, p, UnknownResource)
        known == [a EXCEPT !.summaries = (id :> [params |-> params, ops |-> <<>>]) @@ @,
                           !.build = Append(@, [params |-> params, ops |-> <<>>])]
        b == LeaveScope(BuildSummaryNode(FoldLeft(Parameter, EnterScope(known), params), n.body))
    IN  [b EXCEPT !.summaries[id].ops = Last(b.build).ops, !.build = Front(@)]

BuildNamedFunctionSummary(a, n) ==
    LET id == QualifyCallableName(a, n.n)
    IN  IF id \in DOMAIN a.summaries THEN a ELSE DefineCallable(BuildSummary(a, id, n), n.n, id)

LambdaId(a) == <<"<lambda#" \o ToString(a.fns + 1) \o ">">>
BuildLambdaSummary(a, n) ==
    BuildSummary([a EXCEPT !.fns = @ + 1, !.lambdas = (n :> LambdaId(a)) @@ @], LambdaId(a), n)
NameLambda(a, name, n) == DefineCallable(BuildLambdaSummary(a, n), name, LambdaId(a))

\* the subexpressions and blocks of the nodes both passes only look into
Parts(n) ==
    CASE n.k \in {"return", "print", "unary"} -> <<n.e>>
      [] n.k = "unsafe" -> <<n.b>>
      [] n.k = "member" -> <<n.o>>
      [] n.k = "binary" -> <<n.l, n.r>>
      [] n.k = "index" -> <<n.o, n.i>>
      [] n.k = "array" -> n.es
      [] OTHER -> <<>>

BuildSummaryNode(a, n) ==
    CASE n.k = "block" -> LeaveScope(FoldLeft(BuildSummaryNode, EnterScope(a), n.ss))
      [] n.k = "export" -> BuildSummaryNode(a, n.d)
      [] n.k = "module" -> EnterModule(a, n.q)
      [] n.k = "var" -> IF n.e.k = "lambda" THEN NameLambda(a, n.n, n.e) ELSE BuildSummaryNode(a, n.e)
      [] n.k = "assign" ->
            LET b == BuildSummaryNode(a, n.e)
            IN  IF n.to \notin {"name", "index"} THEN b
                ELSE IF n.e.k = "lambda" THEN NameLambda(b, n.n, n.e) ELSE AliasCallable(b, n.n, n.e)
      [] n.k = "if" -> FoldLeft(BuildSummaryNode, a, <<n.c, n.a, n.b>>)
      [] n.k = "while" -> FoldLeft(BuildSummaryNode, a, <<n.c, n.b>>)
      [] n.k = "func" -> BuildNamedFunctionSummary(a, n)
      [] n.k = "lambda" -> BuildLambdaSummary(a, n)
      [] n.k = "call" -> RecordSummaryCall(a, n)
      [] OTHER -> FoldLeft(BuildSummaryNode, a, Parts(n))

\* the first pass over the declarations of all modules
RECURSIVE CollectCallables(_, _)
CollectCallables(a, n) ==
    CASE n.k = "block" -> FoldLeft(CollectCallables, a, n.ss)
      [] n.k = "import" -> Import(a, n)
      [] n.k = "module" -> EnterModule(a, n.q)
      [] n.k = "export" -> CollectCallables(a, n.d)
      [] n.k = "func" -> BuildNamedFunctionSummary(a, n)
      [] n.k = "var" /\ n.e.k = "lambda" -> NameLambda(a, n.n, n.e)
      [] OTHER -> a

----------------------------------------------------------------------------
(* The second pass *)

ResolveRef(r, bindings) ==
    IF r.kind # "parameter" THEN r ELSE IF r.id \in DOMAIN bindings THEN bindings[r.id] ELSE UnknownResource

\* the parameters that have an argument, with their resources
Bind(params, resources) ==
    LET given == 1 .. (IF Len(params) < Len(resources) THEN Len(params) ELSE Len(resources))
        Put(b, i) == (params[i] :> resources[i]) @@ b
    IN  FoldLeft(Put, <<>>, [i \in given |-> i])

RECURSIVE ReplayCallable(_, _, _)
ReplayOp(a, op, bindings) ==
    LET args == [i \in DOMAIN op.args |-> ResolveRef(op.args[i], bindings)]
    IN  IF a.err # "" THEN a
        ELSE IF op.op # "call" THEN Apply(a, op.op, args[1], args[2])
        ELSE ReplayCallable(a, op.callee, args)

\* a callable that is being replayed is not entered again
ReplayCallable(a, id, args) ==
    LET s == a.summaries[id]
        Replay(b, op) == ReplayOp(b, op, Bind(s.params, args))
    IN  IF id \in a.active \/ id \notin DOMAIN a.summaries THEN a
        ELSE [FoldLeft(Replay, [a EXCEPT !.active = @ \cup {id}], s.ops) EXCEPT !.active = a.active]

RECURSIVE AnalyzeNode(_, _)

AnalyzeCall(a, n) ==
    LET b == FoldLeft(AnalyzeNode, AnalyzeNode(a, n.f), n.args)
        method == GetSyncCallInfo(b, n)
        callee == ResolveCalleeName(b, n.f)
        r == Refs(b, n.args, InferResource)
    IN  IF b.err # "" THEN b
        ELSE IF IsSyncOperation(b, n) THEN Apply(r.a, method, r.refs[1], r.refs[2])
        ELSE IF method # "" \/ callee \notin DOMAIN b.summaries THEN b
        ELSE ReplayCallable(r.a, callee, r.refs)

\* name takes the resource and the callable of a value; both declarations and
\* assignments write into the innermost scope
BindName(a, name, value) ==
    LET b == InferResource(AnalyzeNode(a, value), value)
    IN  AliasCallable(DefineResource(b, name, b.last), name, value)

MergeHeldState(l, r) ==
    LET common == {t \in DOMAIN l \cap DOMAIN r : l[t] \cap r[t] # {}} IN [t \in common |-> l[t] \cap r[t]]

AnalyzeNode(a, n) ==
    IF a.err # "" THEN a ELSE
    CASE n.k = "block" -> LeaveScope(FoldLeft(AnalyzeNode, EnterScope(a), n.ss))
      [] n.k = "import" -> Import(a, n)
      [] n.k = "module" -> EnterModule(a, n.q)
      [] n.k = "export" -> AnalyzeNode(a, n.d)
      [] n.k = "var" ->
            LET b == BindName(a, n.n, n.e)
            IN  IF n.e.k = "lambda" /\ n.e \in DOMAIN b.lambdas THEN DefineCallable(b, n.n, b.lambdas[n.e]) ELSE b
      [] n.k = "assign" ->
            CASE n.to \in {"name", "index"} -> BindName(a, n.n, n.e)
              [] OTHER -> FoldLeft(AnalyzeNode, a, <<n.o, n.e>>)
      [] n.k = "func" -> DefineCallable(a, n.n, QualifyCallableName(a, n.n))
      [] n.k = "if" ->
            LET before == AnalyzeNode(a, n.c)
                then == AnalyzeNode(before, n.a)
                else == AnalyzeNode([then EXCEPT !.held = before.held], n.b)
            IN  [else EXCEPT !.held = MergeHeldState(then.held, else.held)]
      [] n.k = "while" ->
            LET before == AnalyzeNode(a, n.c) IN [AnalyzeNode(before, n.b) EXCEPT !.held = before.held]
      [] n.k = "call" -> AnalyzeCall(a, n)
      [] OTHER -> FoldLeft(AnalyzeNode, a, Parts(n))

\* the reason of the error SyncStaticAnalyzer::Analyze throws, or ""
AnalyzeSync(root) ==
    LET first == CollectCallables(NewSyncAnalyzer, root)
    IN  AnalyzeNode([first EXCEPT !.scopes = <<EmptyScope>>, !.imports = <<>>, !.module = <<>>], root).err

=============================================================================
