--------------------------- MODULE SourceSemantics ----------------------------
(***************************************************************************)
(* What an Aura program means, told from its syntax tree alone: variables  *)
(* are places of a store, a block restores the variables it found, a       *)
(* closure has copies of the variables it was made among, an effect is a   *)
(* call of the innermost handler.  There are no slots, jumps, captures or  *)
(* stack: this is the reference that compiled programs are compared with.  *)
(* Values and their operators are those of Machine.                        *)
(*                                                                         *)
(* The state of a run is a record s:                                       *)
(*   vars, glob   places of the local and the global variables             *)
(*   store        the values of variables, by place                        *)
(*   heap, types  objects and closures as Machine keeps them, and for each *)
(*                the struct it is of                                      *)
(*   decls        the struct, enum and effect declarations by name         *)
(*   handlers     maps from operations to closures, innermost last         *)
(*   out, err     printed lines and the reason of a failure, or ""         *)
(*   v, ret       the last value; <<the value returned>> or <<>>           *)
(***************************************************************************)
EXTENDS Syntax, Machine

NewRun == [vars |-> <<>>, glob |-> <<>>, store |-> <<>>, heap |-> <<>>, types |-> <<>>, decls |-> <<>>, handlers |-> <<>>,
           out |-> <<>>, err |-> "", v |-> NullV, ret |-> <<>>]

Stopped(s) == s.err # "" \/ s.ret # <<>>
Then(s, Rest(_)) == IF Stopped(s) THEN s ELSE Rest(s)
Answer(s, v) == IF v[1] = "err" THEN [s EXCEPT !.err = v[2]] ELSE [s EXCEPT !.v = v]
Place(s) == Len(s.store) + 1
New(s, v) == [s EXCEPT !.store = Append(@, v)]
Object(s, kind, type, o) ==
    Answer([s EXCEPT !.heap = Append(@, o), !.types = Append(@, type)], <<kind, Len(s.heap) + 1>>)
Local(s, name, v) == [New(s, v) EXCEPT !.vars = (name :> Place(s)) @@ @]
Global(s, name, v) == [New(s, v) EXCEPT !.glob = (name :> Place(s)) @@ @]

\* where something stands: in a variable's place or in an object; Nowhere fails
Nowhere == <<>>
InVariable(place) == <<place>>
InObject(o, i) == <<o, i>>
Read(s, at) == CASE at = Nowhere -> Wrong("undefined")
                 [] Len(at) = 1 -> s.store[at[1]]
                 [] Len(at) = 2 -> s.heap[at[1]][at[2]]
WriteAt(s, at, v) == CASE at = Nowhere -> [s EXCEPT !.err = "undefined"]
                       [] Len(at) = 1 -> [s EXCEPT !.store[at[1]] = v]
                       [] Len(at) = 2 -> [s EXCEPT !.heap[at[1]][at[2]] = v]

\* a name is a local, a field of self or a global
FieldsOf(s, o, m) == LET fields == s.decls[s.types[o]].fields IN {InObject(o, i) : i \in {i \in DOMAIN fields : fields[i].n = m}}
Self(s) == s.store[s.vars["self"]][2]
Find(s, name) ==
    IF name \in DOMAIN s.vars THEN InVariable(s.vars[name])
    ELSE IF "self" \in DOMAIN s.vars /\ FieldsOf(s, Self(s), name) # {} THEN CHOOSE at \in FieldsOf(s, Self(s), name) : TRUE
    ELSE IF name \in DOMAIN s.glob THEN InVariable(s.glob[name]) ELSE Nowhere

RECURSIVE Do(_, _)
DoAll(s, nodes) == FoldLeft(Do, s, nodes)

\* the values of expressions, left to right: s.v is their sequence
AddValue(r, d) == [d EXCEPT !.v = Append(r.v, d.v)]
Values(s, nodes) == FoldLeft(LAMBDA r, n : AddValue(r, Do(r, n)), [s EXCEPT !.v = <<>>], nodes)

Holds(d) == IF Truth(d.v) = BoolV(TRUE) THEN d ELSE [d EXCEPT !.err = "contract"]
Check(s, conditions) == FoldLeft(LAMBDA r, c : Then(Do(r, c), Holds), s, conditions)

\* a block forgets the variables declared in it
Scoped(s, nodes) == [DoAll(s, nodes) EXCEPT !.vars = s.vars]

\* a closure copies the variables around it; functions of the module only know the globals
CloseOver(s, copied, n, contracts) ==
    [Object(copied, "clo", "", [params |-> n.params, body |-> n.body, vars |-> copied.vars, contracts |-> contracts])
        EXCEPT !.vars = s.vars]
Closure(s, n, contracts) ==
    CloseOver(s, FoldLeft(LAMBDA r, x : Local(r, x, s.store[s.vars[x]]), s, SetToSeq(DOMAIN s.vars)), n, contracts)

(* A call: the parameters are new variables, missing arguments take their  *)
(* defaults, the rest of a variadic call is an array.  What the callee     *)
(* leaves installed as handlers goes with it.                              *)
Named(s, name) == Local(s, name, s.v)
BindParameter(s, p, i, args) ==
    IF p.variadic THEN Named(Object(s, "arr", "", SubSeq(args, i, Len(args))), p.n)
    ELSE IF i <= Len(args) THEN Local(s, p.n, args[i])
    ELSE Named(Do(s, p.default), p.n)
BindParameters(s, c, args) ==
    FoldLeft(LAMBDA r, i : BindParameter(r, c.params[i], i, args), [s EXCEPT !.vars = c.vars], [i \in DOMAIN c.params |-> i])

\* the caller's state s, the callee's before its body and after it
Result(after) == IF after.ret = <<>> THEN NullV ELSE after.ret[1]
ReturnFrom(s, before, after, ensures) ==
    IF after.err # "" THEN after
    ELSE [Check(Local([after EXCEPT !.ret = <<>>, !.vars = before.vars], "result", Result(after)), ensures)
            EXCEPT !.vars = s.vars, !.handlers = s.handlers, !.v = Result(after)]
RunBody(s, before, c) == ReturnFrom(s, before, Do(Check(before, c.contracts.requires), c.body), c.contracts.ensures)
InvokeClosure(s, c, args) == RunBody(s, BindParameters(s, c, args), c)
Invoke(s, f, args) == IF f[1] # "clo" THEN [s EXCEPT !.err = "type"] ELSE InvokeClosure(s, s.heap[f[2]], args)

NoContracts == [requires |-> <<>>, ensures |-> <<>>]
Method(d, m) == LET at == {i \in DOMAIN d.methods : d.methods[i].n = m} IN d.methods[CHOOSE i \in at : TRUE]

CheckInvariants(s, o, invariants) == [Check(Local(o, "self", o.v), invariants) EXCEPT !.vars = s.vars, !.v = o.v]
Construct(s, type, args) == CheckInvariants(s, Object(s, "inst", type, args), s.decls[type].invariants)

\* a call of a method answers only if the invariants of the object hold again
InvokeLast(s, args) == Invoke(s, s.v, args)
MethodClosure(s, d, m) ==
    Closure([s EXCEPT !.vars = <<>>], [params |-> <<Param("self", NoType)>> \o m.params, body |-> m.body],
            [requires |-> m.requires, ensures |-> m.ensures \o d.invariants])
InvokeMethod(s, o, m, args) ==
    LET d == s.decls[s.types[o[2]]]
    IN  [InvokeLast(MethodClosure(s, d, Method(d, m)), <<o>> \o args) EXCEPT !.vars = s.vars]

Variants(s) == UNION {{<<d, i>> : i \in DOMAIN s.decls[d].variants} : d \in {d \in DOMAIN s.decls : s.decls[d].k = "enum"}}
Operations(s) == UNION {{s.decls[d].ops[i].n : i \in DOMAIN s.decls[d].ops} : d \in {d \in DOMAIN s.decls : s.decls[d].k = "effect"}}

\* a call by name in state s, the arguments being the values of args: of resume,
\* a struct, a variant, an operation of an effect or a function f
ApplyName(s, name, f, args) ==
    LET variant == {v \in Variants(s) : s.decls[v[1]].variants[v[2]].n = name}
        levels == {i \in DOMAIN s.handlers : name \in DOMAIN s.handlers[i]}
        operation == name \in Operations(s)
        handler == s.handlers[CHOOSE i \in levels : \A j \in levels : j <= i][name]
    IN  IF name = "resume" THEN [args EXCEPT !.ret = args.v]
        ELSE IF name \in DOMAIN s.decls THEN Construct(args, name, args.v)
        ELSE IF variant # {}
        THEN Object(args, "enum", "", [tag |-> (CHOOSE v \in variant : TRUE)[2] - 1, args |-> args.v])
        ELSE IF operation /\ levels = {} THEN [args EXCEPT !.err = "unhandled"]
        ELSE IF ~operation /\ f[1] = "err" THEN [args EXCEPT !.err = f[2]]
        ELSE Invoke(args, IF operation THEN handler ELSE f, args.v)

\* a ref parameter takes the address of its argument
Arguments(s, f, args) ==
    LET ByReference(i) == f[1] = "clo" /\ i \in DOMAIN s.heap[f[2]].params /\ s.heap[f[2]].params[i].t.b = <<"ref">>
    IN  Values(s, [i \in DOMAIN args |-> IF ByReference(i) THEN Unary("&", args[i]) ELSE args[i]])
CallFound(s, n, f) == Then(Arguments(s, f, n.args), LAMBDA args : ApplyName(s, n.f.n, f, args))
CallNamed(s, n) == CallFound(s, n, Read(s, Find(s, n.f.n)))

CallMethod(o, n) == Then(Values(o, n.args), LAMBDA args : InvokeMethod(args, o.v, n.f.m, args.v))
CallMember(s, n) == CallMethod(Do(s, n.f.o), n)

CallResult(f, n) == Then(Values(f, n.args), LAMBDA args : Invoke(args, f.v, args.v))
CallValue(s, n) == CallResult(Do(s, n.f), n)

\* an element of an array, an argument of a variant, the value of a key
IndexError(i) == IF IsNumeric(i) THEN "bounds" ELSE "type"
GetIndex(s, o, i) ==
    LET parts == IF o[1] = "enum" THEN s.heap[o[2]].args ELSE s.heap[o[2]]
    IN CASE o[1] \notin {"arr", "map", "enum"} -> [s EXCEPT !.err = "type"]
         [] o[1] = "map" -> IF ~IsKey(i) THEN [s EXCEPT !.err = "key"]
                            ELSE IF i \in DOMAIN parts THEN Answer(s, parts[i]) ELSE [s EXCEPT !.err = "missing"]
         [] OTHER -> IF PositionIn(parts, i) = 0 THEN [s EXCEPT !.err = IndexError(i)] ELSE Answer(s, parts[PositionIn(parts, i)])
SetIndex(s, o, i, v) ==
    CASE o[1] \notin {"arr", "map"} -> [s EXCEPT !.err = "type"]
      [] o[1] = "map" -> IF ~IsKey(i) THEN [s EXCEPT !.err = "key"] ELSE [s EXCEPT !.heap[o[2]] = (i :> v) @@ @]
      [] o[1] = "arr" -> LET at == PositionIn(s.heap[o[2]], i)
                         IN  IF at = 0 THEN [s EXCEPT !.err = IndexError(i)] ELSE WriteAt(s, InObject(o[2], at), v)

FieldAt(s, o, m) == IF o[1] # "inst" \/ FieldsOf(s, o[2], m) = {} THEN Nowhere ELSE CHOOSE at \in FieldsOf(s, o[2], m) : TRUE
GetField(s, o, m) ==
    IF o[1] = "enum" /\ m = "tag" THEN Answer(s, IntV(s.heap[o[2]].tag))
    ELSE IF FieldAt(s, o, m) = Nowhere THEN [s EXCEPT !.err = "type"] ELSE Answer(s, Read(s, FieldAt(s, o, m)))

\* vs.v are the values of the parts of an assignment, the assigned one last
WriteField(s, at, v) == IF at = Nowhere THEN [s EXCEPT !.err = "type"] ELSE WriteAt(s, at, v)
AssignParts(s, n, vs) ==
    CASE n.to = "name" -> WriteAt(vs, Find(s, n.n), vs.v[1])
      [] n.to = "member" -> WriteField(vs, FieldAt(vs, vs.v[1], n.m), vs.v[2])
      [] n.to = "deref" -> WriteField(vs, IF vs.v[1][1] = "ptr" THEN vs.v[1][2] ELSE Nowhere, vs.v[2])
      [] n.to = "index" -> SetIndex(vs, vs.v[1], vs.v[2], vs.v[3])
DoAssign(s, n) ==
    Then(Values(s, CASE n.to = "name" -> <<n.e>>
                     [] n.to \in {"member", "deref"} -> <<n.o, n.e>>
                     [] n.to = "index" -> <<Id(n.n), n.i, n.e>>),
         LAMBDA vs : [AssignParts(s, n, vs) EXCEPT !.v = Last(vs.v)])

\* a condition that holds, one that does not, or an error
Branch(c, Yes(_), No(_)) ==
    IF Truth(c.v)[1] = "err" THEN [c EXCEPT !.err = "type"] ELSE IF Truth(c.v)[2] THEN Yes(c) ELSE No(c)
RECURSIVE Repeat(_, _)
Repeat(s, n) ==
    Then(Do(s, n.c), LAMBDA c : Branch(c, LAMBDA d : Then(Do(d, n.b), LAMBDA b : Repeat(b, n)), LAMBDA d : d))

\* the elements an adapter lets through, in s.v; arg is the state after its argument
KeepIf(r, c, e) == [c EXCEPT !.v = IF Truth(c.v) = BoolV(TRUE) THEN Append(r.v, e) ELSE r.v]
AdaptElement(r, op, f, e) == IF op = "ITER_FILTER" THEN KeepIf(r, Invoke(r, f, <<e>>), e) ELSE AddValue(r, Invoke(r, f, <<e>>))
Adapt(op, arg, es) ==
    LET n == IntegerOf(arg.v)
    IN CASE op = "ITER_TAKE" -> [arg EXCEPT !.v = SubSeq(es, 1, IF n < Len(es) THEN n ELSE Len(es))]
         [] op = "ITER_DROP" -> [arg EXCEPT !.v = SubSeq(es, n + 1, Len(es))]
         [] op \in {"ITER_FILTER", "ITER_TRANSFORM"} ->
                FoldLeft(LAMBDA r, e : AdaptElement(r, op, arg.v, e), [arg EXCEPT !.v = <<>>], es)
AdaptAll(s, a) == IF a.op = "ITER_REVERSE" THEN [s EXCEPT !.v = Reverse(@)] ELSE Adapt(a.op, Do(s, a.e), s.v)

Elements(o) == [o EXCEPT !.v = o.heap[o.v[2]]]
Rounds(s, n, es) ==
    FoldLeft(LAMBDA r, e : IF Stopped(r) THEN r ELSE [Do(Local(r, n.n, e), n.b) EXCEPT !.vars = s.vars], es, es.v)
DoIter(s, n) == Rounds(s, n, FoldLeft(AdaptAll, Elements(Do(s, n.e)), n.adapters))

AddHandler(r, c, op) == [c EXCEPT !.v = (op :> c.v) @@ r.v]
Install(s) == [s EXCEPT !.handlers = Append(@, s.v)]
DoHandle(s, n) ==
    [Do(Install(FoldLeft(LAMBDA r, h : AddHandler(r, Closure(r, h, NoContracts), h.op), [s EXCEPT !.v = <<>>], n.hs)), n.e)
        EXCEPT !.handlers = s.handlers]

UnaryValue(d, op) ==
    CASE op = "*" -> IF d.v[1] = "ptr" THEN Read(d, d.v[2]) ELSE Wrong("type")
      [] op = "-" -> Negated(d.v)
      [] op = "not" -> IF Truth(d.v)[1] = "err" THEN Truth(d.v) ELSE BoolV(~Truth(d.v)[2])
DoUnary(s, n) ==
    IF n.op = "&" THEN Answer(s, IF n.e.k = "id" THEN <<"ptr", Find(s, n.e.n)>> ELSE Wrong("type"))
    ELSE Then(Do(s, n.e), LAMBDA d : Answer(d, UnaryValue(d, n.op)))

\* the value of a comptime block is that of a run of its own
FromRun(s, b) == Answer([s EXCEPT !.err = b.err], b.ret[1])
Globally(s, name, c) == [Global(c, name, c.v) EXCEPT !.vars = s.vars]
MapOf(ks, vs) == FoldLeft(LAMBDA f, i : f @@ (ks[i] :> vs[i]), <<>>, [i \in DOMAIN ks |-> i])
MakeMap(ks, n) ==
    Then(Values(ks, [i \in DOMAIN n.ps |-> n.ps[i][2]]), LAMBDA vs : Object(vs, "map", "", MapOf(ks.v, vs.v)))

Do(s, n) ==
    IF Stopped(s) THEN s ELSE
    CASE n.k \in {"none", "module", "interface"} -> [s EXCEPT !.v = NullV]
      [] n.k \in {"lit", "leaf"} -> Answer(s, n.v)
      [] n.k = "id" -> Answer(s, Read(s, Find(s, n.n)))
      [] n.k = "unary" -> DoUnary(s, n)
      [] n.k = "binary" -> Then(Values(s, <<n.l, n.r>>), LAMBDA vs : Answer(vs, Binary(vs.heap, n.op, vs.v[1], vs.v[2])))
      [] n.k = "assign" -> DoAssign(s, n)
      [] n.k = "call" -> CASE n.f.k = "id" -> CallNamed(s, n) [] n.f.k = "member" -> CallMember(s, n) [] OTHER -> CallValue(s, n)
      [] n.k = "member" -> Then(Do(s, n.o), LAMBDA o : GetField(o, o.v, n.m))
      [] n.k = "index" -> Then(Values(s, <<n.o, n.i>>), LAMBDA vs : GetIndex(vs, vs.v[1], vs.v[2]))
      [] n.k = "array" -> Then(Values(s, n.es), LAMBDA vs : Object(vs, "arr", "", vs.v))
      [] n.k = "map" -> MakeMap(Values(s, [i \in DOMAIN n.ps |-> n.ps[i][1]]), n)
      [] n.k = "lambda" -> Closure(s, n, NoContracts)
      [] n.k = "comptime" -> FromRun(s, Do([s EXCEPT !.vars = <<>>], n.body))
      [] n.k = "handle" -> DoHandle(s, n)
      [] n.k = "var" -> Then(Do(s, n.e), LAMBDA d : Named(d, n.n))
      [] n.k = "block" -> Scoped(s, n.ss)
      [] n.k = "if" -> Then(Do(s, n.c), LAMBDA c : Branch(c, LAMBDA d : Do(d, n.a), LAMBDA d : Do(d, n.b)))
      [] n.k = "while" -> Repeat(s, n)
      [] n.k = "iter" -> DoIter(s, n)
      [] n.k = "return" -> Then(Do(s, n.e), LAMBDA d : [d EXCEPT !.ret = <<d.v>>])
      [] n.k = "print" -> Then(Do(s, n.e), LAMBDA d : [d EXCEPT !.out = Append(@, Text(d.heap, d.v))])
      [] n.k = "unsafe" -> Do(s, n.b)
      [] n.k = "func" -> Globally(s, n.n, Closure([s EXCEPT !.vars = <<>>], n, n))
      [] n.k \in {"struct", "enum", "effect"} -> [s EXCEPT !.decls = (n.n :> n) @@ @]

\* a variable of the module is known to its functions
DoInModule(s, n) == IF n.k = "var" THEN Then(Do(s, n.e), LAMBDA d : Global(d, n.n, d.v)) ELSE Do(s, n)

\* the lines a program prints, and how it ends
Outcome(s) == [out |-> s.out, st |-> IF s.err = "" THEN "done" ELSE s.err]
Meaning(root) == Outcome(FoldLeft(DoInModule, NewRun, root.ss))

=============================================================================
