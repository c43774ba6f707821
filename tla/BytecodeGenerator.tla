-------------------------- MODULE BytecodeGenerator ---------------------------
(***************************************************************************)
(* From an Aura syntax tree to the code of Machine                         *)
(* (src/bytecode/generator).  The generator is a record threaded through   *)
(* the visits:                                                             *)
(*   ctxs     the functions being compiled, innermost last                 *)
(*   module   the current module's dotted name, or <<>>                    *)
(*   meta     what declarations have registered so far                     *)
(*   ensures, results, raised, handled                                     *)
(*            active contracts, their result slots, active effects         *)
(*   comptime the compile-time functions                                   *)
(*   funs     the finished functions                                       *)
(*   err      the reason of a thrown error, or ""                          *)
(***************************************************************************)
EXTENDS Syntax, Machine, SymbolTable

NoFunction == <<>>            \* the empty map
Has(f, x) == x \in DOMAIN f
Put(f, x, y) == (x :> y) @@ f

NewContext ==
    [code |-> <<>>, sym |-> PushScope(Reset), ups |-> <<>>, vars |-> <<NoFunction>>,
     selfStruct |-> NoType, selfActor |-> NoType, handler |-> FALSE,
     arity |-> 0, minArity |-> 0, variadic |-> FALSE]

Fresh ==
    [ctxs |-> <<[NewContext EXCEPT !.sym = Reset]>>, module |-> <<>>, ensures |-> <<>>,
     results |-> <<>>, raised |-> <<>>, handled |-> <<>>, comptime |-> <<>>, funs |-> <<>>, err |-> "",
     meta |-> [aliases |-> NoFunction, sigs |-> NoFunction, threadLocals |-> {},
               structs |-> NoFunction, actors |-> NoFunction, interfaces |-> NoFunction,
               variants |-> NoFunction, effects |-> NoFunction]]

Top(g) == Last(g.ctxs)
Throw(g, why) == IF g.err = "" THEN [g EXCEPT !.err = why] ELSE g

\* a context's variables carry what is known of their type: <<kind, name>> to type
Note(g, kind, name, t) ==
    IF t = NoType THEN g
    ELSE [g EXCEPT !.ctxs[Len(g.ctxs)].vars[Len(Top(g).vars)] = Put(@, <<kind, name>>, t)]

PushContextScope(g) ==
    [g EXCEPT !.ctxs[Len(g.ctxs)].sym = PushScope(@), !.ctxs[Len(g.ctxs)].vars = Append(@, NoFunction)]
PopContextScope(g) ==
    [g EXCEPT !.ctxs[Len(g.ctxs)].sym = PopScope(@), !.ctxs[Len(g.ctxs)].vars = Front(@)]
DefineSlot(g, name) == [g EXCEPT !.ctxs[Len(g.ctxs)].sym = Define(@, name)]
NextSlot(g) == Top(g).sym.next

----------------------------------------------------------------------------
(* Writing code *)

Emit(g, ins) ==
    [g EXCEPT !.ctxs[Len(g.ctxs)].code = @ \o <<ins>> \o [i \in 1..(SizeOf(ins[1]) - 1) |-> Pad]]
EmitAll(g, inss) == FoldLeft(Emit, g, inss)
Const(g, v) == Emit(g, <<"CONSTANT", v>>)
CodeSize(g) == Len(Top(g).code)

\* the distance from behind the instruction at cell pos to the end of the code
PatchJump(g, pos) ==
    LET ins == Top(g).code[pos]
    IN  [g EXCEPT !.ctxs[Len(g.ctxs)].code[pos] =
            <<ins[1], (CodeSize(g) - (pos + SizeOf(ins[1]) - 1)) % 65536>>]

EmitLoop(g, start) == Emit(g, <<"LOOP", (CodeSize(g) - start + 3) % 65536>>)

----------------------------------------------------------------------------
(* Names and types *)

QualifyName(g, d) ==
    IF Len(d) > 1 THEN d
    ELSE IF Has(g.meta.aliases, d[1]) THEN g.meta.aliases[d[1]]
    ELSE g.module \o d

RECURSIVE NormalizeImportedTypeName(_, _)
NormalizeImportedTypeName(aliases, t) ==
    [b |-> IF Len(t.b) > 1 /\ Has(aliases, t.b[1]) THEN aliases[t.b[1]] \o Tail(t.b) ELSE t.b,
     a |-> [i \in DOMAIN t.a |-> NormalizeImportedTypeName(aliases, t.a[i])]]

RECURSIVE HasDot(_)
HasDot(t) == Len(t.b) > 1 \/ \E i \in DOMAIN t.a : HasDot(t.a[i])

\* QualifyName of the text of a type: a dot anywhere in it leaves it alone
QualifyType(g, t) ==
    IF HasDot(t) THEN t
    ELSE [t EXCEPT !.b = IF t.a = <<>> THEN QualifyName(g, @) ELSE g.module \o @]

\* the registered type that t means, or NoType; an instance of a generic
\* type shares the metadata of its base
Registered(g, table, t) ==
    LET Known(x, applied) == (x.a # <<>>) = applied /\ Has(table, x.b)
        Among(n, q) == IF Known(q, FALSE) THEN q
                       ELSE IF Known(n, FALSE) THEN n
                       ELSE IF Known(q, TRUE) THEN q
                       ELSE NoType
        Normalized(n) == Among(n, QualifyType(g, n))
    IN  IF t \in {NoType, AutoType} THEN NoType ELSE Normalized(NormalizeImportedTypeName(g.meta.aliases, t))

EnsureStructMetadata(g, t) ==
    LET Applied(r) == IF r.a # <<>> /\ Len(g.meta.structs[r.b].tparams) # Len(r.a) THEN NoType ELSE r
    IN  Applied(Registered(g, g.meta.structs, t))
EnsureActorMetadata(g, t) == Registered(g, g.meta.actors, t)
EnsureInterfaceMetadata(g, t) == Registered(g, g.meta.interfaces, t)

RECURSIVE SubstituteType(_, _, _)
SubstituteType(t, params, args) ==
    IF Len(t.b) = 1 /\ \E i \in DOMAIN params : params[i] = t.b[1]
    THEN args[CHOOSE i \in DOMAIN params : params[i] = t.b[1]]
    ELSE [t EXCEPT !.a = [i \in DOMAIN @ |-> SubstituteType(@[i], params, args)]]

IdentifierType(n) == Generic(n.n, n.a)
ModuleMember(g, n) ==          \* the dotted name of alias.member, or <<>>
    IF n.k = "member" /\ n.o.k = "id" /\ Has(g.meta.aliases, n.o.n)
    THEN Append(g.meta.aliases[n.o.n], n.m) ELSE <<>>
Dotted(d) == [b |-> d, a |-> <<>>]

\* all contexts, innermost scope first
ResolveVariableType(g, kind, name) ==
    LET ScopesOf(c) == {s \in DOMAIN g.ctxs[c].vars : Has(g.ctxs[c].vars[s], <<kind, name>>)}
        keys == UNION {{<<c, s>> : s \in ScopesOf(c)} : c \in DOMAIN g.ctxs}
        inner == CHOOSE x \in keys : \A y \in keys : x[1] > y[1] \/ (x[1] = y[1] /\ x[2] >= y[2])
    IN  IF keys = {} THEN NoType ELSE g.ctxs[inner[1]].vars[inner[2]][<<kind, name>>]
ResolveStructVariableType(g, name) == ResolveVariableType(g, "struct", name)
ResolveActorVariableType(g, name) == ResolveVariableType(g, "actor", name)
ResolveEnumVariableType(g, name) == ResolveVariableType(g, "enum", name)
\* a binding is [b |-> interface, a |-> <<the struct behind it>> or <<>>]
ResolveInterfaceBinding(g, name) == ResolveVariableType(g, "interface", name)

\* the type of the member m of a struct, if that is a struct
MemberStruct(g, parent, m) ==
    LET s == g.meta.structs[parent.b]
    IN  IF Has(s.types, m) THEN SubstituteType(s.types[m], s.tparams, parent.a) ELSE NoType

FirstType(s, t) == IF s # NoType THEN s ELSE t
RECURSIVE InferStructTypeName(_, _)
InferStructTypeName(g, n) ==
    LET ModuleType(d) == IF d = <<>> THEN NoType ELSE Dotted(d)
        OfMember(parent) == IF parent = NoType THEN ModuleType(ModuleMember(g, n)) ELSE MemberStruct(g, parent, n.m)
        named == CASE n.k = "id" -> IdentifierType(n)
                   [] n.k = "member" -> OfMember(InferStructTypeName(g, n.o))
                   [] n.k = "call" -> IF n.f.k = "id" THEN IdentifierType(n.f) ELSE ModuleType(ModuleMember(g, n.f))
                   [] OTHER -> NoType
    IN  FirstType(EnsureStructMetadata(g, named), IF n.k = "id" THEN ResolveStructVariableType(g, n.n) ELSE NoType)

IndexOf(s, x) ==              \* counted from 0, or NoSlot
    IF \E i \in DOMAIN s : s[i] = x THEN (CHOOSE i \in DOMAIN s : s[i] = x /\ \A j \in 1..(i - 1) : s[j] # x) - 1 ELSE NoSlot

ResolveStructFieldIndex(g, object, member) ==
    LET FieldOf(t) == IF t = NoType THEN NoSlot ELSE IndexOf(g.meta.structs[t.b].layout, member)
    IN  FieldOf(InferStructTypeName(g, object))

ResolveSelfFieldIndex(g, member) ==
    LET FirstSlot(s, a) == IF s # NoSlot THEN s ELSE a
        c == Top(g)
    IN  FirstSlot(IF c.selfStruct = NoType THEN NoSlot ELSE IndexOf(g.meta.structs[c.selfStruct.b].layout, member),
                  IF c.selfActor = NoType THEN NoSlot ELSE IndexOf(g.meta.actors[c.selfActor.b].layout, member))

InferActorTypeName(g, n) ==
    CASE n.k = "id" -> FirstType(EnsureActorMetadata(g, IdentifierType(n)), ResolveActorVariableType(g, n.n))
      [] n.k = "call" /\ n.f.k = "id" -> EnsureActorMetadata(g, IdentifierType(n.f))
      [] OTHER -> NoType

InferInterfaceBinding(g, n, explicit) ==
    LET Bound(i, behind) == IF i # NoType /\ behind # NoType THEN [b |-> i.b, a |-> <<behind>>] ELSE NoType
        Variable(kind) == IF n.k = "id" THEN ResolveVariableType(g, kind, n.n) ELSE NoType
        i == EnsureInterfaceMetadata(g, explicit)
    IN  IF n = Nothing THEN i
        ELSE FirstType(Variable("interface"), Bound(i, FirstType(Variable("struct"), InferStructTypeName(g, n))))

\* the hidden function of a method: of the inferred struct, else of the
\* struct the interface variable was bound to last
ResolveStructMethod(g, object, member) ==
    LET MethodOf(s) == IF s # NoType /\ Has(g.meta.structs, s.b) /\ Has(g.meta.structs[s.b].methods, member)
                       THEN g.meta.structs[s.b].methods[member] ELSE <<>>
        Behind(binding) == IF binding.a # <<>> THEN MethodOf(binding.a[1]) ELSE <<>>
        Else(method) == IF method # <<>> \/ object.k # "id" THEN method ELSE Behind(ResolveInterfaceBinding(g, object.n))
    IN  Else(MethodOf(InferStructTypeName(g, object)))

ResolveActorMethod(g, object, member) ==
    LET MethodOf(t) == IF t # NoType /\ Has(g.meta.actors[t.b].methods, member)
                       THEN g.meta.actors[t.b].methods[member].hidden ELSE <<>>
    IN  MethodOf(InferActorTypeName(g, object))
IsActorQueryMethod(g, object, member) ==
    g.meta.actors[InferActorTypeName(g, object).b].methods[member].query

EnumNames(g) == {g.meta.variants[v].enum : v \in DOMAIN g.meta.variants}
NormalizeEnumType(g, t) ==
    LET EnumNamed(b) == IF b \in EnumNames(g) THEN Dotted(b) ELSE NoType
    IN  EnumNamed(NormalizeImportedTypeName(g.meta.aliases, t).b)

InferEnumTypeName(g, n) ==
    LET FromSignature(d) == IF Has(g.meta.sigs, d) THEN NormalizeEnumType(g, g.meta.sigs[d].ret) ELSE NoType
        Named(d) == IF Has(g.meta.variants, d) THEN Dotted(g.meta.variants[d].enum) ELSE FromSignature(d)
    IN CASE n.k = "id" -> ResolveEnumVariableType(g, n.n)
         [] n.k = "call" /\ n.f.k = "id" -> Named(QualifyName(g, <<n.f.n>>))
         [] n.k = "call" /\ n.f.k = "member" ->
                FirstType(FromSignature(ResolveStructMethod(g, n.f.o, n.f.m)), Named(ModuleMember(g, n.f)))
         [] OTHER -> NoType

IsEnumTagAccess(g, object, member) == member = "tag" /\ InferEnumTypeName(g, object) # NoType

ActiveEffects(g) == UNION ({g.raised[i] : i \in DOMAIN g.raised} \cup {g.handled[i] : i \in DOMAIN g.handled})
EffectsWith(g, effects, op) == {e \in effects : Has(g.meta.effects, e) /\ op \in g.meta.effects[e]}
\* the effects among the active ones that have the called operation
ResolveEffectOperation(g, callee) ==
    IF callee.k # "id" THEN {} ELSE EffectsWith(g, ActiveEffects(g), callee.n)

----------------------------------------------------------------------------
(* Variables *)

ResolveLocal(g, d) == IF Len(d) = 1 THEN Resolve(Top(g).sym, d[1]) ELSE NoSlot

\* a capture: by value, from the enclosing function's slots or captures
Capture(g, c, name, local, slot) ==
    LET at == {i \in DOMAIN g.ctxs[c].ups : g.ctxs[c].ups[i].name = name}
    IN  IF at # {} THEN [g |-> g, slot |-> (CHOOSE i \in at : TRUE) - 1]
        ELSE [g |-> [g EXCEPT !.ctxs[c].ups = Append(@, [name |-> name, local |-> local, slot |-> slot])],
              slot |-> Len(g.ctxs[c].ups) % 256]

(* Functions of a module do not capture its top-level variables, which are *)
(* globals, but they do capture import aliases.                            *)
RECURSIVE ResolveUpvalue(_, _, _)
ResolveUpvalue(g, c, name) ==
    IF c = 1 \/ (c = 2 /\ g.module # <<>> /\ ~Has(g.meta.aliases, name)) THEN [g |-> g, slot |-> NoSlot]
    ELSE LET local == Resolve(g.ctxs[c - 1].sym, name)
             outer == ResolveUpvalue(g, c - 1, name)
         IN  IF local # NoSlot THEN Capture(g, c, name, TRUE, local)
             ELSE IF outer.slot = NoSlot THEN outer
             ELSE Capture(outer.g, c, name, FALSE, outer.slot)

UpvalueOf(g, d) == IF Len(d) = 1 THEN ResolveUpvalue(g, Len(g.ctxs), d[1]) ELSE [g |-> g, slot |-> NoSlot]

GlobalName(g, d) ==
    LET q == QualifyName(g, d) IN IF q \in g.meta.threadLocals THEN <<"__thread_local">> \o q ELSE q

EmitGetVariable(g, d) ==
    LET OfSelf(field) == IF field # NoSlot THEN EmitAll(g, <<<<"GET_LOCAL", 0>>, <<"MEMBER_GET", field>>>>)
                         ELSE Emit(g, <<"GET_GLOBAL", GlobalName(g, d)>>)
        Captured(up) == IF up.slot # NoSlot THEN Emit(up.g, <<"GET_UPVALUE", up.slot>>)
                        ELSE OfSelf(IF Len(d) = 1 THEN ResolveSelfFieldIndex(g, d[1]) ELSE NoSlot)
        Local(slot) == IF slot # NoSlot THEN Emit(g, <<"GET_LOCAL", slot>>) ELSE Captured(UpvalueOf(g, d))
    IN  IF d = <<"result">> /\ g.results # <<>> /\ Last(g.results) # NoSlot
        THEN Emit(g, <<"GET_LOCAL", Last(g.results)>>)
        ELSE Local(ResolveLocal(g, d))

EmitSetVariable(g, d) ==
    LET OfSelf(field) == IF field # NoSlot THEN EmitAll(g, <<<<"GET_LOCAL", 0>>, <<"MEMBER_SET", field>>>>)
                         ELSE Emit(g, <<"SET_GLOBAL", GlobalName(g, d)>>)
        Captured(up) == IF up.slot # NoSlot THEN Emit(up.g, <<"SET_UPVALUE", up.slot>>)
                        ELSE OfSelf(ResolveSelfFieldIndex(g, d[1]))
        Local(slot) == IF slot # NoSlot THEN Emit(g, <<"SET_LOCAL", slot>>) ELSE Captured(UpvalueOf(g, d))
    IN  Local(ResolveLocal(g, d))

----------------------------------------------------------------------------
(* Expressions and calls *)

RECURSIVE Visit(_, _)
VisitAll(g, nodes) == FoldLeft(Visit, g, nodes)

EmitAddressOf(g, n) ==
    LET Captured(up) == IF up.slot # NoSlot THEN Emit(up.g, <<"ADDR_UPVALUE", up.slot>>)
                        ELSE Emit(g, <<"ADDR_GLOBAL", QualifyName(g, <<n.n>>)>>)
        Variable(local) == IF local # NoSlot THEN Emit(g, <<"ADDR_LOCAL", local>>) ELSE Captured(UpvalueOf(g, <<n.n>>))
        OfField(field) == IF field = NoSlot THEN Throw(g, "address of member")
                         ELSE EmitAll(Visit(g, n.o), <<<<"CONSTANT", IntV(field)>>, <<"ADDR_MEMBER">>>>)
    IN CASE n.k = "id" -> Variable(ResolveLocal(g, <<n.n>>))
         [] n.k = "member" -> OfField(ResolveStructFieldIndex(g, n.o, n.m))
         [] n.k = "index" -> Emit(Visit(Visit(g, n.o), n.i), <<"ADDR_MEMBER">>)
         [] OTHER -> Throw(g, "address of expression")

EmitCallArguments(g, args, refs, offset) ==
    FoldLeft(LAMBDA h, i : IF i + offset \in DOMAIN refs /\ refs[i + offset]
                           THEN EmitAddressOf(h, args[i]) ELSE Visit(h, args[i]),
             g, [i \in DOMAIN args |-> i])
EmitContextArguments(g, names) == FoldLeft(LAMBDA h, n : EmitGetVariable(h, <<n>>), g, names)

RegisterFunctionSignature(g, name, params, ctx, ret) ==
    LET fixed == SelectSeq(params, LAMBDA q : ~q.variadic)
    IN  [g EXCEPT !.meta.sigs = Put(@, name,
            [refs |-> [i \in DOMAIN fixed |-> fixed[i].t.b = <<"ref">>],
             defaults |-> [i \in DOMAIN fixed |-> fixed[i].default],
             ctx |-> [i \in DOMAIN ctx |-> ctx[i].n],
             ret |-> NormalizeImportedTypeName(g.meta.aliases, ret),
             required |-> Len(SelectSeq(fixed, LAMBDA q : q.default = Nothing)),
             variadic |-> Len(fixed) # Len(params)])]

\* a struct value is checked against the invariant of its type
EmitInvariantCheck(g, t) ==
    IF g.meta.structs[t.b].invariant
    THEN EmitAll(g, <<<<"DUP">>, <<"GET_GLOBAL", Append(t.b, "__invariant")>>, <<"SWAP">>,
                      <<"CALL", 1>>, <<"POP">>>>)
    ELSE g

(* Struct, enum and actor constructors; d is the constructor's type.       *)
BuildActor(g, actor, given) ==
    LET defaults == g.meta.actors[actor.b].defaults
        missing == SubSeq(defaults, given + 1, Len(defaults))
    IN  Emit(FoldLeft(LAMBDA x, e : IF e = Nothing THEN Const(x, NullV) ELSE Visit(x, e), g, missing),
             <<"BUILD_ACTOR", actor.b, Len(defaults) % 256>>)

TryEmitDirectTypeConstructorCall(g, n) ==
    LET t == IF n.f.k = "id" THEN IdentifierType(n.f) ELSE Dotted(ModuleMember(g, n.f))
        named == n.f.k = "id" \/ ModuleMember(g, n.f) # <<>>
        variant == IF n.f.k = "id" THEN QualifyName(g, <<n.f.n>>) ELSE ModuleMember(g, n.f)
        Build(h, struct, actor) ==
            IF struct # NoType
            THEN EmitInvariantCheck(Emit(h, <<"BUILD_STRUCT", Len(g.meta.structs[struct.b].layout) % 256>>), struct)
            ELSE IF Has(g.meta.variants, variant)
            THEN Emit(h, <<"BUILD_ENUM", g.meta.variants[variant].tag, g.meta.variants[variant].args>>)
            ELSE IF actor # NoType THEN BuildActor(h, actor, Len(n.args))
            ELSE g
    IN  IF ~named THEN g
        ELSE Build(EmitCallArguments(g, n.args, <<>>, 0), EnsureStructMetadata(g, t), EnsureActorMetadata(g, t))

\* a method is a function whose first argument is the object
EmitMethodCall(g, n, hidden) ==
    LET sig == g.meta.sigs[hidden]
        prefix == 1 + Len(sig.ctx)
        g1 == Visit(Emit(g, <<"GET_GLOBAL", hidden>>), n.f.o)
        g2 == EmitCallArguments(EmitContextArguments(g1, sig.ctx), n.args, sig.refs, prefix)
        missing == SubSeq(sig.defaults, prefix + Len(n.args) + 1, Len(sig.defaults))
        g3 == FoldLeft(LAMBDA h, e : IF e = Nothing THEN Throw(h, "default") ELSE Visit(h, e), g2, missing)
    IN  Emit(g3, <<"CALL", (IF sig.variadic THEN Len(n.args) + prefix
                            ELSE Len(sig.defaults) + Len(sig.ctx)) % 256>>)

EmitActorCall(g, n, hidden) ==
    LET ctx == g.meta.sigs[hidden].ctx
        g1 == EmitCallArguments(EmitContextArguments(Visit(g, n.f.o), ctx), n.args, <<>>, 0)
    IN  Emit(g1, <<IF IsActorQueryMethod(g, n.f.o, n.f.m) THEN "ACTOR_QUERY" ELSE "ACTOR_SEND",
                   n.f.m, (Len(n.args) + Len(ctx)) % 256>>)

\* the arguments a call leaves out are compiled where the call stands
EmitMissingDefaults(g, sig, supplied) ==
    IF supplied < sig.required \/ (~sig.variadic /\ supplied > Len(sig.defaults)) THEN Throw(g, "arity")
    ELSE FoldLeft(LAMBDA h, i : IF sig.refs[i] \/ sig.defaults[i] = Nothing THEN Throw(h, "default")
                                ELSE Visit(h, sig.defaults[i]),
                  g, [i \in 1..(Len(sig.defaults) - supplied) |-> supplied + i])

(* An ordinary call: the callee, context arguments, arguments, defaults.   *)
EmitFunctionCall(g, n) ==
    LET d == IF n.f.k = "id" THEN QualifyName(g, <<n.f.n>>) ELSE ModuleMember(g, n.f)
        known == d # <<>> /\ Has(g.meta.sigs, d)
        sig == g.meta.sigs[d]
        g1 == Visit(g, n.f)
        g2 == IF known THEN EmitContextArguments(g1, sig.ctx) ELSE g1
        g3 == EmitCallArguments(g2, n.args, IF known THEN sig.refs ELSE <<>>, IF known THEN Len(sig.ctx) ELSE 0)
        g4 == IF known THEN EmitMissingDefaults(g3, sig, Len(n.args)) ELSE g3
        count == IF ~known THEN Len(n.args)
                 ELSE IF sig.variadic THEN Len(n.args) + Len(sig.ctx)
                 ELSE Len(sig.defaults) + Len(sig.ctx)
    IN  Emit(g4, <<"CALL", count % 256>>)

\* no interface value is a function: calls of one are provided for and never made
IsFunctionBackedInterfaceMethod(object, member) == FALSE

EmitOrdinaryCall(g, n, constructed, method, actor) ==
    IF constructed # g THEN constructed
    ELSE IF method # <<>> THEN EmitMethodCall(g, n, method)
    ELSE IF n.f.k = "member" /\ IsFunctionBackedInterfaceMethod(n.f.o, n.f.m)
    THEN Emit(EmitCallArguments(Visit(g, n.f.o), n.args, <<>>, 0), <<"CALL", Len(n.args) % 256>>)
    ELSE IF actor # <<>> THEN EmitActorCall(g, n, actor)
    ELSE EmitFunctionCall(g, n)

EmitCall(g, n) ==
    LET effects == ResolveEffectOperation(g, n.f)
        member == n.f.k = "member"
    IN  IF n.f.k = "id" /\ n.f.n = "resume"
        THEN IF Top(g).handler /\ Len(n.args) = 1 THEN Emit(Visit(g, n.args[1]), <<"RETURN">>)
             ELSE Throw(g, "resume")
        ELSE IF Len(SetToSeq(effects)) > 1 THEN Throw(g, "ambiguous effect")
        ELSE IF effects # {}
        THEN Emit(EmitCallArguments(g, n.args, <<>>, 0),
                  <<"EFFECT_INVOKE", Append(CHOOSE e \in effects : TRUE, n.f.n), Len(n.args) % 256>>)
        ELSE EmitOrdinaryCall(g, n, TryEmitDirectTypeConstructorCall(g, n),
                              IF member THEN ResolveStructMethod(g, n.f.o, n.f.m) ELSE <<>>,
                              IF member THEN ResolveActorMethod(g, n.f.o, n.f.m) ELSE <<>>)

EmitMemberAccess(g, n) ==
    LET OfField(h, field) == Emit(h, IF IsEnumTagAccess(g, n.o, n.m) THEN <<"GET_ENUM_TAG">>
                                   ELSE IF field # NoSlot THEN <<"MEMBER_GET", field>>
                                   ELSE <<"GET_MODULE_MEMBER", n.m>>)
    IN  IF ResolveStructMethod(g, n.o, n.m) # <<>> \/ ResolveActorMethod(g, n.o, n.m) # <<>>
        THEN Throw(g, "method outside a call")
        ELSE IF IsFunctionBackedInterfaceMethod(n.o, n.m) THEN Visit(g, n.o)
        ELSE OfField(Visit(g, n.o), ResolveStructFieldIndex(g, n.o, n.m))

\* an assignment to an interface variable binds it to the struct assigned, in
\* the scope of the current function that has it
Rebind(g, name, binding) ==
    LET c == Len(g.ctxs)
        at == {s \in DOMAIN Top(g).vars : Has(Top(g).vars[s], <<"interface", name>>)}
    IN  IF binding = NoType \/ at = {} THEN g
        ELSE [g EXCEPT !.ctxs[c].vars[CHOOSE s \in at : \A x \in at : x <= s] =
                            Put(@, <<"interface", name>>, binding)]

EmitAssignment(g, n) ==
    LET Stored(h, bound) == IF bound = NoType THEN h
                            ELSE Rebind(h, n.n, InferInterfaceBinding(h, n.e, Dotted(bound.b)))
        SetMember(h, field) == IF field = NoSlot THEN Throw(g, "unknown field")
                               ELSE Emit(Visit(h, n.e), <<"MEMBER_SET", field>>)
        Named(field) ==
            IF field # NoSlot THEN SetMember(Emit(g, <<"GET_LOCAL", 0>>), field)
            ELSE IF n.to = "index" THEN Emit(Visit(Visit(EmitGetVariable(g, <<n.n>>), n.i), n.e), <<"INDEX_SET">>)
            ELSE Stored(EmitSetVariable(Visit(g, n.e), <<n.n>>), ResolveInterfaceBinding(g, n.n))
    IN CASE n.to = "member" -> SetMember(Visit(g, n.o), ResolveStructFieldIndex(g, n.o, n.m))
         [] n.to = "deref" -> Emit(Visit(Visit(g, n.o), n.e), <<"DEREF_SET">>)
         [] n.to \in {"name", "index"} -> Named(ResolveSelfFieldIndex(g, n.n))

----------------------------------------------------------------------------
(* Functions *)

AddParameter(c, n) == [c EXCEPT !.sym = Define(@, n), !.arity = @ + 1]
AddParameters(c, names) == FoldLeft(AddParameter, c, names)
NamesOf(bindings) == [i \in DOMAIN bindings |-> bindings[i].n]

\* The finished function becomes a closure: its captures, then CLOSURE.
EmitFunctionObject(g) ==
    LET c == Top(g)
        h == [g EXCEPT !.ctxs = Front(@),
                       !.funs = Append(@, [code |-> c.code, arity |-> c.arity, minArity |-> c.minArity,
                                           variadic |-> c.variadic, captures |-> Len(c.ups)])]
    IN  EmitAll(h, Append([i \in DOMAIN c.ups |-> <<IF c.ups[i].local THEN "GET_LOCAL" ELSE "GET_UPVALUE", c.ups[i].slot>>],
                          <<"CLOSURE", Len(h.funs)>>))

EmitAssertions(g, conditions) == FoldLeft(LAMBDA h, e : Emit(Visit(h, e), <<"ASSERT", "contract">>), g, conditions)

EndBody(g) == EmitAll(g, <<<<"CONSTANT", NullV>>, <<"RETURN">>>>)

(* The part of a function all kinds of functions share: contracts, effects *)
(* and the body, compiled in context c.                                    *)
CompileInContext(g, c, raises, requires, ensures, body) ==
    LET g1 == [g EXCEPT !.ctxs = Append(@, c), !.ensures = Append(@, ensures),
                        !.raised = Append(@, {QualifyName(g, raises[i]) : i \in DOMAIN raises})]
        slot == NextSlot(g1)
        g2 == IF ensures = <<>> THEN [g1 EXCEPT !.results = Append(@, NoSlot)]
              ELSE [EmitAll(DefineSlot(g1, "__contract_result"), <<<<"CONSTANT", NullV>>, <<"SET_LOCAL", slot>>>>)
                        EXCEPT !.results = Append(@, slot)]
        g3 == EndBody(Visit(EmitAssertions(g2, requires), body))
    IN  EmitFunctionObject([g3 EXCEPT !.ensures = Front(@), !.results = Front(@), !.raised = Front(@)])

\* parameters carry their struct and interface types into the body
NoteParameters(g, c, params) ==
    LET NoteOf(kind, n, t) == IF t = NoType THEN NoFunction ELSE <<kind, n>> :> t
        Notes(q) == NoteOf("struct", q.n, EnsureStructMetadata(g, q.t)) @@
                    NoteOf("interface", q.n, Dotted(EnsureInterfaceMetadata(g, q.t).b))
    IN  [c EXCEPT !.vars[1] = FoldLeft(LAMBDA f, q : Notes(q) @@ f, @, params)]

CompileFunctionBody(g, params, ctx, raises, requires, ensures, body, isHandler) ==
    LET c == AddParameters(AddParameters(NewContext, NamesOf(ctx)), NamesOf(params))
        c2 == [NoteParameters(g, c, params) EXCEPT !.handler = isHandler,
                    !.minArity = Len(SelectSeq(params, LAMBDA q : ~q.variadic /\ q.default = Nothing)),
                    !.variadic = \E i \in DOMAIN params : params[i].variadic]
    IN  CompileInContext(g, c2, raises, requires, ensures, body)

VisitFunctionDecl(g, n) ==
    LET name == QualifyName(g, <<n.n>>)
        h == RegisterFunctionSignature(g, name, n.params, n.ctx, n.ret)
    IN  IF n.comptime THEN [g EXCEPT !.comptime = Append(SelectSeq(@, LAMBDA f : f.n # n.n), n)]
        ELSE Emit(CompileFunctionBody(h, n.params, n.ctx, n.raises, n.requires, n.ensures, n.body, FALSE),
                  <<"DEFINE_GLOBAL", name>>)

\* a method of a struct or an actor: a function of self, the context and the parameters
CompileMethod(g, c, owner, m) ==
    LET hidden == Append(owner, m.n)
        h == RegisterFunctionSignature(g, hidden, <<Param("self", Dotted(owner))>> \o m.params, m.ctx, m.ret)
        c2 == AddParameters(c, <<"self">> \o NamesOf(m.ctx) \o NamesOf(m.params))
    IN  Emit(CompileInContext(h, c2, m.raises, m.requires, m.ensures, m.body), <<"DEFINE_GLOBAL", hidden>>)

StructContext(owner) ==
    [NewContext EXCEPT !.selfStruct = Dotted(owner), !.vars[1] = <<"struct", "self">> :> Dotted(owner)]

\* the check of a struct's invariants is a function of its own
CompileInvariant(g, owner, invariants) ==
    LET c == AddParameter(StructContext(owner), "self")
        h == EndBody(EmitAssertions([g EXCEPT !.ctxs = Append(@, c)], invariants))
    IN  Emit(EmitFunctionObject(h), <<"DEFINE_GLOBAL", Append(owner, "__invariant")>>)

VisitStructDecl(g, n) ==
    LET owner == QualifyName(g, <<n.n>>)
        FieldType(t) == LET q == QualifyType(g, t)
                        IN  IF q.a = <<>> /\ (Has(g.meta.structs, q.b) \/ q.b = owner) THEN q ELSE t
        g1 == [g EXCEPT !.meta.structs = Put(@, owner,
                [layout |-> NamesOf(n.fields), tparams |-> NamesOf(n.tparams), methods |-> NoFunction,
                 invariant |-> n.invariants # <<>> \/ (Has(@, owner) /\ @[owner].invariant),
                 types |-> FoldLeft(LAMBDA f, x : Put(f, x.n, FieldType(x.t)), NoFunction, n.fields)])]
        g2 == IF n.invariants = <<>> THEN g1 ELSE CompileInvariant(g1, owner, n.invariants)
    IN  FoldLeft(LAMBDA h, m : CompileMethod([h EXCEPT !.meta.structs[owner].methods = Put(@, m.n, Append(owner, m.n))],
                                             StructContext(owner), owner, m), g2, n.methods)

\* an actor's methods are also collected in a table the runtime looks them up in
VisitActorDecl(g, n) ==
    LET owner == QualifyName(g, <<n.n>>)
        g1 == [g EXCEPT !.meta.actors = Put(@, owner,
                [layout |-> NamesOf(n.fields), defaults |-> [i \in DOMAIN n.fields |-> n.fields[i].e],
                 methods |-> NoFunction])]
        g2 == FoldLeft(LAMBDA h, m : CompileMethod(
                    [h EXCEPT !.meta.actors[owner].methods = Put(@, m.n, [hidden |-> Append(owner, m.n), query |-> m.query])],
                    [NewContext EXCEPT !.selfActor = Dotted(owner)], owner, m), g1, n.methods)
        table == g2.meta.actors[owner].methods
        g3 == FoldLeft(LAMBDA h, m : EmitAll(h, <<<<"GET_GLOBAL", table[m].hidden>>, <<"CONSTANT", StrV(m)>>>>),
                       g2, SetToSeq(DOMAIN table))
    IN  EmitAll(g3, <<<<"BUILD_ACTOR_METHODS", Len(SetToSeq(DOMAIN table)) % 256>>,
                      <<"DEFINE_GLOBAL", Append(owner, "__methods")>>>>)

VisitEnumDecl(g, n) ==
    [g EXCEPT !.meta.variants = FoldLeft(
        LAMBDA f, i : Put(f, QualifyName(g, <<n.variants[i].n>>),
                          [tag |-> (i - 1) % 256, args |-> Len(n.variants[i].args) % 256, enum |-> QualifyName(g, <<n.n>>)]),
        @, [i \in DOMAIN n.variants |-> i])]

VisitInterfaceDecl(g, n) == [g EXCEPT !.meta.interfaces = Put(@, QualifyName(g, <<n.n>>), NamesOf(n.methods))]
VisitEffectDecl(g, n) == [g EXCEPT !.meta.effects = Put(@, QualifyName(g, <<n.n>>), {n.ops[i].n : i \in DOMAIN n.ops})]

\* An import defines a local of the top level that no block ever pops.
VisitImportDecl(g, n) ==
    LET h == [Const(g, <<"mod", n.q>>) EXCEPT !.meta.aliases = Put(@, n.alias, n.q)]
    IN  Emit(DefineSlot(h, n.alias), <<"SET_LOCAL", NextSlot(h)>>)

----------------------------------------------------------------------------
(* Compile time *)

(* EvaluateComptime: the body is compiled as a function of a program of    *)
(* its own and run on a fresh machine; the answer becomes a constant.      *)
ComptimeAliases(g) ==
    LET blank == [Fresh EXCEPT !.meta = g.meta, !.module = g.module, !.comptime = g.comptime]
    IN  FoldLeft(LAMBDA h, a : Emit(DefineSlot(Const(h, <<"mod", g.meta.aliases[a]>>), a), <<"SET_LOCAL", NextSlot(h)>>),
                 blank, SetToSeq(DOMAIN g.meta.aliases))

TopLevel(g) == Append(g.funs, [code |-> Top(g).code, arity |-> 0, minArity |-> 0, variadic |-> FALSE, captures |-> 0])

EvaluateComptime(g, body) ==
    LET functions == FoldLeft(LAMBDA h, f : VisitFunctionDecl(h, [f EXCEPT !.comptime = FALSE]), ComptimeAliases(g), g.comptime)
        Run(p) == RunAbove(p, Start(p), 0)
        Answer(h, m) == IF m.st # "done" THEN Throw(g, "comptime")
                        ELSE Const([g EXCEPT !.meta = h.meta], Last(m.stk))
        Evaluate(h) == IF h.err # "" THEN Throw(g, h.err) ELSE Answer(h, Run(TopLevel(h)))
    IN  Evaluate(EmitAll(CompileFunctionBody(functions, <<>>, <<>>, <<>>, <<>>, <<>>, body, FALSE),
                         <<<<"CALL", 0>>, <<"RETURN">>>>))

----------------------------------------------------------------------------
(* Statements *)

\* in a module, a top-level variable is also a global; a shared one gets a mutex
PublishVariable(g, n, slot) ==
    LET q == QualifyName(g, <<n.n>>)
        name == IF n.storage = "thread_local" THEN <<"__thread_local">> \o q ELSE q
    IN  IF Len(g.ctxs) > 1 \/ g.module = <<>> THEN g
        ELSE EmitAll([g EXCEPT !.meta.threadLocals = @ \cup (IF name = q THEN {} ELSE {q})],
                     <<<<"GET_LOCAL", slot>>, <<"DEFINE_GLOBAL", name>>>> \o
                     (IF n.storage # "shared" THEN <<>>
                      ELSE <<<<"GET_GLOBAL", <<"std", "sync_native", "mutex">>>>, <<"CALL", 0>>,
                             <<"DEFINE_GLOBAL", <<"__txn_mutex", n.n>>>>>>))

\* what is known of a new variable's type; the declared type of a struct or an
\* actor comes before the inferred one, of an enum or an interface after it
NoteStruct(g, n) == Note(g, "struct", n.n, FirstType(EnsureStructMetadata(g, n.t), InferStructTypeName(g, n.e)))
NoteEnum(g, n) == Note(g, "enum", n.n, FirstType(InferEnumTypeName(g, n.e), NormalizeEnumType(g, n.t)))
NoteActor(g, n) == Note(g, "actor", n.n, FirstType(EnsureActorMetadata(g, n.t), InferActorTypeName(g, n.e)))
NoteInterface(g, n) == Note(g, "interface", n.n, FirstType(InferInterfaceBinding(g, n.e, n.t),
                                                           Dotted(EnsureInterfaceMetadata(g, n.t).b)))

VisitVarDecl(g, n) ==
    LET Declare(h) == PublishVariable(Emit(DefineSlot(h, n.n), <<"SET_LOCAL", NextSlot(h)>>), n, NextSlot(h))
    IN  NoteInterface(NoteActor(NoteEnum(NoteStruct(
            Declare(IF n.e = Nothing THEN Const(g, NullV) ELSE Visit(g, n.e)), n), n), n), n)

\* faulty variant: the value of an assignment used as a statement stays on the stack.
ShouldPopUnlessAssignment(n) ==
    n.k \in {"binary", "call", "go", "await", "index", "id", "unary", "lit", "lambda", "member", "array", "map"}

ShouldPopStatementResult(n) ==
    n.k \in {"binary", "assign", "call", "go", "await", "index", "id", "unary", "lit", "lambda", "member", "array", "map"}

\* the variables a block declares directly are popped at its end
VisitBlock(g, n) ==
    LET vars == Len(SelectSeq(n.ss, LAMBDA s : s.k = "var")) % 256
        Statement(h, s) == IF ShouldPopStatementResult(s) THEN Emit(Visit(h, s), <<"POP">>) ELSE Visit(h, s)
    IN  PopContextScope(EmitAll(FoldLeft(Statement, PushContextScope(g), n.ss), [i \in 1..vars |-> <<"POP">>]))

VisitIf(g, n) ==
    LET g1 == Visit(g, n.c)
        g2 == Visit(Emit(g1, <<"JUMP_IF_FALSE", 0>>), n.a)
        g3 == PatchJump(Emit(g2, <<"JUMP", 0>>), CodeSize(g1) + 1)
    IN  IF n.b = Nothing THEN PatchJump(g2, CodeSize(g1) + 1)
        ELSE PatchJump(Visit(g3, n.b), CodeSize(g2) + 1)

VisitWhile(g, n) ==
    LET g1 == Visit(g, n.c)
        g2 == Visit(Emit(g1, <<"JUMP_IF_FALSE", 0>>), n.b)
    IN  PatchJump(EmitLoop(g2, CodeSize(g)), CodeSize(g1) + 1)

(* An iteration keeps two locals, the iterator and its variable; the jump  *)
(* out of the loop is one byte.                                            *)
VisitIter(g, n) ==
    LET g1 == Emit(Visit(PushContextScope(g), n.e), <<"MAKE_ITER">>)
        it == NextSlot(g1)
        g2 == EmitAll(DefineSlot(g1, "__iter"), <<<<"SET_LOCAL", it>>, <<"CONSTANT", NullV>>>>)
        var == NextSlot(g2)
        g3 == Emit(DefineSlot(g2, n.n), <<"SET_LOCAL", var>>)
        Adapt(h, a) == LET h1 == Emit(h, <<"GET_LOCAL", it>>)
                           h2 == IF a.e = Nothing THEN h1 ELSE Visit(h1, a.e)
                       IN  EmitAll(h2, <<<<a.op>>, <<"SET_LOCAL", it>>, <<"POP">>>>)
        g4 == FoldLeft(Adapt, g3, n.adapters)
        g5 == EmitAll(g4, <<<<"GET_LOCAL", it>>, <<"ITER_NEXT", 0>>, <<"SET_LOCAL", var>>, <<"POP">>, <<"POP">>>>)
        g6 == EmitLoop(Visit(g5, n.b), CodeSize(g4))
        next == CodeSize(g4) + 3
        g7 == PatchJump(g6, next)
    IN  IF Top(g7).code[next][2] > 255 THEN Throw(g, "iter body")
        ELSE PopContextScope(EmitAll(g7, <<<<"POP">>, <<"POP">>, <<"POP">>>>))

\* a return checks the postconditions and the invariant of a method's struct
VisitReturn(g, n) ==
    LET g1 == IF n.e = Nothing THEN Const(g, NullV) ELSE Visit(g, n.e)
        slot == Last(g.results)
        g2 == IF g.results = <<>> \/ slot = NoSlot THEN g1
              ELSE EmitAssertions(EmitAll(g1, <<<<"DUP">>, <<"SET_LOCAL", slot>>, <<"POP">>>>), Last(g.ensures))
        self == Top(g).selfStruct
        g3 == IF self = NoType \/ ~g.meta.structs[self.b].invariant THEN g2
              ELSE EmitAll(g2, <<<<"GET_GLOBAL", Append(self.b, "__invariant")>>, <<"GET_LOCAL", 0>>, <<"CALL", 1>>, <<"POP">>>>)
    IN  Emit(g3, <<"RETURN">>)

\* one region is locked as it is, several as an array of them
VisitTransaction(g, n) ==
    LET g1 == FoldLeft(LAMBDA h, r : EmitGetVariable(h, IF r.shared THEN <<"__txn_mutex", r.n>> ELSE <<r.n>>), g, n.regions)
        g2 == IF Len(n.regions) > 1 THEN Emit(g1, <<"BUILD_ARRAY", Len(n.regions) % 256>>) ELSE g1
    IN  IF n.regions = <<>> THEN Throw(g, "transaction")
        ELSE Emit(Visit(Emit(g2, <<"BEGIN_TXN">>), n.b), <<"END_TXN">>)

\* the effect an operation's handler is for: an active one, else any
HandlerEffects(g, op) ==
    LET active == EffectsWith(g, ActiveEffects(g), op)
    IN  IF active # {} THEN active ELSE EffectsWith(g, DOMAIN g.meta.effects, op)

VisitHandle(g, n) ==
    LET Key(op, es) == IF es = {} THEN <<op>> ELSE Append(CHOOSE e \in es : TRUE, op)
        EffectName(key) == IF Len(key) > 1 THEN Front(key) ELSE key
        Compiled(h, x, es) == IF Len(SetToSeq(es)) > 1 THEN Throw(h, "ambiguous handler")
                              ELSE Const(CompileFunctionBody(h, x.params, <<>>, <<>>, <<>>, <<>>, x.body, TRUE), <<"key", Key(x.op, es)>>)
        One(h, x) == Compiled(h, x, HandlerEffects(h, x.op))
        Body(h) == IF n.e = Nothing THEN Const(h, NullV) ELSE Visit(h, n.e)
        Install(h) == Body([h EXCEPT !.handled = Append(@, {EffectName(Key(x.op, HandlerEffects(h, x.op))) : x \in Range(n.hs)})])
        handlers == EmitAll(FoldLeft(One, g, n.hs), <<<<"BUILD_HANDLER", Len(n.hs) % 256>>, <<"PUSH_HANDLER">>>>)
    IN  [Emit(Install(handlers), <<"POP_HANDLER">>) EXCEPT !.handled = Front(@)]

VisitIndex(g, n) ==
    IF InferEnumTypeName(g, n.o) = NoType THEN Emit(Visit(Visit(g, n.o), n.i), <<"INDEX_GET">>)
    ELSE IF n.i.k = "lit" /\ n.i.v[1] = "int" /\ n.i.v[2] \in 0..255
    THEN Emit(Visit(g, n.o), <<"GET_ENUM_ARG", n.i.v[2]>>)
    ELSE Throw(g, "enum index")

VisitUnary(g, n) ==
    CASE n.op = "+" -> Visit(g, n.e)
      [] n.op = "-" -> Emit(Visit(g, n.e), <<"NEGATE">>)
      [] n.op = "not" -> Emit(Visit(g, n.e), <<"NOT">>)
      [] n.op = "*" -> Emit(Visit(g, n.e), <<"DEREF_GET">>)
      [] n.op = "&" -> EmitAddressOf(g, n.e)

VisitGo(g, n) ==
    Emit(VisitAll(Visit(Emit(g, <<"GET_GLOBAL", <<"__task_go">>>>), n.call.f), n.call.args),
         <<"CALL", (Len(n.call.args) + 1) % 256>>)

\* one statement or expression, unless an error was thrown before it
Visit(g, n) ==
    IF g.err # "" THEN g ELSE
    CASE n.k = "none" -> g
      [] n.k \in {"lit", "leaf"} -> Const(g, n.v)
      [] n.k = "id" -> EmitGetVariable(g, <<n.n>>)
      [] n.k = "unary" -> VisitUnary(g, n)
      [] n.k = "binary" -> Emit(Visit(Visit(g, n.l), n.r), <<n.op>>)
      [] n.k = "assign" -> EmitAssignment(g, n)
      [] n.k = "call" -> EmitCall(g, n)
      [] n.k = "member" -> EmitMemberAccess(g, n)
      [] n.k = "index" -> VisitIndex(g, n)
      [] n.k = "array" -> Emit(VisitAll(g, n.es), <<"BUILD_ARRAY", Len(n.es) % 256>>)
      [] n.k = "map" -> Emit(FoldLeft(LAMBDA h, pr : Visit(Visit(h, pr[1]), pr[2]), g, n.ps), <<"BUILD_MAP", Len(n.ps) % 256>>)
      [] n.k = "lambda" -> CompileFunctionBody(g, n.params, <<>>, n.raises, <<>>, <<>>, n.body, FALSE)
      [] n.k = "go" -> VisitGo(g, n)
      [] n.k = "await" -> Emit(Visit(Emit(g, <<"GET_GLOBAL", <<"__task_await">>>>), n.e), <<"CALL", 1>>)
      [] n.k = "comptime" -> EvaluateComptime(g, n.body)
      [] n.k = "handle" -> VisitHandle(g, n)
      [] n.k = "var" -> VisitVarDecl(g, n)
      [] n.k = "block" -> VisitBlock(g, n)
      [] n.k = "if" -> VisitIf(g, n)
      [] n.k = "while" -> VisitWhile(g, n)
      [] n.k = "iter" -> VisitIter(g, n)
      [] n.k = "return" -> VisitReturn(g, n)
      [] n.k = "print" -> Emit(Visit(g, n.e), <<"PRINT">>)
      [] n.k = "unsafe" -> Visit(g, n.b)
      [] n.k = "transaction" -> VisitTransaction(g, n)
      [] n.k = "func" -> VisitFunctionDecl(g, n)
      [] n.k = "struct" -> VisitStructDecl(g, n)
      [] n.k = "actor" -> VisitActorDecl(g, n)
      [] n.k = "enum" -> VisitEnumDecl(g, n)
      [] n.k = "interface" -> VisitInterfaceDecl(g, n)
      [] n.k = "effect" -> VisitEffectDecl(g, n)
      [] n.k = "alias" -> g
      [] n.k = "module" -> [g EXCEPT !.module = n.q]
      [] n.k = "import" -> VisitImportDecl(g, n)
      [] n.k = "export" -> Visit(g, n.d)

\* the functions of a program, its top level last; <<>> when Compile throws
Compile(root) ==
    LET Finish(g) == IF g.err # "" THEN <<>> ELSE TopLevel(g)
    IN  Finish(Emit(Visit(Fresh, root), <<"RETURN">>))

=============================================================================
