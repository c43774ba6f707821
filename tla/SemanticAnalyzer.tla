-------------------------- MODULE SemanticAnalyzer ---------------------------
(***************************************************************************)
(* The static check before code generation (src/ast/sematic).  The         *)
(* analyzer is a record s threaded through the visits:                     *)
(*   scopes    names with type and constness, innermost scope last         *)
(*   selfs     the structs whose methods are being checked                 *)
(*   expected  the expected return type (or type of the declaration)       *)
(*   types, generics, ctors, aliases      registries of declared types     *)
(*   members, exports                     what modules define and export   *)
(*   tparams, handled, raised, resumes, states, txns   active scopes       *)
(*   shared    the shared variables                                        *)
(*   query, unsafe, comptime, function    nesting depths                   *)
(*   last      the type of the expression visited last                     *)
(*   err       the reason of a thrown error, or ""                         *)
(* Type names compare as structure, not as text, so that spaces between    *)
(* type arguments do not matter.                                           *)
(***************************************************************************)
EXTENDS Syntax, Naturals, SequencesExt, TLC

----------------------------------------------------------------------------
(* TypeInfo *)

Simple(k) == [k |-> k]
UnknownT == Simple("Unknown")
AnyT == Simple("Any")
VoidT == Simple("Void")
BoolT == Simple("Bool")
IntT == Simple("Int")
FloatT == Simple("Float")
StringT == Simple("String")
NeverT == Simple("Never")
Of(k, args) == [k |-> k, a |-> args]            \* Array, Map, Channel, Pointer, Ref, Task
Nominal(k, name, fields, methods, interfaces) == \* Struct, Actor, Interface, Effect, Enum, Module
    [k |-> k, name |-> name, fields |-> fields, methods |-> methods, interfaces |-> interfaces]
TypeParameter(n, constraints) == [k |-> "TypeParameter", n |-> n, cs |-> constraints]
EnumConstructor(name, tag, args) == [k |-> "EnumConstructor", name |-> name, tag |-> tag, a |-> args]
Function(params, ret, min, effects, ctx, comptime, variadic) ==
    [k |-> "Function", a |-> params, ret |-> ret, min |-> min, effects |-> effects, ctx |-> ctx,
     comptime |-> comptime, variadic |-> variadic]  \* variadic: <<>> or <<the rest's element type>>

Wrappers == {"Array", "Map", "Channel", "Pointer", "Ref", "Task"}
Nominals == {"Struct", "Actor", "Interface", "Effect", "Enum", "Module"}
EmptyMap == <<>>

RECURSIVE Equals(_, _)
AllEqual(x, y) == Len(x) = Len(y) /\ \A i \in DOMAIN x : Equals(x[i], y[i])
Equals(x, y) ==
    /\ x.k = y.k
    /\ CASE x.k \in Wrappers -> AllEqual(x.a, y.a)
         [] x.k \in Nominals -> x.name = y.name
         [] x.k = "TypeParameter" -> x.n = y.n
         [] x.k = "EnumConstructor" -> x.name = y.name /\ x.tag = y.tag /\ AllEqual(x.a, y.a)
         [] x.k = "Function" ->
                /\ AllEqual(x.variadic, y.variadic) /\ AllEqual(x.a, y.a)
                /\ x.min = y.min /\ x.comptime = y.comptime /\ x.effects = y.effects
                /\ Len(x.ctx) = Len(y.ctx)
                /\ \A i \in DOMAIN x.ctx : x.ctx[i].n = y.ctx[i].n /\ Equals(x.ctx[i].t, y.ctx[i].t)
                /\ Equals(x.ret, y.ret)
         [] OTHER -> TRUE

RECURSIVE Substitute(_, _)
SubstituteAll(types, b) == [i \in DOMAIN types |-> Substitute(types[i], b)]
Substitute(t, b) ==
    CASE t.k = "TypeParameter" -> IF t.n \in DOMAIN b THEN b[t.n] ELSE t
      [] t.k \in Wrappers \cup {"EnumConstructor"} -> [t EXCEPT !.a = SubstituteAll(@, b)]
      [] t.k = "Function" -> [t EXCEPT !.a = SubstituteAll(@, b), !.ret = Substitute(@, b),
                                       !.variadic = SubstituteAll(@, b)]
      [] t.k \in {"Struct", "Actor", "Interface"} ->
            [t EXCEPT !.fields = SubstituteAll(@, b), !.methods = SubstituteAll(@, b)]
      [] OTHER -> t

----------------------------------------------------------------------------
(* The environment *)

Stop(s, why) == IF s.err = "" THEN [s EXCEPT !.err = why] ELSE s
Give(s, t) == [s EXCEPT !.last = t]
Require(s, condition, why) == IF s.err # "" \/ condition THEN s ELSE Stop(s, why)

PushScope(s) == [s EXCEPT !.scopes = Append(@, EmptyMap)]
PopScope(s) == [s EXCEPT !.scopes = Front(@)]
Define(s, name, t, const) ==
    [s EXCEPT !.scopes[Len(s.scopes)] = (name :> [t |-> t, const |-> const]) @@ @]

ScopesWith(s, name) == {i \in DOMAIN s.scopes : name \in DOMAIN s.scopes[i]}
Declared(s, name) == ScopesWith(s, name) # {}
SymbolOf(s, name) ==
    s.scopes[CHOOSE i \in ScopesWith(s, name) : \A j \in (i + 1)..Len(s.scopes) : name \notin DOMAIN s.scopes[j]][name]
IsSelfField(s, name) == s.selfs # <<>> /\ name \in DOMAIN Last(s.selfs).fields

\* a name in scope, else a field of self
Resolve(s, name) ==
    IF Declared(s, name) THEN Give(s, SymbolOf(s, name).t)
    ELSE IF IsSelfField(s, name) THEN Give(s, Last(s.selfs).fields[name])
    ELSE Stop(s, "undefined")

QualifyName(s, d) == IF Len(d) > 1 THEN d ELSE s.module \o d

----------------------------------------------------------------------------
(* Types *)

ImportedName(s, d) ==          \* alias.rest with the alias replaced, or <<>>
    IF Len(d) > 1 /\ Declared(s, d[1]) /\ SymbolOf(s, d[1]).t.k = "Module"
    THEN SymbolOf(s, d[1]).t.name.b \o Tail(d) ELSE <<>>

\* the first of the kinds under which the registry has the first of the names
FirstEntry(registry, keys) == IF keys = <<>> THEN <<>> ELSE <<registry[keys[1]]>>
FirstIn(registry, kinds, names) ==
    FirstEntry(registry,
        SelectSeq([i \in 1..(Len(kinds) * Len(names)) |-> <<kinds[((i - 1) % Len(kinds)) + 1], names[((i - 1) \div Len(kinds)) + 1]>>],
                  LAMBDA k : k \in DOMAIN registry))

Primitives == [int |-> IntT, any |-> AnyT, float |-> FloatT, string |-> StringT, never |-> NeverT,
               bool |-> BoolT, void |-> VoidT]
WrapperNames == "ptr" :> "Pointer" @@ "task" :> "Task" @@ "channel" :> "Channel" @@ "ref" :> "Ref" @@
                "[]" :> "Array" @@ "map" :> "Map"

RECURSIVE SubstituteTypeString(_, _)
SubstituteTypeString(t, b) ==
    IF t.a = <<>> /\ Len(t.b) = 1 /\ t.b[1] \in DOMAIN b THEN b[t.b[1]]
    ELSE [t EXCEPT !.a = [i \in DOMAIN @ |-> SubstituteTypeString(@[i], b)]]

RECURSIVE ResolveTypeName(_, _)
\* a generic struct, enum, interface or actor applied to type arguments: of
\* the first kind that has as many parameters, else any type of that name
Kinds == <<"Struct", "Enum", "Interface", "Actor">>
TakesArguments(g, t) == g # <<>> /\ Len(g[1].tparams) = Len(t.a)
ApplyGeneric(s, g, t) ==
    Substitute(g.type, [n \in {g.tparams[i].n : i \in DOMAIN t.a} |->
                            ResolveTypeName(s, t.a[CHOOSE i \in DOMAIN t.a : g.tparams[i].n = n])])
TypesNamed(s, t, kinds, names) ==
    IF kinds = <<>> THEN FirstIn(s.types, Kinds, names) ELSE <<ApplyGeneric(s, FirstIn(s.generics, <<kinds[1]>>, names)[1], t)>>
Renamed(types, name) == [i \in DOMAIN types |-> [types[i] EXCEPT !.name = name]]
ResolveNominalGeneric(s, t, names) ==
    Renamed(TypesNamed(s, t, SelectSeq(Kinds, LAMBDA kind : TakesArguments(FirstIn(s.generics, <<kind>>, names), t)), names), t)

\* (parameters) -> result
ResolveFunctionType(s, t) ==
    Function([i \in 1..(Len(t.a) - 1) |-> ResolveTypeName(s, t.a[i])],
             ResolveTypeName(s, Last(t.a)), Len(t.a) - 1, {}, <<>>, FALSE, <<>>)

\* a name that no type parameter, import or alias stands for
NamedType(types) == IF types = <<>> THEN UnknownT ELSE types[1]
AppliedType(s, t, generic) ==
    IF generic # <<>> THEN generic[1]
    ELSE IF t.b[1] \in DOMAIN WrapperNames
         THEN Of(WrapperNames[t.b[1]], [i \in DOMAIN t.a |-> ResolveTypeName(s, t.a[i])])
    ELSE IF t.b = <<"fn">> THEN ResolveFunctionType(s, t)
    ELSE UnknownT
ResolvePlainName(s, t, names) ==
    IF t.a # <<>> THEN AppliedType(s, t, ResolveNominalGeneric(s, t, names))
    ELSE IF Len(t.b) = 1 /\ t.b[1] \in DOMAIN Primitives THEN Primitives[t.b[1]]
    ELSE NamedType(FirstIn(s.types, Append(Kinds, "Effect"), names))

\* an alias applied to its type arguments
HasAlias(s, t, generic) ==
    t.b \in DOMAIN s.aliases /\ (t.a # <<>>) = generic /\ (s.aliases[t.b].tparams # <<>>) = generic
ResolveAlias(s, t, alias) ==
    IF Len(alias.tparams) # Len(t.a) THEN UnknownT
    ELSE ResolveTypeName(s, SubstituteTypeString(alias.t,
            [n \in {alias.tparams[i].n : i \in DOMAIN t.a} |-> t.a[CHOOSE i \in DOMAIN t.a : alias.tparams[i].n = n]]))

ResolveName(s, t, imported) ==
    IF imported # <<>> THEN ResolveTypeName(s, [t EXCEPT !.b = imported])
    ELSE IF HasAlias(s, t, TRUE) THEN ResolveAlias(s, t, s.aliases[t.b])
    ELSE ResolvePlainName(s, t, <<t.b, QualifyName(s, t.b)>>)

ResolveTypeName(s, t) ==
    LET scope == {i \in DOMAIN s.tparams : t.a = <<>> /\ Len(t.b) = 1 /\ t.b[1] \in DOMAIN s.tparams[i]}
    IN  IF t = NoType THEN UnknownT
        ELSE IF scope # {} THEN s.tparams[CHOOSE i \in scope : \A j \in scope : j <= i][t.b[1]]
        ELSE IF HasAlias(s, t, FALSE) THEN ResolveTypeName(s, s.aliases[t.b].t)
        ELSE ResolveName(s, t, ImportedName(s, t.b))

ResolveAll(s, types) == [i \in DOMAIN types |-> ResolveTypeName(s, types[i])]

(* IsAssignable: unknown and any fit everywhere, int fits float, functions *)
(* are contravariant in their parameters, and a struct fits an interface   *)
(* it names and whose methods it has.                                      *)
RECURSIVE IsAssignable(_, _, _)
Satisfies(s, t, constraints) == \A i \in DOMAIN constraints : IsAssignable(s, constraints[i], t)
Pairwise(s, xs, ys) == Len(xs) = Len(ys) /\ \A i \in DOMAIN xs : IsAssignable(s, xs[i], ys[i])

FunctionFits(s, e, a) ==
    /\ e.min = a.min /\ e.comptime = a.comptime
    /\ Pairwise(s, e.variadic, a.variadic)
    /\ Len(e.ctx) = Len(a.ctx)
    /\ \A i \in DOMAIN e.ctx : e.ctx[i].n = a.ctx[i].n /\ IsAssignable(s, e.ctx[i].t, a.ctx[i].t)
    /\ a.effects \subseteq e.effects
    /\ Pairwise(s, a.a, e.a)
    /\ IsAssignable(s, e.ret, a.ret)

StructFitsInterface(s, e, a) ==
    /\ \E i \in a.interfaces : i = e.name \/ (i.a # <<>> /\ e.name.a # <<>> /\ i.b = e.name.b)
    /\ \A m \in DOMAIN e.methods : m \in DOMAIN a.methods /\ IsAssignable(s, e.methods[m], a.methods[m])

NamesOfTypes(types) == [i \in DOMAIN types |-> types[i].name]
BaseName(s, d) == NamesOfTypes(FirstIn(s.types, Kinds, <<d, QualifyName(s, d)>>))
SameGeneric(s, x, y) == x.a # <<>> /\ Len(x.a) = Len(y.a) /\ BaseName(s, x.b) = BaseName(s, y.b)

IsAssignable(s, e, a) ==
    \/ {e.k, a.k} \cap {"Unknown", "Any"} # {}
    \/ a.k = "Never"
    \/ Equals(e, a)
    \/ e.k = a.k /\ e.k \in {"Struct", "Enum", "Interface", "Actor"} /\ SameGeneric(s, e.name, a.name)
         /\ Pairwise(s, ResolveAll(s, e.name.a), ResolveAll(s, a.name.a))
    \/ e.k = a.k /\ e.k \in Wrappers /\ Pairwise(s, e.a, a.a)
    \/ e.k = "Float" /\ a.k = "Int"
    \/ e.k = "TypeParameter" /\ Satisfies(s, a, e.cs)
    \/ e.k = "Function" /\ a.k = "Function" /\ FunctionFits(s, e, a)
    \/ e.k = "Interface" /\ a.k = "Struct" /\ StructFitsInterface(s, e, a)

\* Bind: the type parameters an argument settles; [ok, b]
RECURSIVE Bind(_, _, _, _)
BindAll(s, es, as, b) ==
    FoldLeft(LAMBDA r, i : IF r.ok THEN Bind(s, es[i], as[i], r.b) ELSE r, [ok |-> Len(es) = Len(as), b |-> b],
             [i \in 1..(IF Len(es) = Len(as) THEN Len(es) ELSE 0) |-> i])
Bind(s, e, a, b) ==
    IF "Unknown" \in {e.k, a.k} THEN [ok |-> TRUE, b |-> b]
    ELSE IF e.k = "TypeParameter"
         THEN IF ~Satisfies(s, a, e.cs) THEN [ok |-> FALSE, b |-> b]
              ELSE IF e.n \in DOMAIN b THEN [ok |-> Equals(b[e.n], a), b |-> b]
              ELSE [ok |-> TRUE, b |-> (e.n :> a) @@ b]
    ELSE IF e.k = a.k /\ e.k \in Wrappers \ {"Map"} THEN BindAll(s, e.a, a.a, b)
    ELSE IF e.k = "Function" /\ a.k = "Function"
         THEN IF /\ e.min = a.min /\ e.comptime = a.comptime /\ e.effects = a.effects
                 /\ Len(e.ctx) = Len(a.ctx) /\ \A i \in DOMAIN e.ctx : e.ctx[i].n = a.ctx[i].n
              THEN BindAll(s, [i \in DOMAIN e.ctx |-> e.ctx[i].t] \o e.a \o e.variadic \o <<e.ret>>,
                              [i \in DOMAIN a.ctx |-> a.ctx[i].t] \o a.a \o a.variadic \o <<a.ret>>, b)
              ELSE [ok |-> FALSE, b |-> b]
    ELSE [ok |-> IsAssignable(s, e, a), b |-> b]

RECURSIVE IsPrimitiveNumeric(_)
IsPrimitiveNumeric(t) ==
    t.k \in {"Int", "Float"} \/ (t.k = "TypeParameter" /\ \E i \in DOMAIN t.cs : IsPrimitiveNumeric(t.cs[i]))

RECURSIVE IsSendable(_)
IsSendable(t) ==
    CASE t.k \in {"Unknown", "Any", "Void", "Bool", "Int", "Float", "String", "Task", "Channel"} -> TRUE
      [] t.k \in {"Array", "Map"} -> \A i \in DOMAIN t.a : IsSendable(t.a[i])
      [] t.k \in {"Struct", "Actor"} -> \A f \in DOMAIN t.fields : IsSendable(t.fields[f])
      [] OTHER -> FALSE

----------------------------------------------------------------------------
(* Scopes, parameters and signatures *)

\* faulty variant: the names of a closed scope stay visible.
LeaveKeepsNames(s, r) ==
    [r EXCEPT !.selfs = s.selfs, !.expected = s.expected,
              !.tparams = s.tparams, !.handled = s.handled, !.raised = s.raised, !.resumes = s.resumes,
              !.states = s.states, !.txns = s.txns, !.query = s.query, !.unsafe = s.unsafe,
              !.comptime = s.comptime, !.function = s.function]

\* what a scope opened after s leaves behind when it closes: its guards are
\* undone, its declarations of types and modules and its last type stay
Leave(s, r) ==
    [r EXCEPT !.scopes = SubSeq(@, 1, Len(s.scopes)), !.selfs = s.selfs, !.expected = s.expected,
              !.tparams = s.tparams, !.handled = s.handled, !.raised = s.raised, !.resumes = s.resumes,
              !.states = s.states, !.txns = s.txns, !.query = s.query, !.unsafe = s.unsafe,
              !.comptime = s.comptime, !.function = s.function]

OpenTypeParameters(s, tparams) ==
    FoldLeft(LAMBDA r, p : [r EXCEPT !.tparams[Len(r.tparams)] = (p.n :> TypeParameter(p.n, ResolveAll(r, p.cs))) @@ @],
             [s EXCEPT !.tparams = Append(@, EmptyMap)], tparams)

\* defaults are trailing, a variadic parameter is the last one and has no default beside it
ValidateParameterList(params) ==
    LET variadic == {i \in DOMAIN params : params[i].variadic}
        default == {i \in DOMAIN params : params[i].default # Nothing}
    IN  /\ variadic \subseteq {Len(params)}
        /\ variadic # {} => default = {}
        /\ \A i \in default, j \in DOMAIN params : i < j => j \in default

FixedParameters(params) == SelectSeq(params, LAMBDA p : ~p.variadic)
BuildFixedParamTypes(s, params) ==
    LET fixed == FixedParameters(params) IN [i \in DOMAIN fixed |-> ResolveTypeName(s, fixed[i].t)]
BuildVariadicParamType(s, params) ==
    IF \E i \in DOMAIN params : params[i].variadic THEN <<ResolveTypeName(s, Last(params).t)>> ELSE <<>>
RequiredArity(params) == Len(SelectSeq(params, LAMBDA p : ~p.variadic /\ p.default = Nothing))
DeclaredParameterType(s, p) ==
    IF p.variadic THEN Of("Array", <<ResolveTypeName(s, p.t)>>) ELSE ResolveTypeName(s, p.t)

Bindings(s, bs) == [i \in DOMAIN bs |-> [n |-> bs[i].n, t |-> ResolveTypeName(s, bs[i].t)]]
QualifiedEffects(s, raises) == {QualifyName(s, raises[i]) : i \in DOMAIN raises}
Signature(s, f, ctx) ==
    Function(BuildFixedParamTypes(s, f.params), ResolveTypeName(s, f.ret), RequiredArity(f.params),
             QualifiedEffects(s, f.raises), Bindings(s, ctx), FALSE, BuildVariadicParamType(s, f.params))

\* a map from names, the first of equal names winning
NameMap(named, ValueOf(_)) ==
    [n \in {named[i].n : i \in DOMAIN named} |->
        ValueOf(named[CHOOSE i \in DOMAIN named : named[i].n = n /\ \A j \in 1..(i - 1) : named[j].n # n])]

DefineAll(s, bs) == FoldLeft(LAMBDA r, b : Define(r, b.n, b.t, FALSE), s, bs)
DefineParameters(s, params) ==
    DefineAll(s, [i \in DOMAIN params |-> [n |-> params[i].n, t |-> DeclaredParameterType(s, params[i])]])

----------------------------------------------------------------------------
(* Declarations *)

RECURSIVE Visit(_, _)

\* the defaults of parameters are visited where the function is declared
VisitDefaults(s, params) ==
    FoldLeft(LAMBDA r, p : IF p.variadic \/ p.default = Nothing THEN r
                           ELSE LET v == Visit(r, p.default)
                                IN  Require(v, IsAssignable(v, ResolveTypeName(v, p.t), v.last), "default"), s, params)

\* contracts see result and, in a method, self as constants
ValidateContractList(s, contracts, result, selfs) ==
    LET opened == Define(PushScope(s), "result", result, TRUE)
        named == FoldLeft(LAMBDA r, t : Define(r, "self", t, TRUE), opened, selfs)
        Contract(r, c) == LET v == Visit(r, c) IN Require(v, v.last.k \in {"Unknown", "Bool", "Never"}, "contract")
    IN  Leave(s, FoldLeft(Contract, named, contracts))

\* the body of a function or method, its scope being open
VisitBodyReturning(s, f, selfs, ret) ==
    Visit(ValidateContractList(DefineAll(DefineParameters([s EXCEPT !.function = @ + 1, !.expected = ret], f.params), Bindings(s, f.ctx)),
                               f.requires \o f.ensures, ret, selfs), f.body)
VisitBody(s, f, selfs) == VisitBodyReturning(s, f, selfs, ResolveTypeName(s, f.ret))

Register(s, table, kind, d, v) ==
    CASE table = "types" -> [s EXCEPT !.types = (<<kind, d>> :> v) @@ @]
      [] table = "generics" -> [s EXCEPT !.generics = (<<kind, d>> :> v) @@ @]
RegisterConstructor(s, n, ctor) == [s EXCEPT !.ctors = (<<n>> :> ctor) @@ (QualifyName(s, <<n>>) :> ctor) @@ @]
RegisterGeneric(s, kind, d, t) ==
    LET g == [tparams |-> d.tparams, type |-> t]
    IN  Register(Register(s, "generics", kind, <<d.n>>, g), "generics", kind, QualifyName(s, <<d.n>>), g)
QualifiedType(s, n) == [b |-> QualifyName(s, <<n>>), a |-> <<>>]

VisitVarDecl(s, d) ==
    LET Initialised(expected) ==
            IF d.e = Nothing THEN Give(s, UnknownT)
            ELSE [Visit(IF expected.k = "Unknown" THEN s ELSE [s EXCEPT !.expected = expected], d.e) EXCEPT !.expected = s.expected]
        Declare(r, final) ==
            [Define(r, d.n, final, d.const) EXCEPT
                !.shared = IF d.storage = "shared" THEN @ \cup {d.n} ELSE @,
                !.members = IF s.module # <<>> /\ Len(s.scopes) = 1 THEN (<<s.module, d.n>> :> final) @@ @ ELSE @]
        Checked(r, expected) ==
            Declare(Require(r, IsAssignable(r, expected, r.last), "declaration"), IF expected.k = "Unknown" THEN r.last ELSE expected)
        Typed(expected) == Checked(Initialised(expected), expected)
    IN  Typed(ResolveTypeName(s, d.t))

VisitTypeAlias(s, d) ==
    LET alias == [tparams |-> d.tparams, t |-> d.t]
    IN  Give([s EXCEPT !.aliases = (<<d.n>> :> alias) @@ (QualifyName(s, <<d.n>>) :> alias) @@ @], VoidT)

\* a method of a struct: self and its fields are in scope
VisitStructMethod(s, t, m) ==
    LET s1 == Define([PushScope(s) EXCEPT !.selfs = Append(@, t)], "self", t, FALSE)
    IN  Leave(s, VisitBody(s1, m, <<t>>))

CheckStruct(s, d, interfaces) ==
    Require(Require(s, \A i \in DOMAIN d.methods : ValidateParameterList(d.methods[i].params), "parameters"),
            \A i \in DOMAIN interfaces : interfaces[i].k = "Interface", "interface")

\* a struct's type becomes known; the methods of a generic struct are not visited
VisitStructMethods(s, t, d, interfaces) ==
    FoldLeft(LAMBDA x, m : VisitStructMethod(x, t, m),
             Require(s, \A i \in DOMAIN interfaces : IsAssignable(s, interfaces[i], t), "interface"), d.methods)
DeclareStruct(s, r, t, d, interfaces) ==
    IF r.err # "" THEN r
    ELSE IF d.tparams # <<>> THEN Leave(s, Define(RegisterGeneric(r, "Struct", d, t), d.n, t, FALSE))
    ELSE VisitStructMethods(Define(Register(r, "types", "Struct", t.name.b, t), d.n, t, FALSE), t, d, interfaces)
\* with its type parameters open in s1
DefineStruct(s, s1, d, fields, interfaces) ==
    DeclareStruct(s, RegisterConstructor(CheckStruct(s1, d, interfaces), d.n, [params |-> fields, required |-> Len(d.fields)]),
                  Nominal("Struct", QualifiedType(s, d.n), NameMap(fields, LAMBDA f : f.t),
                          NameMap(d.methods, LAMBDA m : Signature(s1, m, IF d.tparams # <<>> THEN m.ctx ELSE <<>>)),
                          {interfaces[i].name : i \in DOMAIN interfaces}), d, interfaces)
OpenStruct(s, s1, d) == DefineStruct(s, s1, d, Bindings(s1, d.fields), ResolveAll(s1, d.implements))
VisitStructDecl(s, d) == Give(OpenStruct(s, IF d.tparams # <<>> THEN OpenTypeParameters(s, d.tparams) ELSE s, d), VoidT)

VisitInterfaceDecl(s, d) ==
    LET generic == d.tparams # <<>>
        Declare(s1, t) == Define(IF generic THEN RegisterGeneric(s1, "Interface", d, t)
                                 ELSE Register(s1, "types", "Interface", t.name.b, t), d.n, t, FALSE)
        Opened(s1) == Declare(Require(s1, \A i \in DOMAIN d.methods : ValidateParameterList(d.methods[i].params), "parameters"),
                              Nominal("Interface", QualifiedType(s, d.n), EmptyMap,
                                      NameMap(d.methods, LAMBDA m : Signature(s1, m, <<>>)), {}))
    IN  Give(Leave(s, Opened(IF generic THEN OpenTypeParameters(s, d.tparams) ELSE s)), VoidT)

\* An operation is also defined as a plain function.
VisitEffectDecl(s, d) ==
    LET Operation(o) == Function(BuildFixedParamTypes(s, o.params), ResolveTypeName(s, o.ret),
                                 Len(FixedParameters(o.params)), {}, <<>>, FALSE, BuildVariadicParamType(s, o.params))
        t == Nominal("Effect", QualifiedType(s, d.n), EmptyMap, NameMap(d.ops, Operation), {})
        s1 == Require(s, \A i \in DOMAIN d.ops : ValidateParameterList(d.ops[i].params), "parameters")
        s2 == DefineAll(s1, [i \in DOMAIN d.ops |-> [n |-> d.ops[i].n, t |-> Operation(d.ops[i])]])
    IN  Give(Define(Register(s2, "types", "Effect", t.name.b, t), d.n, t, FALSE), VoidT)

\* a method of an actor: the state is in scope by name
VisitActorMethod(s, t, m) ==
    LET s1 == DefineAll(PushScope(s), SetToSeq({[n |-> f, t |-> t.fields[f]] : f \in DOMAIN t.fields}))
        s2 == [s1 EXCEPT !.states = Append(@, DOMAIN t.fields), !.raised = Append(@, QualifiedEffects(s, m.raises)),
                         !.query = IF m.query THEN @ + 1 ELSE @]
    IN  Leave(s, VisitBody(s2, m, <<t>>))

\* What crosses an actor's boundary must be sendable, unless the actor is generic.
CheckActor(s, d, fields, types) ==
    LET default == {i \in DOMAIN d.fields : d.fields[i].e # Nothing}
        Sends(f, m) == /\ \A i \in DOMAIN f.a : IsSendable(f.a[i])
                       /\ IF m.query THEN IsSendable(f.ret) ELSE f.ret.k = "Void"
    IN  Require(Require(Require(s,
            \A i \in default, j \in DOMAIN d.fields : i < j => j \in default, "defaults"),
            \A i \in DOMAIN d.methods : ValidateParameterList(d.methods[i].params), "parameters"),
            \/ d.tparams # <<>>
            \/ /\ \A i \in DOMAIN fields : IsSendable(fields[i].t)
               /\ \A i \in DOMAIN d.methods : Sends(types[i], d.methods[i]), "sendable")
DeclareActor(s, r, t, d) ==
    IF r.err # "" THEN r
    ELSE IF d.tparams # <<>> THEN Leave(s, Define(RegisterGeneric(r, "Actor", d, t), d.n, t, FALSE))
    ELSE FoldLeft(LAMBDA x, m : VisitActorMethod(x, t, m), Define(Register(r, "types", "Actor", t.name.b, t), d.n, t, FALSE), d.methods)
\* with its type parameters open in s1
DefineActor(s, s1, d, fields, types) ==
    DeclareActor(s, RegisterConstructor(CheckActor(s1, d, fields, types), d.n,
                        [params |-> fields, required |-> Len(SelectSeq(d.fields, LAMBDA f : f.e = Nothing))]),
                 Nominal("Actor", QualifiedType(s, d.n), NameMap(fields, LAMBDA f : f.t),
                         NameMap([i \in DOMAIN d.methods |-> [n |-> d.methods[i].n, t |-> types[i]]], LAMBDA m : m.t), {}), d)
OpenActor(s, s1, d) ==
    DefineActor(s, s1, d, Bindings(s1, d.fields), [i \in DOMAIN d.methods |-> Signature(s1, d.methods[i], d.methods[i].ctx)])
VisitActorDecl(s, d) == Give(OpenActor(s, IF d.tparams # <<>> THEN OpenTypeParameters(s, d.tparams) ELSE s, d), VoidT)

\* the constructors of a generic enum belong to the enum applied to its own parameters
VisitEnumDecl(s, d) ==
    LET generic == d.tparams # <<>>
        plain == Nominal("Enum", QualifiedType(s, d.n), EmptyMap, EmptyMap, {})
        name == [plain.name EXCEPT !.a = [i \in DOMAIN d.tparams |-> Type(d.tparams[i].n)]]
        s1 == Define(Register(s, "types", "Enum", plain.name.b, plain), d.n, plain, FALSE)
        s2 == IF generic THEN RegisterGeneric(OpenTypeParameters(s1, d.tparams), "Enum", d, [plain EXCEPT !.name = name]) ELSE s1
        Add(r, i) == LET v == d.variants[i]
                         c == EnumConstructor(name, i - 1, ResolveAll(s2, v.args))
                     IN  Define(Register(r, "types", "EnumConstructor", QualifyName(r, <<v.n>>), c), v.n, c, FALSE)
    IN  Give(Leave(s, FoldLeft(Add, s2, [i \in DOMAIN d.variants |-> i])), VoidT)

RecordMember(s, n, t) == IF s.module = <<>> THEN s ELSE [s EXCEPT !.members = (<<s.module, n>> :> t) @@ @]
DeclareFunction(s, f, t) == RecordMember(Define(s, f.n, t, FALSE), f.n, t)
VisitFunctionBody(s, f, t) ==
    VisitBody([PushScope(DeclareFunction(s, f, t)) EXCEPT !.comptime = IF f.comptime THEN @ + 1 ELSE @,
                                                         !.raised = Append(@, t.effects)], f, <<>>)
\* with its type parameters open in s
DefineFunction(s, f) == VisitFunctionBody(s, f, [Signature(s, f, f.ctx) EXCEPT !.comptime = f.comptime])
VisitFunctionDecl(s, f) ==
    Leave(s, DefineFunction(VisitDefaults(Require(OpenTypeParameters(s, f.tparams), ValidateParameterList(f.params), "parameters"), f.params), f))

VisitExportDecl(s, d) ==
    Visit(IF s.module = <<>> THEN s
          ELSE [s EXCEPT !.exports = (s.module :> ({d.d.n} \cup IF s.module \in DOMAIN @ THEN @[s.module] ELSE {})) @@ @], d.d)

----------------------------------------------------------------------------
(* Operators and assignments *)

Logical == {"AND", "OR"}
Comparisons == {"EQUAL", "NOT_EQUAL", "LESS", "GREATER", "LESS_EQUAL", "GREATER_EQUAL"}

\* a type parameter counts as the first numeric type among its constraints
NumericTypeOf(t) ==
    LET numeric == IF t.k = "TypeParameter" THEN SelectSeq(t.cs, LAMBDA c : c.k \in {"Int", "Float"}) ELSE <<>>
    IN  IF numeric = <<>> THEN t ELSE numeric[1]

AnalyzeTypeForBinaryOp(s, op, lhs, rhs) ==
    LET l == NumericTypeOf(lhs)
        r == NumericTypeOf(rhs)
        float == "Float" \in {l.k, r.k}
    IN  IF op \in Logical
        THEN Require(Give(s, BoolT), {lhs.k, rhs.k} \subseteq {"Unknown", "Bool", "Never"}, "logical")
        ELSE IF op \in Comparisons THEN Give(s, BoolT)
        ELSE IF op = "ADD" /\ "String" \in {l.k, r.k} THEN Give(s, StringT)
        ELSE Require(Give(s, IF float THEN FloatT ELSE IntT),
                     IsPrimitiveNumeric(l) /\ IsPrimitiveNumeric(r) /\ ~(float /\ op \in {"DIV", "MOD"}), "arithmetic")

VisitUnary(s, n) ==
    LET v == Visit(s, n.e)
        t == v.last
        Addressed == IF n.e.k # "id" THEN TRUE ELSE Declared(v, n.e.n) /\ ~SymbolOf(v, n.e.n).const
    IN  IF v.err # "" THEN v ELSE
        CASE n.op \in {"+", "-"} -> Require(v, t.k = "Unknown" \/ IsPrimitiveNumeric(t), "arithmetic")
          [] n.op = "not" -> Require(Give(v, BoolT), t.k \in {"Unknown", "Bool"}, "logical")
          [] n.op = "*" -> IF t.k = "Ref" \/ (t.k = "Pointer" /\ s.unsafe > 0) THEN Give(v, t.a[1]) ELSE Stop(v, "unsafe")
          [] n.op = "&" -> Require(Give(v, Of("Pointer", <<t>>)), s.unsafe > 0 /\ Addressed, "unsafe")

HasActiveTransaction(s, name) == \E i \in DOMAIN s.txns : name \in s.txns[i]
IsCurrentActorState(s, name) == \E i \in DOMAIN s.states : name \in s.states[i]

(* The assignment of an element changes the element type of the container  *)
(* for what follows in this scope, and asks for neither a transaction, a   *)
(* message method nor a variable.  (The element type is a shared pointer   *)
(* in the code: copies of the container's type change with it.)            *)
AssignElement(s, n, t) ==
    LET i == Visit(s, n.i)
        v == s.last
        Known(x) == x.k # "Unknown"
    IN CASE t.k = "Map" -> Require(Give(i, v), IsAssignable(i, t.a[1], i.last) /\ IsAssignable(i, t.a[2], v), "map")
         [] t.k = "Array" -> Require(Give(IF Known(v) THEN Define(i, n.n, Of("Array", <<v>>), SymbolOf(s, n.n).const) ELSE i, v),
                                     Known(i.last) => IsPrimitiveNumeric(i.last), "index")
         [] t.k = "Unknown" -> Require(Give(i, v), Known(i.last) => IsPrimitiveNumeric(i.last), "index")
         [] OTHER -> Stop(i, "index")

AnalyzeAssignment(s, n) ==
    LET v == Visit(s, n.e)
        t == SymbolOf(s, n.n).t
        field == Last(s.selfs).fields[n.n]
    IN  IF v.err # "" THEN v
        ELSE IF ~Declared(s, n.n)
        THEN IF IsSelfField(s, n.n) /\ n.to = "name"
             THEN Require(Give(v, field), IsAssignable(v, field, v.last), "assignment") ELSE Stop(v, "undefined")
        ELSE IF n.to = "index" THEN AssignElement(v, n, t)
        ELSE IF n.n \in s.shared /\ ~HasActiveTransaction(s, n.n) THEN Stop(v, "transaction")
        ELSE IF s.query > 0 /\ IsCurrentActorState(s, n.n) THEN Stop(v, "query")
        ELSE IF SymbolOf(s, n.n).const THEN Stop(v, "const")
        ELSE Require(Give(v, IF t.k = "Unknown" THEN v.last ELSE t), IsAssignable(v, t, v.last), "assignment")

VisitAssignment(s, n) ==
    LET o == Visit(s, n.o)
        v == Visit(o, n.e)
        field == o.last.fields[n.m]
    IN CASE n.to = "member" ->
                IF o.err # "" THEN o
                ELSE IF o.last.k # "Struct" THEN Stop(o, "member")
                ELSE IF n.m \notin DOMAIN o.last.fields THEN Stop(o, "member")
                ELSE Require(Give(v, field), \/ v.last.k = "Unknown" \/ Equals(field, v.last)
                                             \/ field.k = "Float" /\ v.last.k = "Int", "assignment")
         [] n.to = "deref" ->
                IF o.err # "" THEN o
                ELSE IF ~(o.last.k = "Ref" \/ (o.last.k = "Pointer" /\ s.unsafe > 0)) THEN Stop(o, "unsafe")
                ELSE Require(Give(v, o.last.a[1]), IsAssignable(v, o.last.a[1], v.last), "assignment")
         [] OTHER -> AnalyzeAssignment(s, n)

----------------------------------------------------------------------------
(* Effects *)

EffectsWith(s, effects, op) == {e \in effects : <<"Effect", e>> \in DOMAIN s.types /\ op \in DOMAIN s.types[<<"Effect", e>>].methods}
ResolveAccessibleEffectsForOperation(s, op) ==
    EffectsWith(s, UNION ({s.raised[i] : i \in DOMAIN s.raised} \cup {s.handled[i] : i \in DOMAIN s.handled}), op)
\* of the effects in force, else of all
HandlerEffects(s, op) ==
    LET active == ResolveAccessibleEffectsForOperation(s, op)
    IN  IF active # {} THEN active ELSE EffectsWith(s, {k[2] : k \in DOMAIN s.types}, op)

\* the calls of resume that stand in a handler's body, however often they run
RECURSIVE CountResumeCalls(_)
CountResumeCalls(n) ==
    LET CountAll(ns) == FoldLeft(LAMBDA c, x : c + CountResumeCalls(x), 0, ns)
    IN CASE n.k = "call" -> IF n.f.k = "id" /\ n.f.n = "resume" THEN 1 ELSE CountAll(<<n.f>> \o n.args)
         [] n.k = "block" -> CountAll(n.ss)
         [] n.k = "if" -> CountAll(<<n.c, n.a, n.b>>)
         [] n.k = "while" -> CountAll(<<n.c, n.b>>)
         [] n.k \in {"return", "print", "unary"} -> CountResumeCalls(n.e)
         [] n.k = "binary" -> CountAll(<<n.l, n.r>>)
         [] n.k = "assign" -> CountAll(<<n.e>> \o (IF n.to = "index" THEN <<n.i>> ELSE <<>>)
                                              \o (IF n.to \in {"member", "deref"} THEN <<n.o>> ELSE <<>>))
         [] n.k = "member" -> CountResumeCalls(n.o)
         [] n.k = "index" -> CountAll(<<n.o, n.i>>)
         [] n.k = "array" -> CountAll(n.es)
         [] n.k = "unsafe" -> CountResumeCalls(n.b)
         [] OTHER -> 0

VisitHandler(s, h) ==
    LET effects == HandlerEffects(s, h.op)
        op == s.types[<<"Effect", CHOOSE e \in effects : TRUE>>].methods[h.op]
        fixed == FixedParameters(h.params)
        fits == /\ Len(fixed) = Len(op.a)
                /\ (op.variadic # <<>>) = (\E i \in DOMAIN h.params : h.params[i].variadic)
        params == [i \in DOMAIN h.params |->
                      [n |-> h.params[i].n, t |-> IF h.params[i].variadic THEN Of("Array", op.variadic) ELSE op.a[i]]]
        s1 == DefineAll([PushScope(s) EXCEPT !.resumes = Append(@, op.ret)], params)
    IN  IF s.err # "" THEN s
        ELSE IF Cardinality(effects) # 1 THEN Stop(s, "effect")
        ELSE IF ~fits THEN Stop(s, "handler")
        ELSE IF CountResumeCalls(h.body) # 1 THEN Stop(s, "resume")
        ELSE Leave(s, Visit(s1, h.body))

\* The type of the whole is what the last handler's body leaves as the last type.
VisitHandle(s, n) ==
    LET effects == [i \in DOMAIN n.hs |-> HandlerEffects(s, n.hs[i].op)]
        Handled(i) == IF effects[i] = {} THEN QualifyName(s, <<n.hs[i].op>>) ELSE CHOOSE e \in effects[i] : TRUE
        s1 == Require(s, \A i \in DOMAIN n.hs : ValidateParameterList(n.hs[i].params) /\ Cardinality(effects[i]) <= 1, "effect")
        s2 == Visit([Give(s1, VoidT) EXCEPT !.handled = Append(@, {Handled(i) : i \in DOMAIN n.hs})], n.e)
    IN  IF s.comptime > 0 THEN Stop(s, "comptime") ELSE Leave(s, FoldLeft(VisitHandler, s2, n.hs))

----------------------------------------------------------------------------
(* Calls *)

Accepts(s, expected, actual) == actual.k = "Unknown" \/ IsAssignable(s, expected, actual)

\* an argument for a ref parameter: a variable, member or element, not a constant
ValidateRefArgument(s, ref, arg) ==
    LET Fits(v) == Require(v, IsAssignable(v, ref.a[1], v.last), "ref")
    IN  IF arg.k \notin {"id", "member", "index"} THEN Stop(s, "ref")
        ELSE IF arg.k = "id" /\ ~Declared(s, arg.n) THEN Stop(s, "undefined")
        ELSE IF arg.k = "id" /\ SymbolOf(s, arg.n).const THEN Stop(s, "const")
        ELSE Fits(IF arg.k = "id" THEN Resolve(s, arg.n) ELSE Visit(s, arg))

\* An argument that was visited settles type parameters; a constructor of a
\* struct passes over a failed binding.
FitArgument(of, param, v, bound) ==
    [s |-> Require(v, /\ of # "struct" /\ v.last.k # "Unknown" => bound.ok
                      /\ Accepts(v, Substitute(param, bound.b), v.last), "argument"),
     b |-> bound.b]
BindArgument(of, param, v, b) ==
    IF v.err # "" THEN [s |-> v, b |-> b] ELSE FitArgument(of, param, v, Bind(v, param, v.last, b))

\* visits the arguments of a call and binds type parameters along: [s, b];
\* only a function takes refs
VisitArguments(s, of, params, args, bindings) ==
    FoldLeft(LAMBDA r, i : IF r.s.err # "" THEN r
                           ELSE IF of = "function" /\ params[i].k = "Ref"
                           THEN [r EXCEPT !.s = ValidateRefArgument(@, params[i], args[i])]
                           ELSE BindArgument(of, params[i], Visit(r.s, args[i]), r.b),
             [s |-> s, b |-> bindings], [i \in DOMAIN args |-> i])

\* the text of a type as a type argument
RECURSIVE TypeName(_)
TypeName(t) ==
    CASE t.k \in {"Any", "Int", "Float", "String", "Bool", "Void", "Never"} ->
            Type(CHOOSE n \in DOMAIN Primitives : Primitives[n] = t)
      [] t.k \in {"Array", "Channel", "Pointer", "Ref"} ->
            Generic(CHOOSE n \in DOMAIN WrapperNames : WrapperNames[n] = t.k, <<TypeName(t.a[1])>>)
      [] t.k \in Nominals -> t.name
      [] t.k = "TypeParameter" -> Type(t.n)
      [] OTHER -> Type("any")

\* the struct a constructor makes: of a generic one, with the type arguments found
ConstructedType(t, b, g) ==
    IF b = EmptyMap THEN t
    ELSE [Substitute(t, b) EXCEPT !.name.a =
            IF g = <<>> THEN @
            ELSE [i \in DOMAIN g[1].tparams |-> TypeName(IF g[1].tparams[i].n \in DOMAIN b THEN b[g[1].tparams[i].n] ELSE UnknownT)]]

AnalyzeStructConstructorCall(s, t, args) ==
    LET names == <<t.name.b, QualifyName(s, t.name.b)>>
        known == SelectSeq(names, LAMBDA d : d \in DOMAIN s.ctors)
        ctor == s.ctors[known[1]]
        Answer(r) == Give(r.s, ConstructedType(t, r.b, IF t.name.a = <<>> THEN FirstIn(s.generics, <<"Struct">>, names) ELSE <<>>))
    IN  IF known = <<>> THEN Stop(s, "constructor")
        ELSE IF Len(args) \notin ctor.required..Len(ctor.params) THEN Stop(s, "arity")
        ELSE Answer(VisitArguments(s, "struct", [i \in DOMAIN ctor.params |-> ctor.params[i].t], args, EmptyMap))

\* an expected type of the same generic enum binds its parameters first
GuidedBindings(s, t, e, g) ==
    IF /\ t.name.a # <<>> /\ e.k = "Enum"
       /\ e.name.b = t.name.b /\ Len(e.name.a) = Len(t.name.a)
       /\ g # <<>> /\ Len(g[1].tparams) = Len(e.name.a)
    THEN [n \in {g[1].tparams[i].n : i \in DOMAIN g[1].tparams} |->
              ResolveTypeName(s, e.name.a[CHOOSE i \in DOMAIN g[1].tparams : g[1].tparams[i].n = n])]
    ELSE EmptyMap

AnalyzeEnumConstructorCall(s, t, args) ==
    LET Named(b) == {p \in DOMAIN b : b[p].k \in {"Int", "Float", "String", "Bool", "TypeParameter"} \cup Nominals}
        Answer(r) == Give(r.s, ResolveTypeName(r.s, SubstituteTypeString(t.name, [p \in Named(r.b) |-> TypeName(r.b[p])])))
    IN  IF Len(args) # Len(t.a) THEN Stop(s, "arity")
        ELSE Answer(VisitArguments(s, "enum", t.a, args,
                 GuidedBindings(s, t, s.expected, FirstIn(s.generics, <<"Enum">>, <<t.name.b, QualifyName(s, t.name.b)>>))))

ValidateContextRequirements(s, f) ==
    FoldLeft(LAMBDA r, c : LET v == Resolve(r, c.n)
                           IN  Require(v, v.last.k # "Unknown" /\ IsAssignable(v, c.t, v.last), "context"), s, f.ctx)

ApplyFunction(s, f, args) ==
    LET params == [i \in DOMAIN args |-> IF i \in DOMAIN f.a THEN f.a[i] ELSE f.variadic[1]]
        Answer(r) == Give(r.s, Substitute(f.ret, r.b))
    IN  IF s.err # "" THEN s
        ELSE IF Len(args) < f.min \/ (f.variadic = <<>> /\ Len(args) > Len(f.a)) THEN Stop(s, "arity")
        ELSE Answer(VisitArguments(s, "function", params, args, EmptyMap))
AnalyzeFunctionCall(s, f, args) == ApplyFunction(ValidateContextRequirements(s, f), f, args)

SpawnModules == {<<"std", "task">>, <<"std", "concurrent", "waitgroup">>, <<"std", "concurrent", "errorgroup">>}
Sendable(s, n) == LET v == Visit(s, n) IN Require(v, IsSendable(v.last), "sendable")
SendableReceiver(s, callee) ==
    LET v == Visit(s, callee.o)
    IN  IF callee.k # "member" THEN s ELSE Require(v, v.last.k = "Module" \/ IsSendable(v.last), "sendable")

\* spawn of a named function, in a task or for a group
AnalyzeSpawn(s, module, args) ==
    LET at == IF module = <<"std", "task">> THEN 1 ELSE 2
        c == Visit(s, args[at])
        s1 == FoldLeft(Sendable, SendableReceiver(c, args[at]), SubSeq(args, at + 1, Len(args)))
        task == at = 1
    IN  IF Len(args) < at THEN Stop(s, "arity")
        ELSE IF args[at].k \notin {"id", "member"} THEN Stop(s, "spawn")
        ELSE IF c.last.k # "Function" THEN Give(s1, Of("Task", <<IF task THEN AnyT ELSE VoidT>>))
        ELSE Require(Give(s1, Of("Task", <<c.last.ret>>)), task \/ c.last.ret.k = "Void", "spawn")

\* calls of the standard modules that are typed by hand: the state after one, or <<>>
AnalyzeModuleCall(s, module, member, args) ==
    LET s1 == Visit(s, args[1])
        One(answer) == IF Len(args) # 1 THEN <<Stop(s, "arity")>> ELSE answer
    IN CASE module = <<"std", "channel">> /\ member = "make" ->
                One(<<Give(s1, IF s.expected.k = "Channel" THEN s.expected ELSE Of("Channel", <<AnyT>>))>>)
         [] <<module, member>> \in {<<<<"std", "channel">>, "recv">>, <<<<"std", "task">>, "join_result">>} ->
                One(IF s.expected.k = "Enum" THEN <<Give(s1, s.expected)>> ELSE <<>>)
         [] member = "spawn" /\ module \in SpawnModules -> <<AnalyzeSpawn(s, module, args)>>
         [] module = <<"std", "memory">> /\ member \in {"alloc", "free"} /\ s.unsafe = 0 -> <<Stop(s, "unsafe")>>
         [] OTHER -> <<>>

AnalyzeResume(s, args) ==
    LET v == Visit(s, args[1])
    IN  IF s.resumes = <<>> \/ Len(args) # 1 THEN Stop(s, "resume")
        ELSE Require(Give(v, Last(s.resumes)), IsAssignable(v, Last(s.resumes), v.last), "resume")

\* the call of a callee that was visited, of type t
AnalyzeCallee(c, t, args) ==
    IF c.err # "" THEN c ELSE
    CASE t.k = "Unknown" -> Give(FoldLeft(Visit, c, args), UnknownT)
      [] t.k = "Struct" -> AnalyzeStructConstructorCall(c, t, args)
      [] t.k = "Actor" -> Give(AnalyzeStructConstructorCall(c, t, args), t)
      [] t.k = "EnumConstructor" -> AnalyzeEnumConstructorCall(c, t, args)
      [] t.k = "Function" -> IF (c.comptime > 0) = t.comptime THEN AnalyzeFunctionCall(c, t, args) ELSE Stop(c, "comptime")
      [] OTHER -> Stop(c, "callee")

\* a call of a module's member that is typed by hand: the state after it, or <<>>
AnalyzeMemberCall(o, n) ==
    IF o.err # "" THEN <<o>>
    ELSE IF o.last.k # "Module" THEN <<>>
    ELSE AnalyzeModuleCall(o, o.last.name.b, n.f.m, n.args)

\* a call by name of resume or of an operation of the effects in force
AnalyzeNamedCall(s, n) ==
    LET effects == ResolveAccessibleEffectsForOperation(s, n.f.n)
        operation == s.types[<<"Effect", CHOOSE e \in effects : TRUE>>].methods[n.f.n]
    IN  IF n.f.n = "resume" THEN <<AnalyzeResume(s, n.args)>>
        ELSE IF effects = {} THEN <<>>
        ELSE IF s.comptime > 0 THEN <<Stop(s, "comptime")>>
        ELSE IF Cardinality(effects) > 1 THEN <<Stop(s, "effect")>>
        ELSE <<AnalyzeFunctionCall(s, operation, n.args)>>

AnalyzeCallUnless(done, c, n) == IF done # <<>> THEN done[1] ELSE AnalyzeCallee(c, c.last, n.args)
AnalyzeCall(s, n) ==
    AnalyzeCallUnless(IF n.f.k = "member" THEN AnalyzeMemberCall(Visit(s, n.f.o), n)
                      ELSE IF n.f.k = "id" THEN AnalyzeNamedCall(s, n) ELSE <<>>, Visit(s, n.f), n)

----------------------------------------------------------------------------
(* Other expressions and statements *)

IsModuleMemberExported(s, module, member) == module \in DOMAIN s.exports => member \in s.exports[module]
VisitModuleMember(s, module, member) ==
    LET d == Append(module, member)
        declared == FirstIn(s.types, <<"Actor", "Effect", "Struct", "EnumConstructor", "Enum", "Interface">>, <<d>>)
        defined == <<module, member>> \in DOMAIN s.members \/ declared # <<>>
    IN  IF ~defined THEN Give(s, UnknownT)
        ELSE IF ~IsModuleMemberExported(s, module, member) THEN Stop(s, "export")
        ELSE IF <<module, member>> \in DOMAIN s.members THEN Give(s, s.members[<<module, member>>])
        ELSE Require(Give(s, declared[1]), declared[1].k \in {"Actor", "Effect", "Struct", "EnumConstructor"}, "export")

VisitMemberAccess(s, n) ==
    LET o == Visit(s, n.o)
        t == o.last
    IN  IF o.err # "" THEN o ELSE
        CASE t.k = "Module" -> VisitModuleMember(o, t.name.b, n.m)
          [] t.k = "Struct" -> IF n.m \in DOMAIN t.fields THEN Give(o, t.fields[n.m])
                               ELSE IF n.m \in DOMAIN t.methods THEN Give(o, t.methods[n.m]) ELSE Stop(o, "member")
          [] t.k \in {"Actor", "Interface"} -> IF n.m \in DOMAIN t.methods THEN Give(o, t.methods[n.m]) ELSE Stop(o, "member")
          [] t.k = "Enum" /\ n.m = "tag" -> Give(o, IntT)
          [] OTHER -> Stop(o, "member")

VisitGo(s, n) ==
    LET v == Visit(s, n.call)
    IN  IF n.call.k # "call" THEN Stop(s, "go")
        ELSE IF n.call.f.k \notin {"id", "member"} THEN Stop(s, "go")
        ELSE Give(FoldLeft(Sendable, SendableReceiver(v, n.call.f), n.call.args), Of("Task", <<v.last>>))

VisitAwait(s, n) ==
    LET v == Visit(s, n.e) IN IF v.last.k = "Task" THEN Give(v, v.last.a[1]) ELSE Stop(v, "await")

\* The return values are visited again outside of the block that declares their names.
InferFunctionBodyReturnType(s, body) ==
    LET returns == SelectSeq(body.ss, LAMBDA x : x.k = "return" /\ x.e # Nothing)
        One(r, x) == LET v == Visit(r.s, x.e)
                     IN  IF r.done THEN r
                         ELSE IF r.t.k = "Unknown" THEN [r EXCEPT !.s = v, !.t = v.last]
                         ELSE [s |-> v, t |-> IF Equals(r.t, v.last) THEN r.t ELSE UnknownT, done |-> ~Equals(r.t, v.last)]
        r == FoldLeft(One, [s |-> s, t |-> UnknownT, done |-> FALSE], returns)
    IN  Give(r.s, r.t)

VisitFunctionExpr(s, f) ==
    LET Open(s1, t) == [PushScope(s1) EXCEPT !.function = @ + 1, !.raised = Append(@, t.effects), !.expected = t.ret]
        Answer(r, t) == IF t.ret.k # "Unknown" THEN Give(r, t.ret)
                        ELSE IF f.body.k = "block" THEN InferFunctionBodyReturnType(r, f.body) ELSE Visit(r, f.body)
        Close(r, t) == Give(Leave(s, r), [t EXCEPT !.ret = r.last])
        Typed(s1, t) == Close(Answer(Visit(DefineParameters(Open(s1, t), f.params), f.body), t), t)
        Opened(s1) == Typed(s1, Signature(s1, f, <<>>))
    IN  Opened(VisitDefaults(Require(s, ValidateParameterList(f.params), "parameters"), f.params))

VisitReturn(s, n) ==
    LET v == IF n.e = Nothing THEN Give(s, VoidT) ELSE Visit(s, n.e)
    IN  IF s.function = 0 /\ s.comptime = 0 THEN Stop(s, "return")
        ELSE Require(Give(v, NeverT), IsAssignable(v, s.expected, v.last), "return type")

RejectRuntimeOnlyInComptime(s) == Require(s, s.comptime = 0, "comptime")
VisitTransaction(s, n) ==
    LET s1 == Require(RejectRuntimeOnlyInComptime(s), n.regions # <<>>, "region")
        s2 == Require(s1, \A i \in DOMAIN n.regions : Declared(s, n.regions[i].n) /\ (n.regions[i].shared => n.regions[i].n \in s.shared), "region")
        names == {n.regions[i].n : i \in DOMAIN n.regions}
    IN  Give(Leave(s, Visit([s2 EXCEPT !.txns = Append(@, names)], n.b)), VoidT)

VisitArrayLiteral(s, n) ==
    LET One(r, e) == LET v == Visit(r.s, e)
                         t == v.last
                     IN  [s |-> v, t |-> IF r.t.k = "Unknown" THEN t
                                         ELSE IF t.k \in {"Unknown", r.t.k} THEN r.t ELSE UnknownT]
        r == FoldLeft(One, [s |-> s, t |-> UnknownT], n.es)
    IN  Give(r.s, Of("Array", <<r.t>>))

VisitMapLiteral(s, n) ==
    LET k == ResolveTypeName(s, n.kt)
        v == ResolveTypeName(s, n.vt)
        Part(r, t, e) == LET x == Visit(r, e) IN Require(x, Accepts(x, t, x.last), "map")
        s1 == Require(s, k.k \in {"String", "Int", "Bool", "TypeParameter", "Unknown"}, "map")
    IN  Give(FoldLeft(LAMBDA r, pair : Part(Part(r, k, pair[1]), v, pair[2]), s1, n.ps), Of("Map", <<k, v>>))

VisitIndex(s, n) ==
    LET c == Visit(s, n.o)
        i == Visit(c, n.i)
        t == c.last
        numeric == i.last.k = "Unknown" \/ IsPrimitiveNumeric(i.last)
    IN  IF i.err # "" THEN i ELSE
        CASE t.k = "Enum" -> Require(Give(i, UnknownT), i.last.k \in {"Unknown", "Int"}, "index")
          [] t.k = "Map" -> Require(Give(i, t.a[2]), IsAssignable(i, t.a[1], i.last), "map")
          [] t.k = "Array" -> Require(Give(i, t.a[1]), numeric, "index")
          [] t.k = "Unknown" -> Require(Give(i, UnknownT), numeric, "index")
          [] OTHER -> Stop(i, "index")

\* the element type of an iteration after an adapter: [s, t]
Adapt(r, a) ==
    LET v == Visit(r.s, a.e)
        f == v.last
        unary == f.k = "Function" /\ Len(f.a) = 1
        takes == {r.t.k, f.a[1].k} \cap {"Unknown"} # {} \/ Equals(f.a[1], r.t)
    IN CASE a.op = "ITER_REVERSE" -> r
         [] a.op \in {"ITER_TAKE", "ITER_DROP"} -> [r EXCEPT !.s = Require(v, f.k \in {"Unknown", "Int"}, "adapter")]
         [] f.k = "Unknown" -> [r EXCEPT !.s = v]
         [] OTHER -> IF unary THEN [s |-> Require(v, takes /\ (a.op = "ITER_FILTER" => f.ret.k \in {"Bool", "Unknown"}), "adapter"),
                                    t |-> IF a.op = "ITER_TRANSFORM" THEN f.ret ELSE r.t]
                     ELSE [r EXCEPT !.s = Stop(v, "adapter")]

\* The variable of an iteration is defined in the scope around it.
VisitIter(s, n) ==
    LET c == Visit(s, n.e)
        r == FoldLeft(Adapt, [s |-> c, t |-> IF c.last.k = "Array" THEN c.last.a[1] ELSE UnknownT], n.adapters)
    IN  IF c.err # "" THEN c
        ELSE IF c.last.k \notin {"Array", "Unknown"} THEN Stop(c, "iterable")
        ELSE Give(Visit(Define(r.s, n.n, r.t, FALSE), n.b), VoidT)

LiteralType(v) == CASE v[1] = "int" -> IntT [] v[1] = "dbl" -> FloatT [] v[1] = "str" -> StringT
                    [] v[1] = "bool" -> BoolT [] v[1] = "null" -> VoidT

\* one node, unless an error was thrown before it
Visit(s, n) ==
    IF s.err # "" THEN s ELSE
    CASE n.k = "none" -> s
      [] n.k \in {"lit", "leaf"} -> Give(s, LiteralType(n.v))
      [] n.k = "id" -> Resolve(s, n.n)
      [] n.k = "unary" -> VisitUnary(s, n)
      [] n.k = "binary" -> LET l == Visit(s, n.l) r == Visit(l, n.r)
                           IN  IF r.err # "" THEN r ELSE AnalyzeTypeForBinaryOp(r, n.op, l.last, r.last)
      [] n.k = "assign" -> VisitAssignment(s, n)
      [] n.k = "call" -> AnalyzeCall(s, n)
      [] n.k = "member" -> VisitMemberAccess(s, n)
      [] n.k = "index" -> VisitIndex(s, n)
      [] n.k = "array" -> VisitArrayLiteral(s, n)
      [] n.k = "map" -> VisitMapLiteral(s, n)
      [] n.k = "lambda" -> VisitFunctionExpr(s, n)
      [] n.k = "go" -> VisitGo(s, n)
      [] n.k = "await" -> VisitAwait(s, n)
      [] n.k = "comptime" -> Leave(s, Visit([s EXCEPT !.comptime = @ + 1], n.body))
      [] n.k = "handle" -> VisitHandle(s, n)
      [] n.k = "var" -> VisitVarDecl(s, n)
      [] n.k = "block" -> Leave(s, FoldLeft(Visit, PushScope(s), n.ss))
      [] n.k \in {"if", "while"} -> Give(FoldLeft(Visit, s, IF n.k = "if" THEN <<n.c, n.a, n.b>> ELSE <<n.c, n.b>>), VoidT)
      [] n.k = "iter" -> VisitIter(s, n)
      [] n.k = "return" -> VisitReturn(s, n)
      [] n.k = "print" -> Give(Visit(RejectRuntimeOnlyInComptime(s), n.e), VoidT)
      [] n.k = "unsafe" -> Give(Leave(s, Visit([RejectRuntimeOnlyInComptime(s) EXCEPT !.unsafe = @ + 1], n.b)), VoidT)
      [] n.k = "transaction" -> VisitTransaction(s, n)
      [] n.k = "func" -> VisitFunctionDecl(s, n)
      [] n.k = "struct" -> VisitStructDecl(s, n)
      [] n.k = "actor" -> VisitActorDecl(s, n)
      [] n.k = "enum" -> VisitEnumDecl(s, n)
      [] n.k = "interface" -> VisitInterfaceDecl(s, n)
      [] n.k = "effect" -> VisitEffectDecl(s, n)
      [] n.k = "alias" -> VisitTypeAlias(s, n)
      [] n.k = "module" -> Give([s EXCEPT !.module = n.q], VoidT)
      [] n.k = "import" -> Give(Define(s, n.alias, Nominal("Module", [b |-> n.q, a |-> <<>>], EmptyMap, EmptyMap, {}), FALSE), VoidT)
      [] n.k = "export" -> VisitExportDecl(s, n)

----------------------------------------------------------------------------
(* The analysis of a program *)

\* the opaque types of native modules and the two generic enums the runtime makes
BuiltinStructs == {<<"std", "context", "Context">>, <<"std", "sync", "Thread">>, <<"std", "sync", "Mutex">>}
BuiltinTypes == [k \in {"Struct"} \X BuiltinStructs |-> Nominal("Struct", [b |-> k[2], a |-> <<>>], EmptyMap, EmptyMap, {})]
BuiltinEnum(name, tparams) ==
    <<"Enum", name>> :> [tparams |-> [i \in DOMAIN tparams |-> TypeParam(tparams[i], <<>>)],
                         type |-> Nominal("Enum", [b |-> name, a |-> <<>>], EmptyMap, EmptyMap, {})]
BuiltinGenerics == BuiltinEnum(<<"std", "option", "Option">>, <<"T">>) @@ BuiltinEnum(<<"std", "result", "Result">>, <<"T", "E">>)

\* native functions: of the registry, the ones programs of the models call
Memory == <<"std", "memory">>
NativeFunctions ==
    <<Memory, "alloc">> :> Function(<<IntT>>, Of("Pointer", <<AnyT>>), 1, {}, <<>>, FALSE, <<>>) @@
    <<Memory, "free">> :> Function(<<AnyT>>, VoidT, 1, {}, <<>>, FALSE, <<>>)

NewAnalyzer ==
    [scopes |-> <<EmptyMap>>, selfs |-> <<>>, expected |-> UnknownT, types |-> BuiltinTypes, generics |-> BuiltinGenerics,
     ctors |-> EmptyMap, aliases |-> EmptyMap, members |-> NativeFunctions, exports |-> Memory :> {"alloc", "free"},
     module |-> <<>>, tparams |-> <<>>, handled |-> <<>>, raised |-> <<>>, resumes |-> <<>>, states |-> <<>>,
     txns |-> <<>>, shared |-> {}, query |-> 0, unsafe |-> 0, comptime |-> 0, function |-> 0, last |-> UnknownT, err |-> ""]

\* the reason of the error Analyze throws, or ""
Analyze(root) == Visit(NewAnalyzer, root).err

=============================================================================
