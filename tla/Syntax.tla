------------------------------- MODULE Syntax --------------------------------
(***************************************************************************)
(* Aura programs as the compiler's passes see them: the nodes of src/ast   *)
(* that the semantic analyzer and the bytecode generator visit.  A node is *)
(* a record whose field k names its class.  A dotted name is a sequence of *)
(* identifiers, a type [b, a] a dotted name with type arguments.           *)
(***************************************************************************)
EXTENDS Sequences

Nothing == [k |-> "none"]     \* a null node pointer

NoType == [b |-> <<>>, a |-> <<>>]
Type(n) == [b |-> <<n>>, a |-> <<>>]
Generic(n, args) == [b |-> <<n>>, a |-> args]
AutoType == Type("auto")
ArrayType(t) == Generic("[]", <<t>>)
FnType(params, ret) == Generic("fn", Append(params, ret))

\* expressions
Lit(v) == [k |-> "lit", v |-> v]              \* IntegerLiteral, FloatLiteral, StringLiteral
Leaf(v) == [k |-> "leaf", v |-> v]            \* true, false, null
Id(n) == [k |-> "id", n |-> n, a |-> <<>>]
IdOf(n, args) == [k |-> "id", n |-> n, a |-> args]
Unary(op, e) == [k |-> "unary", op |-> op, e |-> e]
BinaryExpr(op, l, r) == [k |-> "binary", op |-> op, l |-> l, r |-> r]
Call(f, args) == [k |-> "call", f |-> f, args |-> args]
Member(o, m) == [k |-> "member", o |-> o, m |-> m]
Index(o, i) == [k |-> "index", o |-> o, i |-> i]
ArrayLit(es) == [k |-> "array", es |-> es]
MapLit(kt, vt, ps) == [k |-> "map", kt |-> kt, vt |-> vt, ps |-> ps]
FunctionExpr(params, body) == [k |-> "lambda", params |-> params, ret |-> NoType, body |-> body, raises |-> <<>>]
GoExpr(call) == [k |-> "go", call |-> call]
AwaitExpr(e) == [k |-> "await", e |-> e]
Comptime(body) == [k |-> "comptime", body |-> body]

\* AssignmentNode and its four targets
Assign(n, e) == [k |-> "assign", to |-> "name", n |-> n, e |-> e]
AssignMember(o, m, e) == [k |-> "assign", to |-> "member", o |-> o, m |-> m, e |-> e]
AssignIndex(n, i, e) == [k |-> "assign", to |-> "index", n |-> n, i |-> i, e |-> e]
AssignDeref(o, e) == [k |-> "assign", to |-> "deref", o |-> o, e |-> e]

\* statements
VarDecl(n, t, e) == [k |-> "var", n |-> n, t |-> t, e |-> e, const |-> FALSE, storage |-> "plain"]
Block(ss) == [k |-> "block", ss |-> ss]
If(c, a, b) == [k |-> "if", c |-> c, a |-> a, b |-> b]
While(c, b) == [k |-> "while", c |-> c, b |-> b]
Iter(n, e, adapters, b) == [k |-> "iter", n |-> n, e |-> e, adapters |-> adapters, b |-> b]
Return(e) == [k |-> "return", e |-> e]
PrintStmt(e) == [k |-> "print", e |-> e]
Unsafe(b) == [k |-> "unsafe", b |-> b]
Handler(op, params, body) == [op |-> op, params |-> params, body |-> body]
Handle(e, hs) == [k |-> "handle", e |-> e, hs |-> hs]
Transaction(regions, b) == [k |-> "transaction", regions |-> regions, b |-> b]

\* declarations; a type parameter has a name and constraints
Param(n, t) == [n |-> n, t |-> t, default |-> Nothing, variadic |-> FALSE]
Binding(n, t) == [n |-> n, t |-> t]            \* ContextBinding, struct field
TypeParam(n, constraints) == [n |-> n, cs |-> constraints]
\* functions, methods of structs, actors and interfaces, operations of effects
FunctionDecl(n, params, ret, body) ==
    [k |-> "func", n |-> n, params |-> params, ret |-> ret, body |-> body, ctx |-> <<>>, tparams |-> <<>>,
     raises |-> <<>>, requires |-> <<>>, ensures |-> <<>>, comptime |-> FALSE, query |-> FALSE]
StructDecl(n, tparams, fields, methods) ==
    [k |-> "struct", n |-> n, tparams |-> tparams, fields |-> fields, methods |-> methods,
     implements |-> <<>>, invariants |-> <<>>]
EnumDecl(n, tparams, variants) == [k |-> "enum", n |-> n, tparams |-> tparams, variants |-> variants]
Variant(n, args) == [n |-> n, args |-> args]
InterfaceDecl(n, methods) == [k |-> "interface", n |-> n, tparams |-> <<>>, methods |-> methods]
EffectDecl(n, ops) == [k |-> "effect", n |-> n, ops |-> ops]
Field(n, t, e) == [n |-> n, t |-> t, e |-> e]  \* of an actor
ActorDecl(n, fields, methods) == [k |-> "actor", n |-> n, tparams |-> <<>>, fields |-> fields, methods |-> methods]
TypeAlias(n, t) == [k |-> "alias", n |-> n, tparams |-> <<>>, t |-> t]
ModuleDecl(q) == [k |-> "module", q |-> q]
ImportDecl(q, alias) == [k |-> "import", q |-> q, alias |-> alias]
ExportDecl(d) == [k |-> "export", d |-> d]

=============================================================================
