---------------------------- MODULE MCCompilation -----------------------------
(***************************************************************************)
(* TLC instance of Compilation.  Every program is a module with the same   *)
(* declarations and a function run(x) whose body has two statements, one   *)
(* of them in an inner block, taken from a list in which each statement    *)
(* uses a different part of the language on the variable x; other programs *)
(* run one such statement in a loop and in a closure.  The odd programs    *)
(* have the constructs that the properties name.                           *)
(***************************************************************************)
EXTENDS Compilation

I(n) == Lit(IntV(n))
S(t) == Lit(StrV(t))
X == Id("x")
IntType == Type("int")
Sum(a, b) == BinaryExpr("ADD", a, b)
Product(a, b) == BinaryExpr("MULTIPLY", a, b)
Lower(a, b) == BinaryExpr("LESS", a, b)
Let(n, e) == VarDecl(n, AutoType, e)
Fn(n, params, body) == FunctionDecl(n, params, IntType, Block(body))
IntParam(n) == Param(n, IntType)
Lambda(n, body) == FunctionExpr(<<IntParam(n)>>, Block(body))
CallOf(f, args) == Call(Id(f), args)

Declarations == <<
    ModuleDecl(<<"app">>),
    InterfaceDecl("Sized", <<Fn("size", <<IntParam("k")>>, <<>>)>>),
    [StructDecl("Pair", <<>>, <<Binding("a", IntType), Binding("b", IntType)>>,
        <<Fn("size", <<IntParam("k")>>, <<Return(Sum(Sum(Id("a"), Member(Id("self"), "b")), Id("k")))>>),
          Fn("raise", <<IntParam("by")>>, <<AssignMember(Id("self"), "a", Sum(Id("a"), Id("by"))), Return(Id("a"))>>)>>)
        EXCEPT !.implements = <<Type("Sized")>>],
    [StructDecl("Positive", <<>>, <<Binding("value", IntType)>>,
        <<Fn("lower", <<>>, <<AssignMember(Id("self"), "value", BinaryExpr("SUBTRACT", Id("value"), I(2))), Return(Id("value"))>>)>>)
        EXCEPT !.invariants = <<Lower(I(0), Member(Id("self"), "value"))>>],
    EnumDecl("Option", <<>>, <<Variant("None", <<>>), Variant("Some", <<IntType>>)>>),
    EffectDecl("Ask", <<Fn("ask", <<IntParam("q")>>, <<>>)>>),
    Fn("add", <<IntParam("l"), [IntParam("r") EXCEPT !.default = I(5)]>>, <<Return(Sum(Id("l"), Id("r")))>>),
    Fn("second", <<IntParam("first"), [IntParam("rest") EXCEPT !.variadic = TRUE]>>, <<Return(Index(Id("rest"), I(0)))>>),
    FunctionDecl("bump", <<Param("t", Generic("ref", <<IntType>>))>>, Type("void"),
                 Block(<<AssignDeref(Id("t"), Sum(Unary("*", Id("t")), I(1)))>>)),
    [Fn("half", <<IntParam("h")>>, <<Return(BinaryExpr("DIV", Id("h"), I(2)))>>)
        EXCEPT !.requires = <<Lower(I(0), Id("h"))>>, !.ensures = <<Lower(Id("result"), Id("h"))>>],
    [Fn("asks", <<IntParam("q")>>, <<Return(Sum(CallOf("ask", <<Id("q")>>), I(1)))>>) EXCEPT !.raises = <<<<"Ask">>>>],
    Fn("fact", <<IntParam("n")>>, <<If(Lower(Id("n"), I(2)), Block(<<Return(I(1))>>), Nothing),
        Return(Product(Id("n"), CallOf("fact", <<BinaryExpr("SUBTRACT", Id("n"), I(1))>>)))>>),
    Fn("twice", <<Param("f", FnType(<<IntType>>, IntType)), IntParam("v")>>,
        <<Return(CallOf("f", <<CallOf("f", <<Id("v")>>)>>))>>) >>

\* well-typed statements on x
Good == <<
    Assign("x", Sum(X, I(1))),
    Block(<<Let("y", Product(X, I(2))), Let("z", Id("y")), Assign("x", BinaryExpr("SUBTRACT", Id("z"), I(3)))>>),
    Block(<<Let("x", I(7)), Assign("x", Sum(X, I(1))), PrintStmt(X)>>),
    If(BinaryExpr("AND", Lower(X, I(3)), Unary("not", BinaryExpr("EQUAL", X, I(0)))),
       Block(<<Let("t", I(10)), Assign("x", Sum(X, Id("t")))>>), Block(<<Assign("x", Unary("-", X))>>)),
    While(Lower(X, I(4)), Block(<<Let("w", I(2)), Assign("x", Sum(X, Id("w")))>>)),
    Block(<<VarDecl("p", Type("Pair"), CallOf("Pair", <<X, I(2)>>)), AssignMember(Id("p"), "b", Sum(Member(Id("p"), "b"), I(1))),
            Call(Member(Id("p"), "raise"), <<I(3)>>), Assign("x", Call(Member(Id("p"), "size"), <<X>>))>>),
    Block(<<VarDecl("s", Type("Sized"), CallOf("Pair", <<I(1), X>>)), Assign("x", Call(Member(Id("s"), "size"), <<I(4)>>))>>),
    Block(<<VarDecl("n", Type("Positive"), CallOf("Positive", <<X>>)), Assign("x", Call(Member(Id("n"), "lower"), <<>>))>>),
    Block(<<VarDecl("o", Type("Option"), CallOf("Some", <<X>>)), PrintStmt(Index(Id("o"), I(0))), Assign("x", Member(Id("o"), "tag"))>>),
    Block(<<Let("arr", ArrayLit(<<X, I(2), I(3)>>)), AssignIndex("arr", I(1), X), PrintStmt(Id("arr")),
            Assign("x", Index(Id("arr"), X))>>),
    Block(<<Let("m", MapLit(Type("string"), IntType, <<<<S("k"), X>>, <<S("j"), I(9)>>>>)), AssignIndex("m", S("j"), I(3)),
            Assign("x", Sum(Index(Id("m"), S("k")), Index(Id("m"), S("j"))))>>),
    Block(<<Let("f", Lambda("v", <<Return(Sum(Id("v"), X))>>)), Assign("x", I(100)), Assign("x", CallOf("f", <<X>>))>>),
    Block(<<Let("c", FunctionExpr(<<>>, Block(<<Assign("x", Sum(X, I(1))), Return(X)>>))), PrintStmt(CallOf("c", <<>>)),
            PrintStmt(Sum(CallOf("c", <<>>), X))>>),
    Block(<<Let("k", I(2)), Let("g", [Lambda("v", <<Let("h", Lambda("u", <<Return(Sum(Sum(Id("u"), Id("k")), X))>>)),
                                            Return(CallOf("h", <<Id("v")>>))>>) EXCEPT !.ret = IntType]),
            Assign("x", CallOf("g", <<I(1)>>))>>),
    Assign("x", Sum(CallOf("add", <<X>>), CallOf("add", <<X, I(1)>>))),
    Assign("x", Sum(CallOf("second", <<X, I(1), I(2)>>), CallOf("second", <<I(0), X>>))),
    Block(<<Let("gap", I(1)), CallOf("bump", <<X>>), Unsafe(Block(<<VarDecl("px", Generic("ptr", <<IntType>>), Unary("&", X)),
            AssignDeref(Id("px"), Sum(Unary("*", Id("px")), Id("gap")))>>))>>),
    Assign("x", CallOf("half", <<X>>)),
    Assign("x", Handle(Sum(CallOf("asks", <<X>>), CallOf("asks", <<I(2)>>)),
                       <<Handler("ask", <<IntParam("q")>>, Block(<<CallOf("resume", <<Product(Id("q"), X)>>)>>))>>)),
    Assign("x", Sum(CallOf("fact", <<I(3)>>), X)),
    Assign("x", CallOf("twice", <<Lambda("v", <<Return(Product(Id("v"), I(2)))>>), X>>)),
    Iter("e", ArrayLit(<<I(1), I(2), I(3), I(4)>>),
         <<[op |-> "ITER_DROP", e |-> I(1)], [op |-> "ITER_TRANSFORM", e |-> Lambda("u", <<Return(Sum(Id("u"), X))>>)],
           [op |-> "ITER_FILTER", e |-> Lambda("u", <<Return(Lower(I(3), Id("u")))>>)], [op |-> "ITER_REVERSE", e |-> Nothing],
           [op |-> "ITER_TAKE", e |-> I(2)]>>,
         Block(<<Let("d", Id("e")), Assign("x", Sum(Product(X, I(2)), Id("d")))>>)),
    Block(<<VarDecl("five", IntType, Comptime(Block(<<Return(Sum(I(2), I(3)))>>))), Assign("x", Sum(Id("five"), X))>>),
    Assign("x", BinaryExpr("DIV", I(6), BinaryExpr("SUBTRACT", X, I(1)))),
    Assign("x", BinaryExpr("DIVIDE", X, I(2))),
    If(Lower(I(5), X), Block(<<Return(X)>>), Nothing) >>

\* statements that go wrong when they are run
Bad == <<
    Block(<<VarDecl("s", IntType, S("t")), Assign("x", BinaryExpr("SUBTRACT", Id("s"), I(1)))>>),
    Assign("x", Id("nowhere")),
    Block(<<Block(<<Let("inner", I(1))>>), Assign("x", Id("inner"))>>),
    Assign("x", CallOf("x", <<I(1)>>)),
    Block(<<VarDecl("p", Type("Pair"), CallOf("Pair", <<I(1), I(2)>>)), Assign("x", Member(Id("p"), "c"))>>),
    Assign("x", Product(ArrayLit(<<X>>), I(2))),
    Assign("x", CallOf("fact", <<S("s")>>)),
    Assign("x", CallOf("twice", <<X, X>>)),
    Block(<<VarDecl("s", Type("Sized"), CallOf("Positive", <<I(1)>>)), Assign("x", Call(Member(Id("s"), "size"), <<I(1)>>))>>),
    Assign("x", Index(X, I(0))) >>

ProgramWith(decls, start, first, second) ==
    Block(Declarations \o decls \o
          <<Fn("run", <<IntParam("x")>>, <<first, Block(<<Let("before", X), second, PrintStmt(Id("before"))>>), PrintStmt(X), Return(X)>>),
            PrintStmt(CallOf("run", <<start>>))>>)
Program(start, first, second) == ProgramWith(<<>>, start, first, second)
\* a statement run twice by a loop, and one inside a function of its own
Repeated(s) == Iter("round", ArrayLit(<<I(1), I(2)>>), <<>>, Block(<<Let("kept", X), s, Assign("x", Sum(X, Id("kept")))>>))
Enclosed(s) == Block(<<Let("f", [FunctionExpr(<<>>, Block(<<s, PrintStmt(X), Return(X)>>)) EXCEPT !.ret = IntType]),
                       PrintStmt(CallOf("f", <<>>)), PrintStmt(CallOf("f", <<>>))>>)

\* statements of the kinds that are known to be translated or judged loosely,
\* with the declarations they need
Ask(answer) == <<Handler("ask", <<IntParam("q")>>, Block(<<CallOf("resume", <<answer>>)>>))>>
One == [StructDecl("One", <<>>, <<Binding("a", IntType)>>, <<Fn("size", <<IntParam("k")>>, <<Return(Id("k"))>>)>>)
            EXCEPT !.implements = <<Type("Sized")>>]
Odd == <<
    [decls |-> <<>>, s |-> Handle(CallOf("asks", <<X>>), Ask(Id("q")))],
    [decls |-> <<>>, s |-> Comptime(Block(<<Return(I(3))>>))],
    [decls |-> <<>>, s |-> Leaf(BoolV(TRUE))],
    [decls |-> <<[FunctionDecl("quiet", <<IntParam("h")>>, Type("void"), Block(<<PrintStmt(Id("h"))>>))
                    EXCEPT !.ensures = <<Lower(I(5), Id("h"))>>]>>,
     s |-> CallOf("quiet", <<X>>)],
    [decls |-> <<VarDecl("top", IntType, I(5)), Fn("setTop", <<IntParam("v")>>, <<Assign("top", Id("v")), Return(Id("top"))>>)>>,
     s |-> Assign("x", CallOf("setTop", <<X>>))],
    [decls |-> <<One>>,
     s |-> Block(<<VarDecl("s", Type("Sized"), CallOf("Pair", <<I(1), X>>)),
                   If(Lower(I(0), X), Block(<<Assign("s", CallOf("One", <<X>>))>>), Nothing),
                   Assign("x", Call(Member(Id("s"), "size"), <<I(4)>>))>>)],
    [decls |-> <<One, Fn("sized", <<Param("s", Type("Sized"))>>, <<Return(Call(Member(Id("s"), "size"), <<I(1)>>))>>)>>,
     s |-> Assign("x", CallOf("sized", <<CallOf("One", <<X>>)>>))],
    [decls |-> <<>>,
     s |-> Block(<<Iter("e", ArrayLit(<<I(1)>>), <<>>, Block(<<PrintStmt(Id("e"))>>)), Assign("x", Id("e"))>>)],
    [decls |-> <<>>, s |-> Assign("x", Product(Handle(S("t"), Ask(Id("q"))), X))],
    [decls |-> <<>>, s |-> Block(<<Let("m", MapLit(IntType, IntType, <<<<I(2), X>>>>)), Assign("x", Index(Id("m"), Sum(I(1), I(1))))>>)],
    [decls |-> <<>>, s |-> Enclosed(CallOf("bump", <<X>>))] >>

\* the statement that passes x by reference
Captured == 17

\* statements of tasks, actors and transactions, whose instructions the machine leaves to others
Shared == [VarDecl("total", IntType, I(0)) EXCEPT !.storage = "shared"]
Elsewhere == <<
    ModuleDecl(<<"app">>), ImportDecl(<<"std", "memory">>, "memory"), TypeAlias("Count", IntType), Shared,
    ActorDecl("Counter", <<Field("n", IntType, I(0))>>,
        <<FunctionDecl("add", <<IntParam("by")>>, Type("void"), Block(<<Assign("n", Sum(Id("n"), Id("by")))>>)),
          [Fn("get", <<>>, <<Return(Id("n"))>>) EXCEPT !.query = TRUE]>>),
    StructDecl("Box", <<TypeParam("T", <<>>)>>, <<Binding("content", Type("T"))>>, <<>>),
    ExportDecl([Fn("work", <<IntParam("w")>>, <<Return(Sum(Id("w"), I(1)))>>) EXCEPT !.ctx = <<Binding("scale", IntType)>>]),
    Fn("job", <<IntParam("w")>>, <<Return(Sum(Id("w"), I(1)))>>) >>
Concurrent == <<
    Block(<<Let("task", GoExpr(CallOf("job", <<X>>))), Assign("x", AwaitExpr(Id("task")))>>),
    Block(<<VarDecl("c", Type("Counter"), CallOf("Counter", <<>>)), Call(Member(Id("c"), "add"), <<X>>),
            Assign("x", Call(Member(Id("c"), "get"), <<>>))>>),
    Transaction(<<[shared |-> TRUE, n |-> "total"]>>, Block(<<Let("old", Id("total")), Assign("total", Sum(Id("old"), X))>>)),
    Unsafe(Block(<<Let("cell", Call(Member(Id("memory"), "alloc"), <<I(1)>>)), Call(Member(Id("memory"), "free"), <<Id("cell")>>)>>)),
    Block(<<VarDecl("box", Generic("Box", <<IntType>>), Call(IdOf("Box", <<IntType>>), <<X>>)), Assign("x", Member(Id("box"), "content"))>>),
    Block(<<VarDecl("scale", Type("Count"), I(3)), Assign("x", CallOf("work", <<X>>))>>) >>
ConcurrentProgram(first, second) ==
    Block(Elsewhere \o <<Fn("run", <<IntParam("x")>>, <<first, second, Return(X)>>), PrintStmt(CallOf("run", <<I(1)>>))>>)

\* the top level looks at a variable that a function has set
Outside == Block(ProgramWith(Odd[5].decls, I(1), Good[1], Odd[5].s).ss \o <<PrintStmt(Id("top"))>>)

MCPrograms == {Outside} \cup
    {ConcurrentProgram(Concurrent[i], Concurrent[j]) : i, j \in DOMAIN Concurrent} \cup
    {Program(I(1), Good[i], Good[j]) : i, j \in DOMAIN Good} \cup
    {Program(I(1), Repeated(Good[i]), Enclosed(Good[i])) : i \in DOMAIN Good \ {Captured}} \cup
    {Program(I(0), Enclosed(Good[i]), Repeated(Good[i])) : i \in DOMAIN Good \ {Captured}} \cup
    {Program(I(1), Good[1], Bad[j]) : j \in DOMAIN Bad} \cup
    {ProgramWith(Odd[j].decls, I(1), Good[i], Odd[j].s) : i \in {1, 4, 8, 13, 22}, j \in DOMAIN Odd} \cup
    {ProgramWith(o.decls, I(1), Repeated(o.s), Enclosed(o.s)) : o \in Range(Odd)}
=============================================================================
