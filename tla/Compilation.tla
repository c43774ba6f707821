----------------------------- MODULE Compilation ------------------------------
(***************************************************************************)
(* The way of a program through the compiler and the machine: the semantic *)
(* analyzer judges it, the bytecode generator translates it, the machine   *)
(* executes it one instruction at a time.                                  *)
(***************************************************************************)
EXTENDS BytecodeGenerator

Analyzer == INSTANCE SemanticAnalyzer
Reference == INSTANCE SourceSemantics

CONSTANT Programs             \* the syntax trees to compile

VARIABLES source,             \* the program
          phase,              \* "parsed", "analyzed", "rejected", "compiled", "ended"
          code,               \* the functions of the compiled program
          machine             \* the machine that runs it

compilationVars == <<source, phase, code, machine>>

CompilationInit ==
    /\ source \in Programs
    /\ phase = "parsed" /\ code = <<>> /\ machine = <<>>

AnalyzeProgram ==
    /\ phase = "parsed"
    /\ phase' = IF Analyzer!Analyze(source) = "" THEN "analyzed" ELSE "rejected"
    /\ UNCHANGED <<source, code, machine>>

\* what the generator throws rejects a program too
GenerateCode ==
    /\ phase = "analyzed"
    /\ code' = Compile(source)
    /\ IF code' = <<>> THEN phase' = "rejected" /\ UNCHANGED machine
       ELSE phase' = "compiled" /\ machine' = Start(code')
    /\ UNCHANGED source

RunInstruction ==
    /\ phase = "compiled"
    /\ machine' = Exec(code, machine)
    /\ phase' = IF machine'.st = "run" THEN phase ELSE "ended"
    /\ UNCHANGED <<source, code>>

CompilationNext == AnalyzeProgram \/ GenerateCode \/ RunInstruction
CompilationSpec == CompilationInit /\ [][CompilationNext]_compilationVars

----------------------------------------------------------------------------
(* Where control can go in compiled code *)

\* the cells behind an instruction, with the change of the stack's height on the way
Successors(f, i) ==
    LET ins == code[f].code[i]
        next == i + SizeOf(ins[1])
        change == Pushes(ins) - Pops(ins, code)
    IN CASE ins[1] = "RETURN" -> {}
         [] ins[1] = "JUMP" -> {<<next + ins[2], 0>>}
         [] ins[1] = "LOOP" -> {<<next - ins[2], 0>>}
         [] ins[1] = "JUMP_IF_FALSE" -> {<<next, change>>, <<next + ins[2], change>>}
         [] ins[1] = "ITER_NEXT" -> {<<next, 1>>, <<next + ins[2], 0>>}
         [] OTHER -> {<<next, change>>}

\* the cells that can be reached, with the heights they are reached with: all
\* of them, or enough to show a cell with two
RECURSIVE HeightsFrom(_, _, _)
HeightsFrom(f, todo, seen) ==
    LET all == seen \cup todo
        new == UNION {{<<x[1], c[2] + x[2]>> : x \in Successors(f, c[1])} : c \in todo} \ all
    IN  IF new = {} \/ \E c \in all, d \in new : c[1] = d[1] THEN all \cup new ELSE HeightsFrom(f, new, all)
Heights(f) == HeightsFrom(f, {<<1, code[f].arity>>}, {})

\* the stack slots an instruction needs below its top; RETURN makes do with none
Needs(ins) ==
    CASE ins[1] \in {"GET_LOCAL", "SET_LOCAL", "ADDR_LOCAL"} -> ins[2] + 1
      [] ins[1] = "RETURN" -> 0
      [] OTHER -> Pops(ins, code)

----------------------------------------------------------------------------
(* What stands in a program *)

\* the nodes directly under a node, null pointers included
Children(n) ==
    CASE n.k \in {"none", "lit", "leaf", "id", "module", "import", "alias", "enum"} -> <<>>
      [] n.k \in {"unary", "await", "print", "return", "var"} -> <<n.e>>
      [] n.k = "binary" -> <<n.l, n.r>>
      [] n.k = "call" -> <<n.f>> \o n.args
      [] n.k = "member" -> <<n.o>>
      [] n.k = "index" -> <<n.o, n.i>>
      [] n.k = "array" -> n.es
      [] n.k = "map" -> FlattenSeq(n.ps)
      [] n.k = "go" -> <<n.call>>
      [] n.k = "assign" -> CASE n.to = "name" -> <<n.e>> [] n.to = "index" -> <<n.i, n.e>> [] OTHER -> <<n.o, n.e>>
      [] n.k = "block" -> n.ss
      [] n.k = "if" -> <<n.c, n.a, n.b>>
      [] n.k = "while" -> <<n.c, n.b>>
      [] n.k = "iter" -> <<n.e>> \o [i \in DOMAIN n.adapters |-> n.adapters[i].e] \o <<n.b>>
      [] n.k \in {"unsafe", "transaction"} -> <<n.b>>
      [] n.k = "handle" -> <<n.e>> \o [i \in DOMAIN n.hs |-> n.hs[i].body]
      [] n.k \in {"lambda", "comptime"} -> <<n.body>>
      [] n.k = "func" -> n.requires \o n.ensures \o [i \in DOMAIN n.params |-> n.params[i].default] \o <<n.body>>
      [] n.k = "struct" -> n.invariants \o n.methods
      [] n.k = "actor" -> [i \in DOMAIN n.fields |-> n.fields[i].e] \o n.methods
      [] n.k = "interface" -> n.methods
      [] n.k = "effect" -> n.ops
      [] n.k = "export" -> <<n.d>>
RECURSIVE Nodes(_)
Nodes(n) == <<n>> \o FlattenSeq([i \in DOMAIN Children(n) |-> Nodes(Children(n)[i])])
NodesOfKind(root, k) == LET some == SelectSeq(Nodes(root), LAMBDA n : n.k = k) IN Range(some)

\* a statement whose value ShouldPopStatementResult does not take away
LeavesValues(root) ==
    \E b \in NodesOfKind(root, "block") : \E i \in DOMAIN b.ss : b.ss[i].k \in {"handle", "comptime", "leaf"}

\* a function with postconditions that may end without a return, which checks them
EndsUnchecked(root) ==
    \E f \in NodesOfKind(root, "func") : f.ensures # <<>> /\ Last(f.body.ss).k # "return"

\* the generator keeps a module-level variable twice, as a local of the top level
\* and as a global for the functions
HasModuleVariable(root) == \E i \in DOMAIN root.ss : root.ss[i].k = "var"

(* The generator calls the methods of the struct that an interface         *)
(* variable was declared with; it knows of none behind a parameter.        *)
LooseInterface(root) ==
    LET Named(t) == \E i \in NodesOfKind(root, "interface") : t.b = <<i.n>>
    IN  \/ \E f \in NodesOfKind(root, "func") : \E i \in DOMAIN f.params : Named(f.params[i].t)
        \/ \E v \in NodesOfKind(root, "var"), a \in NodesOfKind(root, "assign") :
                Named(v.t) /\ a.to = "name" /\ a.n = v.n

\* inside a function expression, a place is passed by reference or taken the address of
ReferenceInClosure(root) ==
    LET ByReference == {f.n : f \in {g \in NodesOfKind(root, "func") : \E i \in DOMAIN g.params : g.params[i].t.b = <<"ref">>}}
    IN  \E l \in NodesOfKind(root, "lambda") :
            \/ \E u \in NodesOfKind(l, "unary") : u.op = "&"
            \/ \E c \in NodesOfKind(l, "call") : c.f.k = "id" /\ c.f.n \in ByReference

\* a statement after a loop names the loop's variable, which the analyzer still knows
RECURSIVE Uses(_, _)
Uses(n, x) ==
    \/ n.k = "id" /\ n.n = x
    \/ n.k = "assign" /\ n.to \in {"name", "index"} /\ n.n = x
    \/ ~(n.k = "iter" /\ n.n = x) /\ \E i \in DOMAIN Children(n) : Uses(Children(n)[i], x)
UsesLoopVariableAfterwards(root) ==
    \E b \in NodesOfKind(root, "block") : \E i, j \in DOMAIN b.ss :
        i < j /\ b.ss[i].k = "iter" /\ Uses(b.ss[j], b.ss[i].n)

\* the analyzer takes the type of a handler's body for that of the whole
HandlesValueOfItsOwn(root) == \E h \in NodesOfKind(root, "handle") : h.e.k \notin {"call", "binary"}

\* a computed number is a double, and no double is a key
HasIntegerKeys(root) == \E m \in NodesOfKind(root, "map") : m.kt = Type("int")

----------------------------------------------------------------------------
(* Properties *)

(* Compiled code keeps the stack in order on every path, taken or not: an  *)
(* instruction is always reached with the same height, every jump leads to *)
(* an instruction, and no instruction takes or names more than the         *)
(* function itself has put on the stack.  The heights agree unless some    *)
(* statement is a handle, a comptime block or a bare constant: its value   *)
(* stays on the stack (ShouldPopStatementResult), once per turn of a loop. *)
StackDiscipline ==
    phase = "compiled" /\ machine = Start(code) =>
        \A f \in DOMAIN code :
            LET hs == Heights(f)
            IN  /\ (\A c, d \in hs : c[1] = d[1] => c = d) \/ LeavesValues(source)
                /\ \A c \in hs : /\ code[f].code[c[1]] # Pad
                                 /\ Needs(code[f].code[c[1]]) <= c[2]

(* A compiled program prints the lines its source means, and ends the way  *)
(* its source ends, whatever blocks, closures, loops, handlers, contracts  *)
(* and values left behind it combines.  Not claimed: programs that come to *)
(* an instruction of tasks, actors or transactions (other modules model    *)
(* them), and those with one of the named constructs, which the generator  *)
(* is known to translate differently.                                      *)
RunsAsWritten ==
    phase = "ended" /\ machine.st # "ext" =>
        \/ [out |-> machine.out, st |-> machine.st] = Reference!Meaning(source)
        \/ EndsUnchecked(source) \/ HasModuleVariable(source)
        \/ LooseInterface(source) \/ ReferenceInClosure(source)

(* A program that the semantic analyzer accepts never meets a value of the *)
(* wrong kind, an unknown name, a missing field or an unhandled effect,    *)
(* except through the gaps named here: each explains failures of its own   *)
(* kind and no other.                                                      *)
AcceptedNeverStuck ==
    phase \in {"compiled", "ended"} =>
        \/ machine.st \in {"run", "done", "ext", "zero", "bounds", "missing", "contract"}
        \/ machine.st = "undefined" /\ UsesLoopVariableAfterwards(source)
        \/ machine.st \in {"type", "field"} /\ LooseInterface(source)
        \/ machine.st \in {"type", "upvalue"} /\ ReferenceInClosure(source)
        \/ machine.st = "type" /\ HandlesValueOfItsOwn(source)
        \/ machine.st = "key" /\ HasIntegerKeys(source)

=============================================================================
