------------------------------- MODULE Machine -------------------------------
(***************************************************************************)
(* The stack machine that runs compiled Aura: values and their operators   *)
(* (ValueHelper), data instructions (VirtualMachineDataOps.cpp), calls and *)
(* the dispatch loop (VirtualMachineCore.cpp), for one sequential program. *)
(* The model keeps byte offsets: an instruction is stored in its first     *)
(* cell, and each operand byte takes a Pad cell.  Constants stand in the   *)
(* instruction instead of in the chunk's pool.                             *)
(*                                                                         *)
(* A program p is a sequence of functions; the last one is the top level.  *)
(* A machine m is [fs, stk, heap, glob, hs, out, st]: frames, value stack, *)
(* shared objects, globals, handler maps, printed lines and a status:      *)
(* "run", "done", "ext" (an instruction of tasks, actors or transactions,  *)
(* which other modules model) or the reason of a failure.                  *)
(***************************************************************************)
EXTENDS Integers, Sequences, SequencesExt, TLC

IntV(n) == <<"int", n>>
\* a double is a fraction in lowest terms, kept exactly; a zero may be negative
DblV(n, d) == LET g == Max({h \in 1..d : n % h = 0 /\ d % h = 0}) IN <<"dbl", n \div g, d \div g>>
NegativeZero == <<"dbl", 0, 1, "-">>
BoolV(b) == <<"bool", b>>
StrV(s) == <<"str", s>>
NullV == <<"null">>
Wrong(why) == <<"err", why>>  \* what a C++ exception or Fail makes of a value
Pad == <<"pad">>

IsNumeric(v) == v[1] \in {"int", "dbl", "bool"}
Numerator(v) == IF v[1] = "bool" THEN (IF v[2] THEN 1 ELSE 0) ELSE v[2]
Denominator(v) == IF v[1] = "dbl" THEN v[3] ELSE 1
IsMinus(v) == Numerator(v) < 0 \/ v = NegativeZero
AbsoluteOf(n) == IF n < 0 THEN -n ELSE n

----------------------------------------------------------------------------
(* ValueHelper *)

\* As<bool>: numbers by value, anything else is a bad_variant_access
Truth(v) == IF IsNumeric(v) THEN BoolV(Numerator(v) # 0) ELSE Wrong("type")

\* conversion to an integer, integer division and remainder truncate towards zero
TruncDiv(a, b) ==
    LET q == AbsoluteOf(a) \div AbsoluteOf(b) IN IF (a < 0) # (b < 0) THEN -q ELSE q
IntegerOf(v) == TruncDiv(Numerator(v), Denominator(v))

\* Equal: numbers by value, strings by content, objects by identity
SameNumber(a, b) == Numerator(a) = Numerator(b) /\ Denominator(a) = Denominator(b)
SameValue(a, b) == IF IsNumeric(a) /\ IsNumeric(b) THEN SameNumber(a, b) ELSE a = b

(* A double as a stream writes it: six significant digits without trailing *)
(* zeros, for doubles from 0.0001 to a million.                            *)
Digits(scaled, places) ==
    FoldLeft(LAMBDA s, i : s \o ToString((scaled \div 10^(places - i)) % 10),
             IF places = 0 THEN "" ELSE ".", [i \in 1..places |-> i])
Decimal(n, d) ==
    LET places == CHOOSE k \in 0..9 : (n * 10^k) \div d \in 100000..999999
        scaled == (2 * n * 10^places + d) \div (2 * d)
        zeros == Max({k \in 0..places : scaled % 10^k = 0})
        short == scaled \div 10^zeros
    IN  ToString(short \div 10^(places - zeros)) \o Digits(short, places - zeros)
DoubleText(v) ==
    (IF IsMinus(v) THEN "-" ELSE "") \o
    (IF v[3] = 1 THEN ToString(AbsoluteOf(v[2])) ELSE Decimal(AbsoluteOf(v[2]), v[3]))

\* The text PrintValue writes.  An array shows its elements, a struct does not.
RECURSIVE Text(_, _)
Text(heap, v) ==
    CASE v[1] = "int" -> ToString(v[2])
      [] v[1] = "dbl" -> DoubleText(v)
      [] v[1] = "bool" -> IF v[2] THEN "true" ELSE "false"
      [] v[1] = "str" -> v[2]
      [] v[1] = "null" -> "null"
      [] v[1] = "arr" -> "[" \o FoldLeft(LAMBDA s, i :
                s \o (IF i = 1 THEN "" ELSE ", ") \o Text(heap, heap[v[2]][i]),
                "", [i \in DOMAIN heap[v[2]] |-> i]) \o "]"
      [] v[1] = "inst" -> "{struct}"
      [] v[1] = "enum" -> "variant(" \o ToString(heap[v[2]].tag) \o ")"
      [] OTHER -> "<" \o v[1] \o ">"

(* Add, Subtract, Multiply, Divide and Negate work on doubles, whatever    *)
(* they are given.  A sum is a negative zero when both of its parts are, a *)
(* product or a quotient when the signs differ.                            *)
Double(n, d, minus) == IF n = 0 /\ minus THEN NegativeZero ELSE DblV(n, d)
Negated(v) ==
    IF IsNumeric(v) THEN Double(-Numerator(v), Denominator(v), ~IsMinus(v)) ELSE Wrong("type")
Added(a, b) ==
    Double(Numerator(a) * Denominator(b) + Numerator(b) * Denominator(a),
           Denominator(a) * Denominator(b), IsMinus(a) /\ IsMinus(b))
Multiplied(a, b) ==
    Double(Numerator(a) * Numerator(b), Denominator(a) * Denominator(b), IsMinus(a) # IsMinus(b))
Inverted(v) ==
    IF Numerator(v) < 0 THEN DblV(-Denominator(v), -Numerator(v)) ELSE DblV(Denominator(v), Numerator(v))
Arithmetic(op, a, b) ==
    IF ~(IsNumeric(a) /\ IsNumeric(b)) THEN Wrong("type")
    ELSE CASE op = "ADD" -> Added(a, b)
           [] op = "SUBTRACT" -> Added(a, Negated(b))
           [] op = "MULTIPLY" -> Multiplied(a, b)
           [] op = "DIVIDE" -> IF Numerator(b) = 0 THEN Wrong("zero") ELSE Multiplied(a, Inverted(b))

\* DivideInt and Modulo work on integers
IntegerDivision(op, a, b) ==
    IF ~(IsNumeric(a) /\ IsNumeric(b)) THEN Wrong("type")
    ELSE LET x == IntegerOf(a) y == IntegerOf(b)
         IN IF y = 0 THEN Wrong("zero")
            ELSE IF op = "DIV" THEN IntV(TruncDiv(x, y)) ELSE IntV(x - TruncDiv(x, y) * y)

\* PerformBinaryComparison: FALSE for what cannot be compared
Less(a, b) ==
    /\ IsNumeric(a) /\ IsNumeric(b)
    /\ Numerator(a) * Denominator(b) < Numerator(b) * Denominator(a)

Logic(op, a, b) ==
    IF Wrong("type") \in {Truth(a), Truth(b)} THEN Wrong("type")
    ELSE BoolV(IF op = "AND" THEN Truth(a)[2] /\ Truth(b)[2] ELSE Truth(a)[2] \/ Truth(b)[2])

BinaryOps == {"ADD", "SUBTRACT", "MULTIPLY", "DIVIDE", "DIV", "MOD", "AND", "OR", "EQUAL",
              "NOT_EQUAL", "LESS", "GREATER", "LESS_EQUAL", "GREATER_EQUAL"}

Binary(heap, op, a, b) ==
    CASE op = "ADD" /\ (a[1] = "str" \/ b[1] = "str") -> StrV(Text(heap, a) \o Text(heap, b))
      [] op \in {"ADD", "SUBTRACT", "MULTIPLY", "DIVIDE"}
            /\ ~(op = "ADD" /\ (a[1] = "str" \/ b[1] = "str")) -> Arithmetic(op, a, b)
      [] op \in {"DIV", "MOD"} -> IntegerDivision(op, a, b)
      [] op \in {"AND", "OR"} -> Logic(op, a, b)
      [] op = "EQUAL" -> BoolV(SameValue(a, b))
      [] op = "NOT_EQUAL" -> BoolV(~SameValue(a, b))
      [] op = "LESS" -> BoolV(Less(a, b))
      [] op = "GREATER" -> BoolV(Less(b, a))
      [] op = "LESS_EQUAL" -> BoolV(~Less(b, a))
      [] op = "GREATER_EQUAL" -> BoolV(~Less(a, b))

----------------------------------------------------------------------------
(* Instructions: <<opcode, operand...>> *)

WordOps == {"JUMP", "JUMP_IF_FALSE", "LOOP", "CONSTANT", "DEFINE_GLOBAL", "GET_GLOBAL",
            "SET_GLOBAL", "CLOSURE", "GET_MODULE_MEMBER", "ADDR_GLOBAL", "ASSERT"}
WordByteOps == {"BUILD_ACTOR", "ACTOR_SEND", "ACTOR_QUERY", "EFFECT_INVOKE"}
ByteOps == {"GET_LOCAL", "SET_LOCAL", "GET_UPVALUE", "SET_UPVALUE", "CALL", "BUILD_ARRAY",
            "BUILD_MAP", "BUILD_STRUCT", "MEMBER_GET", "MEMBER_SET", "GET_ENUM_ARG",
            "ADDR_LOCAL", "ADDR_UPVALUE", "ITER_NEXT", "BUILD_HANDLER", "BUILD_ACTOR_METHODS"}

\* GetOperandSize, and the extra count byte of calls to actors and effects
SizeOf(op) ==
    CASE op \in WordOps -> 3
      [] op \in WordByteOps -> 4
      [] op = "BUILD_ENUM" -> 3
      [] op \in ByteOps -> 2
      [] OTHER -> 1

\* the instructions whose effect belongs to tasks, actors and transactions
External == {"BEGIN_TXN", "END_TXN", "BUILD_ACTOR", "BUILD_ACTOR_METHODS", "ACTOR_SEND", "ACTOR_QUERY"}

\* how many values an instruction takes off the stack, and how many it puts there
Pops(ins, p) ==
    LET op == ins[1] IN
    CASE op \in BinaryOps \cup {"INDEX_GET", "MEMBER_SET", "SWAP", "ADDR_MEMBER", "DEREF_SET",
                                "ITER_TAKE", "ITER_DROP", "ITER_FILTER", "ITER_TRANSFORM"} -> 2
      [] op = "INDEX_SET" -> 3
      [] op = "CALL" -> ins[2] + 1
      [] op \in {"ACTOR_SEND", "ACTOR_QUERY"} -> ins[3] + 1
      [] op = "EFFECT_INVOKE" -> ins[3]
      [] op \in {"BUILD_ARRAY", "BUILD_STRUCT"} -> ins[2]
      [] op \in {"BUILD_MAP", "BUILD_HANDLER", "BUILD_ACTOR_METHODS"} -> 2 * ins[2]
      [] op \in {"BUILD_ENUM", "BUILD_ACTOR"} -> ins[3]
      [] op = "CLOSURE" -> p[ins[2]].captures
      [] op \in {"CONSTANT", "GET_LOCAL", "GET_UPVALUE", "GET_GLOBAL", "JUMP", "LOOP", "ADDR_LOCAL",
                 "ADDR_GLOBAL", "ADDR_UPVALUE", "END_TXN", "POP_HANDLER"} -> 0
      [] OTHER -> 1
Pushes(ins) ==
    LET op == ins[1] IN
    CASE op \in {"DUP", "SWAP", "ITER_NEXT"} -> 2
      [] op \in {"POP", "PRINT", "ASSERT", "JUMP", "LOOP", "JUMP_IF_FALSE", "DEFINE_GLOBAL",
                 "PUSH_HANDLER", "POP_HANDLER", "BEGIN_TXN", "END_TXN", "RETURN"} -> 0
      [] OTHER -> 1

----------------------------------------------------------------------------
(* The machine *)

Fail(m, why) == [m EXCEPT !.st = why]
Drop(m, k) == [m EXCEPT !.stk = SubSeq(@, 1, Len(@) - k)]
Peek(m, k) == m.stk[Len(m.stk) - k]
TopOf(m, k) == SubSeq(m.stk, Len(m.stk) - k + 1, Len(m.stk))
PushValue(m, v) == IF v[1] = "err" THEN Fail(m, v[2]) ELSE [m EXCEPT !.stk = Append(@, v)]
Alloc(m, kind, object) ==
    PushValue([m EXCEPT !.heap = Append(@, object)], <<kind, Len(m.heap) + 1>>)
Jump(m, distance) == [m EXCEPT !.fs[Len(m.fs)].ip = @ + distance]

\* locals live on the value stack, from the frame's base on
LocalAt(m, slot) ==
    LET i == Last(m.fs).base + slot + 1 IN IF i \in DOMAIN m.stk THEN m.stk[i] ELSE Wrong("local")
SetLocal(m, slot, v) ==
    LET i == Last(m.fs).base + slot + 1
    IN  IF i \in DOMAIN m.stk THEN [m EXCEPT !.stk[i] = v] ELSE Fail(m, "local")
UpvalueAt(m, i) ==
    LET caps == m.heap[Last(m.fs).clo].caps
    IN  IF i + 1 \in DOMAIN caps THEN caps[i + 1] ELSE Wrong("upvalue")
SetUpvalue(m, i, v) ==
    IF i + 1 \in DOMAIN m.heap[Last(m.fs).clo].caps
    THEN [m EXCEPT !.heap[Last(m.fs).clo].caps[i + 1] = v] ELSE Fail(m, "upvalue")
GlobalAt(m, name) == IF name \in DOMAIN m.glob THEN m.glob[name] ELSE Wrong("undefined")

PushFrame(m, clo, base) ==
    [m EXCEPT !.fs = Append(@, [fn |-> m.heap[clo].fn, clo |-> clo, ip |-> 1, base |-> base,
                                hbase |-> Len(m.hs)])]

(* HandleResolvedCall: the arguments stand on top of the callee; a         *)
(* variadic function gets the rest of them as an array.                    *)
HandleResolvedCall(p, m, callee, argc) ==
    IF callee[1] = "nat" THEN Fail(m, "ext")
    ELSE IF callee[1] # "clo" THEN Fail(m, "type")
    ELSE LET f == p[m.heap[callee[2]].fn]
             fixed == f.arity - 1
             packed == IF argc >= fixed THEN TopOf(m, argc - fixed) ELSE <<>>
             m2 == IF f.variadic THEN Alloc(Drop(m, Len(packed)), "arr", packed) ELSE m
         IN  IF (~f.variadic /\ argc # f.arity) \/ (f.variadic /\ argc < f.minArity)
             THEN Fail(m, "arity")
             ELSE PushFrame(m2, callee[2], Len(m2.stk) - f.arity)

HandleCall(p, m, argc) == HandleResolvedCall(p, m, Peek(m, argc), argc)

\* The result replaces the callee and everything above it.
HandleReturn(m) ==
    LET f == Last(m.fs)
        result == IF Len(m.stk) > f.base THEN Last(m.stk) ELSE NullV
    IN  [m EXCEPT !.fs = Front(@), !.hs = SubSeq(@, 1, f.hbase),
                  !.stk = Append(SubSeq(@, 1, f.base - 1), result),
                  !.st = IF Len(m.fs) = 1 THEN "done" ELSE @]

HandleGlobal(m, op, name) ==
    CASE op = "DEFINE_GLOBAL" -> [Drop(m, 1) EXCEPT !.glob = (name :> Last(m.stk)) @@ @]
      [] op = "GET_GLOBAL" -> PushValue(m, GlobalAt(m, name))
      [] op = "SET_GLOBAL" -> IF name \in DOMAIN m.glob
                              THEN [m EXCEPT !.glob[name] = Last(m.stk)]
                              ELSE Fail(m, "undefined")

HandleClosure(p, m, fn) ==
    LET n == p[fn].captures IN Alloc(Drop(m, n), "clo", [fn |-> fn, caps |-> TopOf(m, n)])

----------------------------------------------------------------------------
(* VirtualMachineDataOps.cpp *)

\* EncodeMapKey: only strings, integers and booleans are keys
IsKey(v) == v[1] \in {"str", "int", "bool"}

BuildArray(m, n) == Alloc(Drop(m, n), "arr", TopOf(m, n))

\* the pairs come off the stack last first, so the first of equal keys stays
BuildMap(m, n) ==
    LET top == TopOf(m, 2 * n)
        keys == {top[2 * i - 1] : i \in 1..n}
        FirstOf(k) == CHOOSE i \in 1..n : /\ top[2 * i - 1] = k
                                          /\ \A j \in 1..(i - 1) : top[2 * j - 1] # k
    IN  IF \A i \in 1..n : IsKey(top[2 * i - 1])
        THEN Alloc(Drop(m, 2 * n), "map", [k \in keys |-> top[2 * FirstOf(k)]])
        ELSE Fail(m, "key")

BuildStruct(m, n) == Alloc(Drop(m, n), "inst", TopOf(m, n))
BuildEnum(m, tag, n) == Alloc(Drop(m, n), "enum", [tag |-> tag, args |-> TopOf(m, n)])

\* the position an index value names in a sequence, 0 when there is none
PositionIn(s, v) == IF IsNumeric(v) /\ IntegerOf(v) + 1 \in DOMAIN s THEN IntegerOf(v) + 1 ELSE 0

HandleArrayIndexGet(m) ==
    LET c == Peek(m, 1) i == Peek(m, 0) m2 == Drop(m, 2)
    IN CASE c[1] = "map" -> IF ~IsKey(i) THEN Fail(m, "key")
                            ELSE IF i \in DOMAIN m.heap[c[2]] THEN PushValue(m2, m.heap[c[2]][i])
                            ELSE Fail(m, "missing")
         [] c[1] = "arr" -> IF PositionIn(m.heap[c[2]], i) # 0
                            THEN PushValue(m2, m.heap[c[2]][PositionIn(m.heap[c[2]], i)])
                            ELSE Fail(m, IF IsNumeric(i) THEN "bounds" ELSE "type")
         [] OTHER -> Fail(m, "type")

HandleArrayIndexSet(m) ==
    LET c == Peek(m, 2) i == Peek(m, 1) v == Peek(m, 0) m2 == PushValue(Drop(m, 3), v)
    IN CASE c[1] = "map" -> IF IsKey(i) THEN [m2 EXCEPT !.heap[c[2]] = (i :> v) @@ @]
                            ELSE Fail(m, "key")
         [] c[1] = "arr" -> IF PositionIn(m.heap[c[2]], i) # 0
                            THEN [m2 EXCEPT !.heap[c[2]][PositionIn(m.heap[c[2]], i)] = v]
                            ELSE Fail(m, IF IsNumeric(i) THEN "bounds" ELSE "type")
         [] OTHER -> Fail(m, "type")

HandleMemberGet(m, i) ==
    LET o == Peek(m, 0)
    IN  IF o[1] # "inst" THEN Fail(m, "type")
        ELSE IF i + 1 \in DOMAIN m.heap[o[2]] THEN PushValue(Drop(m, 1), m.heap[o[2]][i + 1])
        ELSE Fail(m, "field")

HandleMemberSet(m, i) ==
    LET o == Peek(m, 1) v == Peek(m, 0)
    IN  IF o[1] # "inst" THEN Fail(m, "type")
        ELSE IF i + 1 \in DOMAIN m.heap[o[2]]
        THEN [PushValue(Drop(m, 2), v) EXCEPT !.heap[o[2]][i + 1] = v]
        ELSE Fail(m, "field")

HandleModuleMemberGet(m, member) ==
    IF Peek(m, 0)[1] # "mod" THEN Fail(m, "type")
    ELSE PushValue(Drop(m, 1), GlobalAt(m, Append(Peek(m, 0)[2], member)))

HandleEnumTagGet(m) ==
    IF Peek(m, 0)[1] # "enum" THEN Fail(m, "type")
    ELSE PushValue(Drop(m, 1), IntV(m.heap[Peek(m, 0)[2]].tag))

HandleEnumArgGet(m, i) ==
    LET v == Peek(m, 0)
    IN  IF v[1] # "enum" THEN Fail(m, "type")
        ELSE IF i + 1 \in DOMAIN m.heap[v[2]].args
        THEN PushValue(Drop(m, 1), m.heap[v[2]].args[i + 1]) ELSE Fail(m, "bounds")

\* A pointer remembers a place: an absolute stack position, a capture of
\* whatever frame is current when it is used, a global, a part of an object.
HandleAddressOfLocal(m, slot) == PushValue(m, <<"ptr", "stack", Last(m.fs).base + slot + 1>>)
HandleAddressOfUpvalue(m, slot) == PushValue(m, <<"ptr", "upvalue", slot>>)
HandleAddressOfGlobal(m, name) == PushValue(m, <<"ptr", "global", name>>)
HandleAddressOfMember(m) ==
    LET c == Peek(m, 1) i == Peek(m, 0)
    IN  IF c[1] \notin {"arr", "inst"} THEN Fail(m, "type")
        ELSE IF PositionIn(m.heap[c[2]], i) = 0 THEN Fail(m, "bounds")
        ELSE PushValue(Drop(m, 2), <<"ptr", "part", c[2], PositionIn(m.heap[c[2]], i)>>)

HandleDerefGet(m) ==
    LET q == Peek(m, 0) m2 == Drop(m, 1)
    IN  IF q[1] # "ptr" THEN Fail(m, "type")
        ELSE PushValue(m2, CASE q[2] = "stack" -> IF q[3] \in DOMAIN m2.stk THEN m2.stk[q[3]] ELSE Wrong("local")
                             [] q[2] = "upvalue" -> UpvalueAt(m2, q[3])
                             [] q[2] = "global" -> IF q[3] \in DOMAIN m.glob THEN m.glob[q[3]] ELSE NullV
                             [] q[2] = "part" -> m.heap[q[3]][q[4]])

HandleDerefSet(m) ==
    LET q == Peek(m, 1) v == Peek(m, 0) m2 == Drop(m, 2)
    IN  IF q[1] # "ptr" THEN Fail(m, "type")
        ELSE PushValue(CASE q[2] = "stack" -> IF q[3] \in DOMAIN m2.stk THEN [m2 EXCEPT !.stk[q[3]] = v] ELSE Fail(m, "local")
                         [] q[2] = "upvalue" -> SetUpvalue(m2, q[3], v)
                         [] q[2] = "global" -> IF q[3] \in DOMAIN m.glob THEN [m2 EXCEPT !.glob[q[3]] = v] ELSE m2
                         [] q[2] = "part" -> [m2 EXCEPT !.heap[q[3]][q[4]] = v], v)

----------------------------------------------------------------------------
(* Iterators and the dispatch loop *)

AdapterOps == {"ITER_TAKE", "ITER_DROP", "ITER_REVERSE", "ITER_FILTER", "ITER_TRANSFORM"}
BasicOps == BinaryOps \cup {"CALL", "RETURN", "CONSTANT", "GET_LOCAL", "SET_LOCAL", "GET_UPVALUE", "SET_UPVALUE",
                            "DEFINE_GLOBAL", "GET_GLOBAL", "SET_GLOBAL", "CLOSURE", "NEGATE", "NOT"}
ControlOps == {"JUMP_IF_FALSE", "JUMP", "LOOP", "POP", "DUP", "SWAP"}
EffectOps == {"PRINT", "ASSERT", "BUILD_HANDLER", "PUSH_HANDLER", "POP_HANDLER", "EFFECT_INVOKE"}

RECURSIVE RunAbove(_, _, _)
RECURSIVE Exec(_, _)

\* Run, called again by an iterator for its callback: until the frames above k are gone
RunAbove(p, m, k) ==
    IF m.st # "run" \/ Len(m.fs) <= k THEN m ELSE RunAbove(p, Exec(p, m), k)

\* the machine after a callback, with its answer on top of the stack
CallBack(p, m, clo, v) ==
    LET m2 == PushValue(PushValue(m, <<"clo", clo>>), v)
    IN  RunAbove(p, PushFrame(m2, clo, Len(m2.stk) - 1), Len(m.fs))

(* The next value of iterator a: [m, has, v].                              *)
RECURSIVE IteratorNext(_, _, _)
NoMore(m) == [m |-> m, has |-> FALSE, v |-> NullV]

ArrayNext(m, a) ==
    LET it == m.heap[a]
    IN  IF it.n \in DOMAIN m.heap[it.src]
        THEN [m |-> [m EXCEPT !.heap[a].n = @ + 1], has |-> TRUE, v |-> m.heap[it.src][it.n]]
        ELSE NoMore(m)

\* take counts before it asks its source
TakeNext(p, m, a) ==
    IF m.heap[a].n > 0 THEN IteratorNext(p, [m EXCEPT !.heap[a].n = @ - 1], m.heap[a].src) ELSE NoMore(m)

\* drop skips once
DropNext(p, m, a) ==
    LET it == m.heap[a]
        RECURSIVE Skip(_, _)
        Skip(m2, n) == IF n <= 0 THEN m2 ELSE Skip(IteratorNext(p, m2, it.src).m, n - 1)
    IN  IteratorNext(p, [Skip(m, it.n) EXCEPT !.heap[a].n = 0], it.src)

TransformNext(p, m, a) ==
    LET r == IteratorNext(p, m, m.heap[a].src)
        m2 == CallBack(p, r.m, m.heap[a].fn, r.v)
    IN  IF ~r.has THEN NoMore(r.m)
        ELSE IF m2.st # "run" THEN NoMore(m2)
        ELSE [m |-> Drop(m2, 1), has |-> TRUE, v |-> Last(m2.stk)]

\* reverse drains its source the first time
ReverseNext(p, m, a) ==
    LET it == m.heap[a]
        RECURSIVE Drain(_, _)
        Drain(m2, buffer) ==
            LET r == IteratorNext(p, m2, it.src)
            IN  IF r.has THEN Drain(r.m, <<r.v>> \o buffer) ELSE [m |-> r.m, buffer |-> buffer]
        d == IF it.n = 0 THEN Drain(m, <<>>) ELSE [m |-> m, buffer |-> it.src]
        m3 == [d.m EXCEPT !.heap[a].n = 1,
                          !.heap[a].src = IF d.buffer = <<>> THEN <<>> ELSE Tail(d.buffer)]
    IN  IF d.buffer = <<>> THEN NoMore(m3) ELSE [m |-> m3, has |-> TRUE, v |-> Head(d.buffer)]

RECURSIVE FilterNext(_, _, _)
FilterNext(p, m, a) ==
    LET r == IteratorNext(p, m, m.heap[a].src)
        m2 == CallBack(p, r.m, m.heap[a].fn, r.v)
        keep == Truth(Last(m2.stk))
    IN  IF ~r.has THEN NoMore(r.m)
        ELSE IF m2.st # "run" THEN NoMore(m2)
        ELSE IF keep[1] = "err" THEN NoMore(Fail(m2, keep[2]))
        ELSE IF keep[2] THEN [m |-> Drop(m2, 1), has |-> TRUE, v |-> r.v]
        ELSE FilterNext(p, Drop(m2, 1), a)

IteratorNext(p, m, a) ==
    LET kind == m.heap[a].kind
    IN CASE kind = "array" -> ArrayNext(m, a)
         [] kind = "take" -> TakeNext(p, m, a)
         [] kind = "drop" -> DropNext(p, m, a)
         [] kind = "transform" -> TransformNext(p, m, a)
         [] kind = "reverse" -> ReverseNext(p, m, a)
         [] kind = "filter" -> FilterNext(p, m, a)

MakeIter(m) ==
    IF Peek(m, 0)[1] # "arr" THEN Fail(m, "type")
    ELSE Alloc(Drop(m, 1), "it", [kind |-> "array", src |-> Peek(m, 0)[2], n |-> 1, fn |-> 0])

\* AdapterOps
MakeAdapter(m, op) ==
    LET args == IF op = "ITER_REVERSE" THEN 0 ELSE 1
        src == Peek(m, args)
        arg == Peek(m, 0)
        kind == CASE op = "ITER_TAKE" -> "take" [] op = "ITER_DROP" -> "drop" [] op = "ITER_REVERSE" -> "reverse"
                  [] op = "ITER_FILTER" -> "filter" [] op = "ITER_TRANSFORM" -> "transform"
    IN  IF \/ src[1] # "it"
           \/ kind \in {"take", "drop"} /\ ~IsNumeric(arg)
           \/ kind \in {"filter", "transform"} /\ arg[1] # "clo"
        THEN Fail(m, "type")
        ELSE Alloc(Drop(m, args + 1), "it",
                   [kind |-> kind, src |-> src[2],
                    n |-> IF kind \in {"take", "drop"} THEN IntegerOf(arg) ELSE 0,
                    fn |-> IF kind \in {"filter", "transform"} THEN arg[2] ELSE 0])

\* the innermost handler map with that operation answers an effect
EffectInvoke(p, m, key, argc) ==
    LET levels == {i \in DOMAIN m.hs : key \in DOMAIN m.hs[i]}
        handler == m.hs[CHOOSE i \in levels : \A j \in levels : j <= i][key]
    IN  IF levels = {} THEN Fail(m, "unhandled")
        ELSE HandleResolvedCall(p, [m EXCEPT !.stk = SubSeq(@, 1, Len(@) - argc)
                                                     \o <<handler>> \o TopOf(m, argc)], handler, argc)

\* a later pair popped replaces an earlier one, so the first handler of an operation stays
BuildHandler(m, n) ==
    LET top == TopOf(m, 2 * n)
        keys == {top[2 * i][2] : i \in 1..n}
        FirstOf(k) == CHOOSE i \in 1..n : /\ top[2 * i][2] = k
                                          /\ \A j \in 1..(i - 1) : top[2 * j][2] # k
    IN  PushValue(Drop(m, 2 * n), <<"hmap", [k \in keys |-> top[2 * FirstOf(k) - 1]]>>)

\* values, variables, operators and jumps
DispatchBasic(p, m, ins) ==
    LET op == ins[1]
        truth == Truth(Peek(m, 0))
    IN
    CASE op \in BinaryOps -> PushValue(Drop(m, 2), Binary(m.heap, op, Peek(m, 1), Peek(m, 0)))
      [] op = "CALL" -> HandleCall(p, m, ins[2])
      [] op = "RETURN" -> HandleReturn(m)
      [] op = "CONSTANT" -> PushValue(m, ins[2])
      [] op = "GET_LOCAL" -> PushValue(m, LocalAt(m, ins[2]))
      [] op = "SET_LOCAL" -> SetLocal(m, ins[2], Peek(m, 0))
      [] op = "GET_UPVALUE" -> PushValue(m, UpvalueAt(m, ins[2]))
      [] op = "SET_UPVALUE" -> SetUpvalue(m, ins[2], Peek(m, 0))
      [] op \in {"DEFINE_GLOBAL", "GET_GLOBAL", "SET_GLOBAL"} -> HandleGlobal(m, op, ins[2])
      [] op = "CLOSURE" -> HandleClosure(p, m, ins[2])
      [] op = "NEGATE" -> PushValue(Drop(m, 1), Negated(Peek(m, 0)))
      [] op = "NOT" -> PushValue(Drop(m, 1), IF truth[1] = "err" THEN truth ELSE BoolV(~truth[2]))

DispatchControl(m, ins) ==
    LET op == ins[1]
        truth == Truth(Peek(m, 0))
    IN
    CASE op = "JUMP_IF_FALSE" -> IF truth[1] = "err" THEN Fail(m, truth[2])
                                 ELSE Jump(Drop(m, 1), IF truth[2] THEN 0 ELSE ins[2])
      [] op = "JUMP" -> Jump(m, ins[2])
      [] op = "LOOP" -> Jump(m, 0 - ins[2])
      [] op = "POP" -> Drop(m, 1)
      [] op = "DUP" -> PushValue(m, Peek(m, 0))
      [] op = "SWAP" -> [m EXCEPT !.stk = SubSeq(@, 1, Len(@) - 2) \o <<Peek(m, 0), Peek(m, 1)>>]

DispatchData(m, ins) ==
    LET op == ins[1] IN
    CASE op = "BUILD_ARRAY" -> BuildArray(m, ins[2])
      [] op = "BUILD_MAP" -> BuildMap(m, ins[2])
      [] op = "BUILD_STRUCT" -> BuildStruct(m, ins[2])
      [] op = "BUILD_ENUM" -> BuildEnum(m, ins[2], ins[3])
      [] op = "INDEX_GET" -> HandleArrayIndexGet(m)
      [] op = "INDEX_SET" -> HandleArrayIndexSet(m)
      [] op = "MEMBER_GET" -> HandleMemberGet(m, ins[2])
      [] op = "MEMBER_SET" -> HandleMemberSet(m, ins[2])
      [] op = "GET_MODULE_MEMBER" -> HandleModuleMemberGet(m, ins[2])
      [] op = "GET_ENUM_TAG" -> HandleEnumTagGet(m)
      [] op = "GET_ENUM_ARG" -> HandleEnumArgGet(m, ins[2])
      [] op = "ADDR_LOCAL" -> HandleAddressOfLocal(m, ins[2])
      [] op = "ADDR_UPVALUE" -> HandleAddressOfUpvalue(m, ins[2])
      [] op = "ADDR_GLOBAL" -> HandleAddressOfGlobal(m, ins[2])
      [] op = "ADDR_MEMBER" -> HandleAddressOfMember(m)
      [] op = "DEREF_GET" -> HandleDerefGet(m)
      [] op = "DEREF_SET" -> HandleDerefSet(m)

DispatchIterators(p, m, ins) ==
    LET op == ins[1]
        next == IteratorNext(p, m, Peek(m, 0)[2])
    IN
    CASE op = "MAKE_ITER" -> MakeIter(m)
      [] op \in AdapterOps -> MakeAdapter(m, op)
      [] op = "ITER_NEXT" -> IF Peek(m, 0)[1] # "it" THEN Fail(m, "type")
                             ELSE IF next.has THEN PushValue(next.m, next.v) ELSE Jump(next.m, ins[2])

DispatchEffects(p, m, ins) ==
    LET op == ins[1]
        truth == Truth(Peek(m, 0))
    IN
    CASE op = "PRINT" -> [Drop(m, 1) EXCEPT !.out = Append(@, Text(m.heap, Peek(m, 0)))]
      [] op = "ASSERT" -> IF truth[1] = "err" THEN Fail(m, truth[2])
                          ELSE IF truth[2] THEN Drop(m, 1) ELSE Fail(m, "contract")
      [] op = "BUILD_HANDLER" -> BuildHandler(m, ins[2])
      [] op = "PUSH_HANDLER" -> [Drop(m, 1) EXCEPT !.hs = Append(@, Peek(m, 0)[2])]
      [] op = "POP_HANDLER" -> IF m.hs = <<>> THEN Fail(m, "handler") ELSE [m EXCEPT !.hs = Front(@)]
      [] op = "EFFECT_INVOKE" -> EffectInvoke(p, m, ins[2], ins[3])

(* Dispatch: the effect of one instruction, the instruction pointer being  *)
(* already behind it.                                                      *)
Dispatch(p, m, ins) ==
    LET op == ins[1] IN
    CASE op \in BasicOps -> DispatchBasic(p, m, ins)
      [] op \in ControlOps -> DispatchControl(m, ins)
      [] op \in {"MAKE_ITER", "ITER_NEXT"} \cup AdapterOps -> DispatchIterators(p, m, ins)
      [] op \in EffectOps -> DispatchEffects(p, m, ins)
      [] op \in External -> Fail(m, "ext")
      [] OTHER -> DispatchData(m, ins)

\* Run: fetch, advance, dispatch; the end of the code returns
Exec(p, m) ==
    LET f == Last(m.fs)
        code == p[f.fn].code
        ins == IF f.ip > Len(code) THEN <<"RETURN">> ELSE code[f.ip]
    IN  IF ins[1] # "RETURN" /\ Pops(ins, p) > Len(m.stk) THEN Fail(m, "underflow")
        ELSE Dispatch(p, IF f.ip > Len(code) THEN m ELSE Jump(m, SizeOf(ins[1])), ins)

\* natives the compiled code itself refers to
Natives == {<<"__task_go">>, <<"__task_await">>, <<"std", "sync_native", "mutex">>}

\* Interpret: the top level runs as a closure at the bottom of the stack
Start(p) ==
    [fs |-> <<[fn |-> Len(p), clo |-> 1, ip |-> 1, base |-> 1, hbase |-> 0]>>,
     stk |-> <<<<"clo", 1>>>>, heap |-> <<[fn |-> Len(p), caps |-> <<>>]>>,
     glob |-> [n \in Natives |-> <<"nat", n>>], hs |-> <<>>, out |-> <<>>, st |-> "run"]

=============================================================================
