------------------------------- MODULE Compiler -------------------------------
(***************************************************************************)
(* compiler/compile.c: from the syntax tree of a program to the binary the   *)
(* virtual machine runs.  Each operator is one compile_* function; it maps a *)
(* compile_context_t to the context it leaves, whose fields `at' and `type'  *)
(* are the compile_result_t it returns (and `body' the result's code block). *)
(*                                                                           *)
(* Scopes are functions from names to symbols: what symbol.c promises of its *)
(* hash maps.  A program the compiler rejects (exit(1)) has `error' set.     *)
(* Import, exports and member access are not translated.                     *)
(***************************************************************************)
EXTENDS VM, SequencesExt

CONSTANT ImmediateHalf   (* an immediate holds -ImmediateHalf .. ImmediateHalf - 1 (2^15) *)

ASSUME ImmediateAssumption ==
  ImmediateHalf \in Nat \ {0} /\ ImmediateHalf <= NumberHalf

(* Registers are numbered in a uint8_t, immediates kept in an int16_t.       *)
Byte(n) == n % 256
Immediate(n) == ((n + ImmediateHalf) % (2 * ImmediateHalf)) - ImmediateHalf

Ins(op, a, b, c) == [op |-> op, a |-> a, b |-> b, c |-> c]
Emit(ctx, ins) == [ctx EXCEPT !.code = @ \o ins]
Result(ctx, at, type) == [ctx EXCEPT !.at = at, !.type = type]
Reserve(ctx, n) == [ctx EXCEPT !.rp = Byte(@ + n)]
Reject(ctx, why) == [ctx EXCEPT !.error = IF @ = "" THEN why ELSE @]

(* memory_set(data, mp++, value)                                             *)
NextAddress(ctx) == Len(ctx.data)
PutData(ctx, v) == [ctx EXCEPT !.data = Append(@, v)]
PutText(ctx, text) ==
  PutData([ctx EXCEPT !.strings = Append(@, text)], Ref("STRING", Len(ctx.strings) + 1))
-------------------------------------------------------------------------------
(* Symbols.                                                                  *)
Symbol(kind, loc, address) == [kind |-> kind, loc |-> loc, address |-> address]
Undefined == Symbol("NONE", "UNDEF", 0)

OpenScope(ctx)  == [ctx EXCEPT !.scopes = Append(@, <<>>)]
CloseScope(ctx) == [ctx EXCEPT !.scopes = Front(@)]
Bind(scope, name, sym) == [x \in DOMAIN scope \cup {name} |-> IF x = name THEN sym ELSE scope[x]]
Define(ctx, name, sym) == [ctx EXCEPT !.scopes[Len(ctx.scopes)] = Bind(@, name, sym)]
DefineGlobal(ctx, name, sym) == [ctx EXCEPT !.scopes[1] = Bind(@, name, sym)]

Lookup(ctx, name) ==
  LET holders == {i \in DOMAIN ctx.scopes : name \in DOMAIN ctx.scopes[i]}
  IN  IF holders = {} THEN Undefined ELSE ctx.scopes[Max(holders)][name]

ArithmeticCast(l, r) ==
  CASE "UNKNOWN" \in {l, r} -> "UNKNOWN"
    [] l = r -> l
    [] "FLOAT" \in {l, r} -> "FLOAT"
    [] "STRING" \in {l, r} -> "STRING"
    [] OTHER -> "UNKNOWN"
-------------------------------------------------------------------------------
RECURSIVE CompileAst(_, _)
RECURSIVE CompileEach(_, _)
RECURSIVE CompileOperands(_, _, _)
RECURSIVE CompileArguments(_, _, _)

CompileEach(asts, ctx) ==
  IF asts = <<>> THEN ctx ELSE CompileEach(Tail(asts), CompileAst(Head(asts), ctx))

(* The values of a list, each in a register of its own unless it already     *)
(* lives in one; the registers are collected in `args'.                      *)
CompileOperands(asts, ctx, args) ==
  IF asts = <<>> THEN [ctx EXCEPT !.args = args]
  ELSE LET one == CompileAst(Head(asts), ctx)
       IN  CompileOperands(Tail(asts), IF one.at = one.rp THEN Reserve(one, 1) ELSE one,
                           Append(args, one.at))

(* Mutant: pushed in the order written, popped in reverse.                   *)
PushAllInOrder(regs) == [i \in DOMAIN regs |-> Ins("PUSH", 0, regs[i], 0)]

PushAll(regs) == [i \in DOMAIN regs |-> Ins("PUSH", 0, regs[Len(regs) - i + 1], 0)]

(* Mutant: register 0 keeps whatever count it had.                           *)
WriteOutUncounted(ctx, name, args) ==
  LET known == Lookup(ctx, name).loc # "UNDEF"
      own   == IF known THEN ctx
               ELSE DefineGlobal(PutText(ctx, <<name>>), name,
                                 Symbol("FN", "BUILTIN", NextAddress(ctx)))
  IN  Result(Emit(own, PushAll(args) \o
                       << Ins("CALL_DYNAMIC", 0, Lookup(own, name).address, 0),
                          Ins("POP", 0, own.rp, 0) >>),
             own.rp, "UNKNOWN")

WriteOutBuiltin(ctx, name, args) ==
  LET known == Lookup(ctx, name).loc # "UNDEF"
      own   == IF known THEN ctx
               ELSE DefineGlobal(PutText(ctx, <<name>>), name,
                                 Symbol("FN", "BUILTIN", NextAddress(ctx)))
  IN  Result(Emit(own, PushAll(args) \o
                       << Ins("LOADV", 0, Immediate(Len(args)), 0),
                          Ins("CALL_DYNAMIC", 0, Lookup(own, name).address, 0),
                          Ins("POP", 0, own.rp, 0) >>),
             own.rp, "UNKNOWN")

(* The statements of a block, in a scope and a code block of their own.      *)
CompileStatementList(ast, ctx) ==
  LET inner == OpenScope([ctx EXCEPT !.code = <<>>])
      done  == IF ast.node = "list" THEN CompileEach(ast.items, inner)
               ELSE CompileAst(ast, inner)
  IN  [CloseScope(done) EXCEPT !.code = ctx.code, !.body = done.code]

CompileIdentifier(name, ctx) ==
  LET sym == Lookup(ctx, name)
  IN  CASE sym.loc = "UNDEF" -> Reject(ctx, "undeclared")
        [] sym.loc # "UNDEF" /\ sym.kind = "FN" ->
             Result(ctx, Byte(sym.address), "FUNCTION")
        [] sym.loc = "MEMORY" /\ sym.kind # "FN" ->
             Result(Reserve(Define(Emit(ctx, << Ins("LOAD", ctx.rp, sym.address, 0) >>),
                                   name, Symbol(sym.kind, "REGISTER", ctx.rp)), 1),
                    ctx.rp, "UNKNOWN")
        [] OTHER -> Result(ctx, Byte(sym.address), "UNKNOWN")

CompileLiteral(ast, ctx) ==
  LET load == << Ins("LOAD", ctx.rp, NextAddress(ctx), 0) >>
  IN  CASE ast.node = "num" ->
             Result(Emit(ctx, << Ins("LOADV", ctx.rp, Immediate(ast.number), 0) >>),
                    ctx.rp, "INT")
        [] ast.node = "str" -> Result(Emit(PutText(ctx, ast.text), load), ctx.rp, "STRING")
        [] ast.node = "flt" -> Result(Emit(PutData(ctx, Float), load), ctx.rp, "FLOAT")
        [] ast.node = "bool" ->
             Result(Emit(ctx, << Ins("LOAD", ctx.rp, IF ast.truth THEN 1 ELSE 0, 0) >>),
                    ctx.rp, "BOOLEAN")
        [] ast.node = "nil" ->
             Result(Emit(ctx, << Ins("NIL", 0, ctx.rp, 0) >>), ctx.rp, "NIL")
        [] ast.node = "id" -> CompileIdentifier(ast.name, ctx)

CompileTuple(ast, ctx) ==
  LET done == [CompileOperands(ast.elements, ctx, <<>>) EXCEPT !.rp = ctx.rp]
  IN  Result(PutText(Emit(done, PushAll(done.args) \o
                                << Ins("LOADV", 0, Immediate(Len(done.args)), 0),
                                   Ins("CALL_DYNAMIC", 0, NextAddress(done), 0),
                                   Ins("POP", 0, ctx.rp, 0) >>), <<"tuple">>),
             ctx.rp, "TUPLE")

CompileRange(ast, ctx) ==
  LET begin == CompileAst(ast.begin, ctx)
      end   == CompileAst(ast.end, Reserve(begin, 1))
  IN  WriteOutBuiltin([end EXCEPT !.rp = ctx.rp], "range", << begin.at, end.at >>)

CompileUnary(ast, ctx) ==
  LET right == CompileAst(ast.operand, ctx)
      op    == CASE ast.op = "-" -> Ins("NEGATE", right.rp, right.at, 0)
                 [] ast.op = "!" -> Ins("NOT", right.rp, right.at, 0)
                 [] ast.op = "return" -> Ins("RETURN", 0, right.at, 0)
  IN  Result(Emit(right, << op >>), right.rp, right.type)

(* False, the comparison, and true unless the comparison skips it.           *)
CompileBinaryComparison(op, base, wanted, l, r) ==
  << Ins("LOAD", base, 0, 0), Ins(op, wanted, l, r), Ins("LOAD", base, 1, 0) >>

CompileBinary(ast, ctx) ==
  LET left  == CompileAst(ast.left, ctx)
      right == Reserve(CompileAst(ast.right, Reserve(left, 1)), -1)
      rp    == right.rp
      cast  == ArithmeticCast(left.type, right.type)
      plain(op, type) == Result(Emit(right, << Ins(op, rp, left.at, right.at) >>), rp, type)
      compare(op, base, wanted) ==
        CompileBinaryComparison(op, Byte(rp + base), wanted, left.at, right.at)
      moved(op, wanted) ==
        Result(Emit(right, compare(op, 2, wanted)
                             \o << Ins("MOVE", rp, Byte(rp + 2), 0) >>), rp, "BOOLEAN")
      either(wanted) ==
        Result(Emit(right, compare("LESSTHAN", 2, wanted) \o compare("EQUAL", 3, 1)
                             \o << Ins("OR", rp, Byte(rp + 2), Byte(rp + 3)) >>),
               rp, "BOOLEAN")
  IN  CASE ast.op = "+" -> plain("ADD", cast)
        [] ast.op = "-" -> plain("SUBTRACT", cast)
        [] ast.op = "*" -> plain("MULTIPLY", cast)
        [] ast.op = "/" -> plain("DIVIDE", "FLOAT")
        [] ast.op = "%" -> IF left.type = "INT" /\ right.type = "INT"
                           THEN plain("MODULO", cast)
                           ELSE Reject(right, "modulo")
        [] ast.op = "and" -> plain("AND", "BOOLEAN")
        [] ast.op = "or" -> plain("OR", "BOOLEAN")
        [] ast.op = "==" -> moved("EQUAL", 1)
        [] ast.op = "!=" -> moved("EQUAL", 0)
        [] ast.op = "<" -> moved("LESSTHAN", 1)
        [] ast.op = "<=" -> either(1)
        [] ast.op = ">" -> moved("LESSTHAN", 0)
        [] ast.op = ">=" -> either(0)
-------------------------------------------------------------------------------
(* Declarations and assignments.                                             *)

CompileAssign(ast, ctx) ==
  LET sym   == Lookup(ctx, ast.name)
      value == CompileAst(ast.value, ctx)
  IN  CASE sym.loc = "UNDEF" -> Reject(ctx, "undeclared")
        [] sym.kind = "CONSTANT" -> Reject(ctx, "immutable")
        [] value.type = "FUNCTION" ->
             Result(Define(value, ast.name, Symbol(sym.kind, "MEMORY", value.at)),
                    value.at, "FUNCTION")
        [] OTHER -> Result(Emit(value, << Ins("MOVE", Byte(sym.address), value.at, 0) >>),
                           Byte(sym.address), value.type)

CompileDeclare(ast, ctx) ==
  LET kind  == IF ast.var THEN "VAR" ELSE "CONSTANT"
      value == CompileAst(ast.initial, ctx)
      loc   == IF value.type = "FUNCTION" THEN "MEMORY" ELSE "REGISTER"
  IN  IF ast.initial.node = "none"
      THEN Result(Define(ctx, ast.name, Symbol(kind, "NONE", 0)), 0, "ABSENT")
      ELSE Result(Define(Reserve(value, 1), ast.name, Symbol(kind, loc, value.at)),
                  value.at, value.type)

(* The arguments take the registers from rp on; locals lists them and the    *)
(* one after.                                                                *)
DefineArguments(ctx, args) ==
  LET from == ctx.rp
      bind(i, c) == Define(c, args[i].name, Symbol("VAR", "REGISTER", Byte(from + i - 1)))
  IN  Reserve(FoldRight(bind, [i \in DOMAIN args |-> i], ctx), Len(args))

(* Mutant: only explicit returns are written.                                *)
NoImplicitReturn(ins, at) == ins

(* An empty body has no last instruction: compile.c reads before its array,  *)
(* and the program is left out like those whose rejection is "undefined".    *)
ImplicitReturn(ins, at) ==
  IF Last(ins).op = "RETURN" THEN ins ELSE Append(ins, Ins("RETURN", 0, at, 0))

CompileFnDeclaration(ast, ctx) ==
  LET regionOf == Len(ctx.blocks)
      symbol   == Symbol("FN", "MEMORY", NextAddress(ctx))
      proto    == [region |-> regionOf, nargs |-> Len(ast.args), low |-> ctx.rp,
                   locals |-> [i \in 1 .. Len(ast.args) + 1 |-> Byte(ctx.rp + i - 1)]]
      opened   == OpenScope([PutData(ctx, Ref("FUNCTION", Len(ctx.functions) + 1)) EXCEPT
                               !.functions = Append(@, proto),
                               !.blocks = Append(@, <<>>),
                               !.code = <<>>])
      body     == CompileAst(ast.body, DefineArguments(Define(opened, ast.name, symbol),
                                                       ast.args))
      closed   == CloseScope([body EXCEPT
                    !.blocks[regionOf + 1] = ImplicitReturn(body.code, body.at),
                    !.code = ctx.code, !.rp = ctx.rp])
  IN  IF body.code = <<>> THEN Reject(body, "undefined")
      ELSE Result(Define(closed, ast.name, symbol), symbol.address, "FUNCTION")
-------------------------------------------------------------------------------
(* Calls.                                                                    *)

CompileFnCallBuiltin(ast, ctx) ==
  LET done == CompileOperands(ast.args, ctx, <<>>)
  IN  WriteOutBuiltin(done, ast.name, done.args)

(* Each argument is moved to the callee's register for it as soon as it is   *)
(* computed.                                                                 *)
CompileArguments(asts, ctx, locals) ==
  IF asts = <<>> THEN ctx
  ELSE LET one  == CompileAst(Head(asts), ctx)
           move == IF one.at = Head(locals) THEN <<>>
                   ELSE << Ins("MOVE", Head(locals), one.at, 0) >>
       IN  CompileArguments(Tail(asts), Reserve(Emit(one, move), 1), Tail(locals))

(* Any datum is taken for the function_t it should point to; what happens    *)
(* when it is not one is undefined, and such a program is left out here as   *)
(* if it were rejected.                                                      *)
HoldsFunction(ctx, address) ==
  address + 1 \in DOMAIN ctx.data /\ ctx.data[address + 1].type = "FUNCTION"

CompileFnCallNative(ast, ctx) ==
  LET address == Lookup(ctx, ast.name).address
      fn    == ctx.functions[ctx.data[address + 1].contents]
      kept  == SelectSeq([i \in 1 .. fn.nargs |-> fn.locals[i]], LAMBDA r : r < ctx.rp)
      pushes == [i \in DOMAIN kept |-> Ins("PUSH", 0, kept[i], 0)]
      pops   == [i \in DOMAIN kept |-> Ins("POP", 0, kept[Len(kept) - i + 1], 0)]
      args  == CompileArguments(ast.args, Emit(ctx, pushes), fn.locals)
  IN  CASE ~HoldsFunction(ctx, address) -> Reject(ctx, "undefined")
        [] HoldsFunction(ctx, address) /\ Len(ast.args) # fn.nargs -> Reject(ctx, "arguments")
        [] OTHER ->
             Result(Emit([args EXCEPT !.rp = ctx.rp],
                         << Ins("CALL", 0, address, 0), Ins("POP", 0, ctx.rp, 0) >> \o pops),
                    ctx.rp, "UNKNOWN")

(* A name bound to a register is called by no code at all.                   *)
CompileFnCall(ast, ctx) ==
  CASE Lookup(ctx, ast.name).loc = "MEMORY" -> CompileFnCallNative(ast, ctx)
    [] Lookup(ctx, ast.name).loc \in {"BUILTIN", "UNDEF"} -> CompileFnCallBuiltin(ast, ctx)
    [] OTHER -> Result(ctx, 0, "ABSENT")
-------------------------------------------------------------------------------
(* Control flow.                                                             *)

CompileIfStatement(ast, ctx) ==
  LET cond == CompileAst(ast.condition, ctx)
      then == CompileStatementList(ast.body, cond)
      jump == IF then.at = then.rp THEN Byte(then.rp + 1) ELSE then.rp
      test == Byte(jump + 1)
  IN  Result([Emit(then, << Ins("LOADV", jump, Immediate(Len(then.body) + 1), 0),
                            Ins("LOAD", test, 1, 0),
                            Ins("EQUAL", 0, test, cond.at),
                            Ins("JMP", 0, jump, 0) >> \o then.body) EXCEPT !.rp = ctx.rp],
             ctx.rp, "UNKNOWN")

CompileForStatement(ast, ctx) ==
  LET over  == CompileAst(ast.iterable, ctx)
      made  == WriteOutBuiltin(over, "iter", << over.at >>)
      iter  == made.at
      var   == Byte(iter + 1)
      nil   == Byte(iter + 2)
      open  == OpenScope(Emit(Reserve(made, 3), << Ins("NIL", 0, nil, 0) >>))
      bound == IF ast.var = "" THEN open
               ELSE Define(open, ast.var, Symbol("VAR", "REGISTER", var))
      loop  == CompileStatementList(ast.body, bound)
      size  == Len(loop.body)
      turns == << Ins("DEREF", var, iter, 1),
                  Ins("LOADV", loop.rp, Immediate(size + 3), 0),
                  Ins("EQUAL", 1, var, nil),
                  Ins("JMP", 0, loop.rp, 0) >> \o loop.body \o
               << Ins("LOADV", loop.rp, Immediate(-(size + 5)), 0),
                  Ins("JMP", 0, loop.rp, 0) >>
      done  == CloseScope(Reserve(Emit(loop, turns), -2))
  IN  Result(done, done.rp, "UNKNOWN")
-------------------------------------------------------------------------------
(* A diagnostic is printed and the compiler exits.                           *)
CompileAst(ast, ctx) ==
  CASE ctx.error # "" -> ctx
    [] ast.node = "list" ->
         LET done == CompileStatementList(ast, ctx) IN Emit(done, done.body)
    [] ast.node \in {"num", "str", "flt", "bool", "nil", "id"} -> CompileLiteral(ast, ctx)
    [] ast.node = "unary"   -> CompileUnary(ast, ctx)
    [] ast.node = "binary"  -> CompileBinary(ast, ctx)
    [] ast.node = "declare" -> CompileDeclare(ast, ctx)
    [] ast.node = "assign"  -> CompileAssign(ast, ctx)
    [] ast.node = "fn"      -> CompileFnDeclaration(ast, ctx)
    [] ast.node = "call"    -> CompileFnCall(ast, ctx)
    [] ast.node = "tuple"   -> CompileTuple(ast, ctx)
    [] ast.node = "range"   -> CompileRange(ast, ctx)
    [] ast.node = "if"      -> CompileIfStatement(ast, ctx)
    [] ast.node = "for"     -> CompileForStatement(ast, ctx)

(* context_create: false and true at addresses 0 and 1, registers from 1 on. *)
Context ==
  [scopes |-> << <<>> >>, data |-> << Boolean(0), Boolean(1) >>, strings |-> <<>>,
   functions |-> <<>>, blocks |-> << <<>> >>, code |-> <<>>, body |-> <<>>, args |-> <<>>,
   rp |-> 1, at |-> 0, type |-> "ABSENT", error |-> ""]

Compiled(ast) == CompileAst(ast, Context)
Accepts(ast)  == Compiled(ast).error = ""

(* The binary_t compile() leaves.                                            *)
Assembled(done) ==
  [code      |-> [done.blocks EXCEPT ![1] = done.code],
   data      |-> [a \in 0 .. Len(done.data) - 1 |-> done.data[a + 1]],
   strings   |-> done.strings,
   functions |-> done.functions]
BinaryOf(ast) == Assembled(Compiled(ast))
===============================================================================
