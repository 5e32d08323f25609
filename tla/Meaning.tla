-------------------------------- MODULE Meaning --------------------------------
(***************************************************************************)
(* What a nord program means, on its syntax tree: names have lexical scope,  *)
(* operands are evaluated from left to right, a call binds its arguments in  *)
(* a scope of its own and leaves every other variable alone, a function's    *)
(* value is what it returns or else its last expression.  It says nothing of *)
(* registers, stacks and jumps; the compiler and the machine are measured    *)
(* against it.                                                               *)
(*                                                                           *)
(* An evaluation carries the scopes (innermost last), what was printed, the  *)
(* last value and whether a return was met.                                  *)
(***************************************************************************)
EXTENDS Integers, Sequences, FiniteSets

CONSTANTS WrapNumber(_),    (* the arithmetic of the machine's integers *)
          NumberText(_)     (* the text of a number *)

Thing(type, number, text, items) ==
  [type |-> type, number |-> number, text |-> text, items |-> items]
Num(n)    == Thing("INT", n, <<>>, <<>>)
Truth(b)  == Thing("BOOLEAN", IF b THEN 1 ELSE 0, <<>>, <<>>)
Text(t)   == Thing("STRING", 0, t, <<>>)
List(s)   == Thing("TUPLE", 0, <<>>, s)
None      == Thing("NIL", 0, <<>>, <<>>)
Newline   == Thing("ABSENT", 0, <<>>, <<>>)
Closure(depth, ast) == [type |-> "FUNCTION", depth |-> depth, ast |-> ast]

Truthy(v) == IF v.type = "STRING" THEN v.text # <<>> ELSE v.number # 0

Same(l, r) ==
  IF {l.type, r.type} \subseteq {"INT", "BOOLEAN"} THEN l.number = r.number ELSE l = r

BinaryValue(op, l, r) ==
  CASE op = "+" /\ l.type = "STRING" -> Text(l.text \o r.text)
    [] op = "+" /\ l.type # "STRING" -> Num(WrapNumber(l.number + r.number))
    [] op = "-" -> Num(WrapNumber(l.number - r.number))
    [] op = "*" -> Num(WrapNumber(l.number * r.number))
    [] op = "%" -> Num(l.number % r.number)
    [] op = "and" -> Truth(Truthy(l) /\ Truthy(r))
    [] op = "or" -> Truth(Truthy(l) \/ Truthy(r))
    [] op = "==" -> Truth(Same(l, r))
    [] op = "!=" -> Truth(~Same(l, r))
    [] op = "<" -> Truth(l.number < r.number)
    [] op = "<=" -> Truth(l.number <= r.number)
    [] op = ">" -> Truth(l.number > r.number)
    [] op = ">=" -> Truth(l.number >= r.number)

UnaryValue(op, v) ==
  CASE op = "-" -> Num(WrapNumber(-v.number))
    [] op = "!" -> Truth(~Truthy(v))
    [] op = "return" -> v

(* Both ends belong to a range, which is empty when they are equal.          *)
RangeItems(x, y) ==
  CASE x = y -> <<>>
    [] x < y -> [i \in 1 .. y - x + 1 |-> Num(x + i - 1)]
    [] OTHER -> [i \in 1 .. x - y + 1 |-> Num(x - i + 1)]

TypeText(v) ==
  CASE v.type = "INT" -> "integer" [] v.type = "BOOLEAN" -> "boolean"
    [] v.type = "STRING" -> "string" [] v.type = "TUPLE" -> "tuple"
    [] v.type = "NIL" -> "nil" [] v.type = "FUNCTION" -> "function"
-------------------------------------------------------------------------------
Scopes(env, scopes) == [env EXCEPT !.scopes = scopes]
Yield(env, v) == [env EXCEPT !.value = v]
Enter(env, scope) == Scopes(env, Append(env.scopes, scope))
Leave(env) == Scopes(env, SubSeq(env.scopes, 1, Len(env.scopes) - 1))
With(scope, name, v) == [x \in DOMAIN scope \cup {name} |-> IF x = name THEN v ELSE scope[x]]
Holder(env, name) ==
  CHOOSE i \in DOMAIN env.scopes :
    /\ name \in DOMAIN env.scopes[i]
    /\ \A j \in i + 1 .. Len(env.scopes) : name \notin DOMAIN env.scopes[j]
Bound(env, name) == \E i \in DOMAIN env.scopes : name \in DOMAIN env.scopes[i]
ValueOf(env, name) == env.scopes[Holder(env, name)][name]
SetIn(env, i, name, v) == [env EXCEPT !.scopes[i] = With(@, name, v), !.value = v]

RECURSIVE Eval(_, _)
RECURSIVE EvalEach(_, _)
RECURSIVE EvalItems(_, _, _)
RECURSIVE Repeat(_, _, _)

(* Statements in order, up to a return.                                      *)
EvalEach(asts, env) ==
  IF asts = <<>> \/ env.returned THEN env ELSE EvalEach(Tail(asts), Eval(Head(asts), env))

EvalItems(asts, env, items) ==
  IF asts = <<>> THEN [env EXCEPT !.items = items]
  ELSE LET one == Eval(Head(asts), env)
       IN  EvalItems(Tail(asts), one, Append(items, one.value))

EvalBlock(ast, env) ==
  LET inner == Enter(env, <<>>)
  IN  Leave(IF ast.node = "list" THEN EvalEach(ast.items, inner) ELSE Eval(ast, inner))

(* One evaluation of the body for each item, with the item bound to var.     *)
Repeat(ast, env, items) ==
  IF items = <<>> \/ env.returned THEN env
  ELSE Repeat(ast, Leave(EvalBlock(ast.body, Enter(env, With(<<>>, ast.var, Head(items))))),
              Tail(items))

Builtin(name, env) ==
  LET args == env.items
  IN  CASE name = "print" ->
             Yield([env EXCEPT !.output =
                      Append(@, IF args = <<>> THEN Newline ELSE Head(args))], Truth(TRUE))
        [] name = "tuple"  -> Yield(env, List(args))
        [] name = "type"   -> Yield(env, Text(<< TypeText(Head(args)) >>))
        [] name = "int"    -> Yield(env, Num(Head(args).number))
        [] name = "string" ->
             Yield(env, Text(<< IF Head(args).type = "INT" THEN NumberText(Head(args).number)
                                ELSE IF Truthy(Head(args)) THEN "true" ELSE "false" >>))

(* A function sees the scopes it was declared in, not its caller's.          *)
Apply(fn, env) ==
  LET params == [i \in DOMAIN fn.ast.args |-> fn.ast.args[i].name]
      frame  == [x \in {params[i] : i \in DOMAIN params} |->
                   env.items[CHOOSE i \in DOMAIN params : params[i] = x]]
      own    == SubSeq(env.scopes, 1, fn.depth)
      done   == EvalBlock(fn.ast.body, Enter(Scopes(env, own), frame))
  IN  [Scopes(done, SubSeq(done.scopes, 1, fn.depth)
                      \o SubSeq(env.scopes, fn.depth + 1, Len(env.scopes)))
         EXCEPT !.returned = FALSE]

Call(name, env) ==
  IF Bound(env, name) THEN Apply(ValueOf(env, name), env) ELSE Builtin(name, env)

Eval(ast, env) ==
  CASE ast.node = "list"   -> EvalBlock(ast, env)
    [] ast.node = "num"    -> Yield(env, Num(ast.number))
    [] ast.node = "str"    -> Yield(env, Text(ast.text))
    [] ast.node = "bool"   -> Yield(env, Truth(ast.truth))
    [] ast.node = "nil"    -> Yield(env, None)
    [] ast.node = "id"     -> Yield(env, ValueOf(env, ast.name))
    [] ast.node = "unary"  ->
         LET e == Eval(ast.operand, env)
         IN  [Yield(e, UnaryValue(ast.op, e.value)) EXCEPT
                !.returned = @ \/ ast.op = "return"]
    [] ast.node = "binary" ->
         LET l == Eval(ast.left, env)
             r == Eval(ast.right, l)
         IN  Yield(r, BinaryValue(ast.op, l.value, r.value))
    [] ast.node = "declare" ->
         LET e == Eval(ast.initial, env) IN SetIn(e, Len(e.scopes), ast.name, e.value)
    [] ast.node = "assign" ->
         LET e == Eval(ast.value, env) IN SetIn(e, Holder(e, ast.name), ast.name, e.value)
    [] ast.node = "fn"     -> SetIn(env, Len(env.scopes), ast.name,
                                    Closure(Len(env.scopes), ast))
    [] ast.node = "call"   -> Call(ast.name, EvalItems(ast.args, env, <<>>))
    [] ast.node = "tuple"  ->
         LET e == EvalItems(ast.elements, env, <<>>) IN Yield(e, List(e.items))
    [] ast.node = "range"  ->
         LET b == Eval(ast.begin, env)
             e == Eval(ast.end, b)
         IN  Yield(e, List(RangeItems(b.value.number, e.value.number)))
    [] ast.node = "if"     ->
         LET c == Eval(ast.condition, env)
         IN  IF Truthy(c.value) THEN EvalBlock(ast.body, c) ELSE c
    [] ast.node = "for"    ->
         LET e == Eval(ast.iterable, env) IN Repeat(ast, e, e.value.items)

(* Everything the program prints.                                            *)
Meant(ast) ==
  Eval(ast, [scopes |-> << <<>> >>, output |-> <<>>, value |-> None, items |-> <<>>,
             returned |-> FALSE]).output
===============================================================================
