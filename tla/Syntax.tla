-------------------------------- MODULE Syntax --------------------------------
(***************************************************************************)
(* The syntax trees parse.c hands to the compiler, one constructor per       *)
(* make_*_expr.  Every kind of node has field names of its own.  A group is  *)
(* the tree inside it (compile.c:883).                                       *)
(***************************************************************************)
EXTENDS Sequences

(* make_literal_expr, by the type of the token                               *)
LNum(n)   == [node |-> "num", number |-> n]
LStr(s)   == [node |-> "str", text |-> s]      (* a sequence of pieces *)
LFloat    == [node |-> "flt"]
LBool(b)  == [node |-> "bool", truth |-> b]
LNil      == [node |-> "nil"]
Id(name)  == [node |-> "id", name |-> name]

Un(op, e)     == [node |-> "unary", op |-> op, operand |-> e]
Bin(op, l, r) == [node |-> "binary", op |-> op, left |-> l, right |-> r]
Items(s)      == [node |-> "tuple", elements |-> s]
RangeOf(b, e) == [node |-> "range", begin |-> b, end |-> e]
CallOf(f, s)  == [node |-> "call", name |-> f, args |-> s]

SetTo(x, e)   == [node |-> "assign", name |-> x, value |-> e]
NoInitial     == [node |-> "none"]
Declare(var, x, e) == [node |-> "declare", var |-> var, name |-> x, initial |-> e]
Var(x, e) == Declare(TRUE, x, e)
Let(x, e) == Declare(FALSE, x, e)

Statements(s)  == [node |-> "list", items |-> s]
(* The list of arguments is a list of expressions, of which compile.c takes  *)
(* the names (compile.c:579).                                                *)
FnOf(f, list, s) == [node |-> "fn", name |-> f, args |-> list, body |-> Statements(s)]
Fn(f, names, s)  == FnOf(f, [i \in DOMAIN names |-> Id(names[i])], s)
Anonymous      == "__anonymous"
If(c, s)       == [node |-> "if", condition |-> c, body |-> s]
For(x, e, s)   == [node |-> "for", var |-> x, iterable |-> e, body |-> Statements(s)]
NoVar == ""
Exported(fn)   == [node |-> "exported", fn |-> fn]
Import(m)      == [node |-> "import", module |-> m]
NoTree         == NoInitial      (* NULL                                      *)

Prints(e)      == CallOf("print", << e >>)
Yields(e)      == Un("return", e)
===============================================================================
