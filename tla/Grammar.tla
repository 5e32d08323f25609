--------------------------------- MODULE Grammar ---------------------------------
(***************************************************************************)
(* docs/grammar.txt: the tokens of a program, with the parentheses its       *)
(* syntax tree needs and no others.  It is what the parser is measured       *)
(* against, and owes nothing to parse.c.                                     *)
(***************************************************************************)
EXTENDS Naturals, Sequences, SequencesExt, Syntax

Tok(type, value) == [type |-> type, value |-> value]
Word(type)       == Tok(type, type)
EOL == Word("EOL")
EOF == Word("EOF")

(* Where the lines of a program end: a block opens on the line of its        *)
(* statement or on the next one, or stays on one line.                       *)
Layouts == {"same line", "next line", "one line"}
Before(layout) == IF layout = "next line" THEN << EOL >> ELSE <<>>
Inside(layout) == IF layout = "one line" THEN <<>> ELSE << EOL >>
-------------------------------------------------------------------------------
(* How tightly the expressions bind: expression, then conjunction to         *)
(* term_md, unary and primary.                                               *)
Binding(op) ==
  CASE op \in {"and", "or"} -> 1
    [] op \in {"!=", "=="} -> 2
    [] op \in {">", ">=", "<", "<="} -> 3
    [] op \in {"-", "+", "%"} -> 4
    [] op \in {"/", "*"} -> 5
    [] op = "." -> 7
Tightness(e) ==
  CASE e.node \in {"assign", "fn"} -> 0
    [] e.node = "binary" -> Binding(e.op)
    [] e.node = "unary" -> 6
    [] OTHER -> 7

RECURSIVE Expr(_, _, _), Stmt(_, _), Lines(_, _)

Commas(lists) ==
  FoldLeft(LAMBDA done, i : IF i = 1 THEN lists[1] ELSE done \o << Word(",") >> \o lists[i],
           <<>>, [i \in DOMAIN lists |-> i])
Listed(s, layout) == << Word("(") >> \o Commas([i \in DOMAIN s |-> Expr(s[i], 0, layout)]) \o << Word(")") >>

Braces(list, layout) ==
  << Word("{") >> \o Inside(layout) \o Lines(list.items, layout)
    \o (IF list.items = <<>> THEN <<>> ELSE Inside(layout)) \o << Word("}") >>
Block(list, layout) == Before(layout) \o Braces(list, layout)

(* The block of a bare fn opens on its line.                                 *)
FnTokens(e, layout) ==
  << Word("fn") >> \o (IF e.name = Anonymous THEN <<>> ELSE << Tok("IDENTIFIER", e.name) >>)
    \o (IF e.args = <<>> THEN <<>> ELSE Listed(e.args, layout))
    \o (IF e.name = Anonymous /\ e.args = <<>> THEN Braces(e.body, layout) ELSE Block(e.body, layout))

(* An expression where one at least as tight is expected.                    *)
Expr(e, least, layout) ==
  IF Tightness(e) < least THEN << Word("(") >> \o Expr(e, 0, layout) \o << Word(")") >>
  ELSE
  CASE e.node = "none" -> <<>>
    [] e.node = "num" -> << Tok("NUMBER", e.number) >>
    [] e.node = "str" -> << Tok("STRING", e.text) >>
    [] e.node = "flt" -> << Word("FLOAT") >>
    [] e.node = "bool" -> << Word(IF e.truth THEN "true" ELSE "false") >>
    [] e.node = "nil" -> << Word("nil") >>
    [] e.node = "id" -> << Tok("IDENTIFIER", e.name) >>
    [] e.node = "unary" -> << Word(e.op) >> \o Expr(e.operand, 6, layout)
    [] e.node = "binary" ->
         Expr(e.left, Binding(e.op), layout) \o << Word(e.op) >>
           \o Expr(e.right, IF e.op = "." THEN 7 ELSE Binding(e.op) + 1, layout)
    [] e.node = "range" -> Expr(e.begin, 7, layout) \o << Word("..") >> \o Expr(e.end, 7, layout)
    [] e.node = "tuple" -> Listed(e.elements, layout)
    [] e.node = "call" -> << Tok("IDENTIFIER", e.name) >> \o Listed(e.args, layout)
    [] e.node = "assign" -> << Tok("IDENTIFIER", e.name), Word("=") >> \o Expr(e.value, 0, layout)
    [] e.node = "fn" -> FnTokens(e, layout)

Stmt(s, layout) ==
  CASE s.node = "declare" ->
         << Word(IF s.var THEN "var" ELSE "let"), Tok("IDENTIFIER", s.name) >>
           \o (IF s.initial = NoInitial THEN <<>> ELSE << Word("=") >> \o Expr(s.initial, 0, layout))
    [] s.node = "unary" /\ s.op = "return" -> << Word("return") >> \o Stmt(s.operand, layout)
    [] s.node = "if" ->
         << Word("if") >> \o Expr(s.condition, 0, layout)
           \o (IF s.body.node = "list" THEN Block(s.body, layout) ELSE Before(layout) \o Stmt(s.body, layout))
    [] s.node = "for" ->
         << Word("for") >> \o (IF s.var = NoVar THEN <<>> ELSE << Tok("IDENTIFIER", s.var), Word("in") >>)
           \o Expr(s.iterable, 7, layout) \o Block(s.body, layout)
    [] s.node = "exported" -> << Word("/"), Word("exported"), Word("/") >> \o Stmt(s.fn, layout)
    [] s.node = "import" -> << Word("import"), Tok("STRING", s.module) >>
    [] OTHER -> Expr(s, 0, layout)

Lines(s, layout) ==
  FoldLeft(LAMBDA done, i : (IF i = 1 THEN <<>> ELSE done \o << EOL >>) \o Stmt(s[i], layout),
           <<>>, [i \in DOMAIN s |-> i])

Written(program, layout) == Lines(program.items, layout) \o Inside(layout) \o << EOF >>
===============================================================================
