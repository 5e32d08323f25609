-------------------------------- MODULE MCParser --------------------------------
(***************************************************************************)
(* The parser on the programs of Programs in every layout, and on every      *)
(* short sequence of some tokens, programs or not.                           *)
(***************************************************************************)
EXTENDS Frontend, Programs

Braced(program) == \A i \in DOMAIN program.items : program.items[i].node = "if" => program.items[i].body.node = "list"

More == {
  Program(<< Exported(Fn("f", <<"a">>, << Yields(Bin("/", Id("a"), LNum(2))) >>)), Import("m") >>),
  Program(<< Import("m"), Exported(Fn("f", <<>>, << >>)) >>),
  Program(<< Let("x", LFloat), Declare(TRUE, "y", NoInitial), SetTo("y", SetTo("x", LNil)) >>),
  Program(<< Var("f", Fn(Anonymous, <<"a", "b">>, << If(Id("a"), Statements(<<>>)), Id("b") >>)),
             CallOf("f", << Fn(Anonymous, <<>>, << LNum(1) >>), SetTo("x", LNum(2)) >>) >>) }

(* To be read back, an if on one line has its braces: without them the token *)
(* before the body is given back and the if takes it for its body            *)
(* (parse.c:323).                                                            *)
WrittenPrograms ==
  {Written(p, l) : p \in {p \in AllSources \cup More : Braced(p)}, l \in Layouts}
  \cup {Written(p, "next line") : p \in AllSources}

(* Any tokens at all.                                                        *)
Texts(n, ts) == {Append(t, EOF) : t \in BoundedSeq(ts, n)}
A   == Tok("IDENTIFIER", "a")
One == Tok("NUMBER", 1)
Words(types) == {Word(t) : t \in types}

(* The forms whose tokens are lost or taken twice, and their neighbours.     *)
Joined(parts) == {p \o << EOF >> : p \in {x \o y \o z : x \in parts[1], y \in parts[2], z \in parts[3]}}
ABy(x, e)   == << A, Word(x) >> \o e
MaybeLine   == {<<>>, << EOL >>}
Empty       == << Word("{"), Word("}") >>
Called      == << A, Word("("), A, Word(","), One, Word(")") >>
Operand     == {<< A >>, << One >>, << Word("-"), A >>, ABy("*", << One >>), Called, << Word("("), A, Word(")") >>,
                ABy("=", << A >>), ABy("=", ABy("*", << A >>)), << Word("return"), A >>}
Exporting   == << Word("/"), Word("exported"), Word("/") >>
NoName      == << Word("fn") >> \o Empty
Behind      == {<<>>, << A >>, NoName, << Word("fn"), Word("("), One, Word(")") >> \o Empty,
                << Word("fn"), A >> \o Empty, << Word("if"), A >> \o Empty,
                << Word("import"), Tok("STRING", "m") >>, << EOL, Word("fn"), A >> \o Empty}
Declared    == {<< Word("var"), A >>, << Word("let"), A, Word("="), One >>, << Word("let"), A, Word("=") >>,
                << Word("var"), A, Word("=") >> \o NoName}
Ifs         == {<< Word("if") >> \o c : c \in Operand \cup {ABy("..", << One >>), ABy("=", <<>>), NoName}}
Forms ==
  Joined(<< {<<>>} \cup Operand, {Exporting}, {l \o b : l \in MaybeLine, b \in Behind} >>)
  \cup Joined(<< Operand, MaybeLine, Operand >>)
  \cup Joined(<< Declared, MaybeLine, {<< Word("return") >> \o b : b \in Behind \cup Operand} >>)
  \cup Joined(<< Ifs, MaybeLine, Behind \cup Operand \cup {<< Word("return"), One >>, Empty} >>)
AllInputs ==
  {Written(p, l) : p \in AllSources \cup More, l \in Layouts}
  \cup Forms
  \cup Texts(4, {A, One} \cup Words({"(", ")", ",", "=", "-", "*", "and", "EOL"}))
  \cup Texts(3, {A, One} \cup Words({"(", ")", ".", "..", "!", "return", "for", "in", "{", "}", "fn", "EOL", "INVALID"}))
  \cup Texts(4, {A} \cup Words({"var", "=", "-", "{", "}", "EOL"}))
  \cup Texts(5, {A} \cup Words({"/", "exported", "fn", "EOL"}))
  \cup Texts(4, {A, One} \cup Words({"if", "let", "return", "=", "EOL"}))
MCGrammatical == WrittenPrograms
MCInputs == AllInputs
===============================================================================
