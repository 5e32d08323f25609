-------------------------------- MODULE Programs --------------------------------
(***************************************************************************)
(* Families of small programs, as syntax trees: every expression, every      *)
(* condition and loop, every way of calling out of the lists below, and the  *)
(* programs of test/interpret and test/vm.                                   *)
(***************************************************************************)
EXTENDS Integers, Syntax

Nums(s) == [i \in DOMAIN s |-> LNum(s[i])]
Program(s) == Statements(s)
Each(S, Op(_)) == {Op(e) : e \in S}
-------------------------------------------------------------------------------
(* Expressions over integers, comparisons of them, and conjunctions.         *)
IntAtoms == {LNum(0), LNum(3), Id("x")}
Sums(L, R) == {Bin(op, l, r) : op \in {"+", "-", "*"}, l \in L, r \in R}
Ints == IntAtoms \cup Sums(IntAtoms, IntAtoms) \cup Each(IntAtoms, LAMBDA e : Un("-", e))
DeepInts == Sums({Bin("-", LNum(9), Bin("-", Id("x"), LNum(4)))},
                 {Bin("-", Id("x"), Bin("*", LNum(2), Bin("-", Id("x"), LNum(5))))})
Tests(ops, L, R) == {Bin(op, l, r) : op \in ops, l \in L, r \in R}
(* > is compiled as >=, so its operands differ here.                         *)
Comparisons == Tests({"==", "!=", "<", "<=", ">="}, Ints, {Id("x"), LNum(3)})
                 \cup Tests({">"}, Ints, {LNum(20)}) \cup Tests({">"}, {LNum(20)}, Ints)
Atomic == {LBool(TRUE), LBool(FALSE), Bin("<", Id("x"), LNum(3)), Bin("<=", LNum(2), Id("x"))}
Negated == Each(Atomic, LAMBDA e : Un("!", e))
Conjunctions == Tests({"and", "==", "!="}, Atomic \cup Negated, Atomic)

Expressions ==
  {Program(<< Var("x", LNum(2)), Prints(e), Prints(Id("x")) >>) :
     e \in Ints \cup DeepInts \cup Comparisons \cup Conjunctions \cup Negated}
-------------------------------------------------------------------------------
(* Conditions and loops.                                                     *)
Bodies(v) ==
  { << Prints(Id(v)) >>,
    << SetTo("x", Bin("+", Id("x"), Id(v))) >>,
    << If(Bin("==", Id(v), LNum(1)), Statements(<< Prints(Id("x")) >>)), Prints(Id(v)) >>,
    << Let("y", Bin("*", Id(v), LNum(2))), SetTo("x", Id("y")), Prints(Id("y")) >> }
Ranges == {RangeOf(LNum(a), LNum(b)) : <<a, b>> \in {<<0, 1>>, <<1, 3>>, <<2, 0>>, <<1, 1>>}}
Loops(v) == {For(v, r, b) : r \in Ranges, b \in Bodies(v)}
Nested == {For("i", r, <<l>>) : r \in Ranges, l \in Loops("j")}
Conditions == {LBool(TRUE), LNum(0), Bin("<", Id("x"), LNum(1)), Un("!", LStr(<<>>))}
Whens == {If(c, Statements(<< s, Prints(LStr(<<"then">>)) >>)) :
            c \in Conditions, s \in Loops("i") \cup {Prints(Id("x"))}}
(* Values of every type, printed, kept in tuples, named and converted.       *)
Samples == {LNum(3), LStr(<<"s">>), LStr(<<>>), LBool(TRUE), LNil, Items(Nums(<<1, 2>>)),
           RangeOf(LNum(2), LNum(0)), Bin("+", LStr(<<"s">>), LStr(<<"t">>)), CallOf("string", << LBool(FALSE) >>),
           CallOf("string", << LNum(5) >>), CallOf("int", << LBool(TRUE) >>), Un("!", LNum(0))}
Typed ==
  {Program(<< Var("x", v), Prints(CallOf("type", << Id("x") >>)), Prints(Items(<< w, Id("x"), v >>)) >>) :
     v \in Samples, w \in Samples}
  \cup
  {Program(<< Prints(Bin(op, v, w)) >>) :
     op \in {"==", "!="}, v \in Samples \ {Items(Nums(<<1, 2>>)), RangeOf(LNum(2), LNum(0))}, w \in Samples}
Control ==
  {Program(<< Var("x", LNum(0)), s, Prints(Id("x")) >>) : s \in Loops("i") \cup Nested \cup Whens}
-------------------------------------------------------------------------------
(* Calls.                                                                    *)
Results == {Id("a"), LNum(4), Bin("+", Id("a"), Id("b")), Bin("-", Id("b"), Id("a"))}
Inner == {Yields(e) : e \in Results} \cup (Results \ {Id("a")})
Arguments == {Id("x"), LNum(1), Bin("+", Id("x"), LNum(1))}
Calls2 == {CallOf("f", <<l, r>>) : l \in Arguments, r \in Arguments}
(* The variable is declared before the function, or is an argument's own     *)
(* register because it is declared after.                                    *)
Calling ==
  {Program(<< Var("x", LNum(2)), Fn("f", <<"a", "b">>, << e >>), Prints(c), Prints(Id("x")) >>) :
     e \in Inner, c \in Calls2}
  \cup
  {Program(<< Fn("f", <<"a", "b">>, << e >>), Var("x", LNum(2)), Prints(c), Prints(Id("x")) >>) :
     e \in Inner, c \in {CallOf("f", <<l, LNum(1)>>) : l \in Arguments}}
-------------------------------------------------------------------------------
(* Recursion, and calls among statements.                                    *)
Fib == Fn("fib", <<"n">>, << If(Bin("<", Id("n"), LNum(2)), Statements(<< Yields(Id("n")) >>)),
            Bin("+", CallOf("fib", << Bin("-", Id("n"), LNum(1)) >>),
                     CallOf("fib", << Bin("-", Id("n"), LNum(2)) >>)) >>)
Sum == Fn("sum", <<"x">>, << If(Bin("==", Id("x"), LNum(1)), Statements(<< Yields(LNum(1)) >>)),
            Bin("+", Id("x"), CallOf("sum", << Bin("-", Id("x"), LNum(1)) >>)) >>)
Copies == Fn("copies", <<"str", "num">>,
            << If(Bin("==", Id("num"), LNum(1)), Statements(<< Yields(Id("str")) >>)),
               Bin("+", Id("str"), CallOf("copies", << Id("str"), Bin("-", Id("num"), LNum(1)) >>)) >>)
Walk == Fn("walk", <<"n">>, << For("i", RangeOf(LNum(1), Id("n")),
            << If(Bin("==", Id("i"), LNum(3)), Statements(<< Yields(Id("i")) >>)), Prints(Id("i")) >>),
            LNum(0) >>)
Say(t) == Prints(LStr(<<t>>))
Recursion == {
  Program(<< Fib, Prints(CallOf("fib", << LNum(4) >>)) >>),
  Program(<< Sum, Prints(CallOf("sum", << LNum(4) >>)), Prints(CallOf("sum", << LNum(1) >>)) >>),
  Program(<< Copies, Var("a", LStr(<<"F">>)), Prints(CallOf("copies", << Id("a"), LNum(3) >>)) >>),
  Program(<< Walk, Prints(CallOf("walk", << LNum(2) >>)), Prints(CallOf("walk", << LNum(4) >>)) >>),
  Program(<< Var("x", LNum(1)), Fn("neg", <<"a">>, << Un("-", Id("a")) >>),
             For("i", RangeOf(LNum(1), LNum(3)),
               << SetTo("x", CallOf("neg", << Id("i") >>)), Prints(Id("x")) >>), Prints(Id("x")) >>),
  Program(<< Fn("f", <<"a">>, << Fn("g", <<"b">>, << Bin("*", Id("b"), Id("a")) >>),
               CallOf("g", << LNum(3) >>) >>), Prints(CallOf("f", << LNum(2) >>)) >>),
  Program(<< Fn("f", <<"a", "b">>, << Bin("-", Id("a"), Id("b")) >>),
             Prints(CallOf("f", << CallOf("f", << LNum(1), LNum(2) >>), LNum(3) >>)) >>),
  Program(<< Fn("f", <<"a", "b">>, << Bin("-", Id("a"), Id("b")) >>),
             Prints(CallOf("f", << LNum(3), CallOf("f", << LNum(1), LNum(2) >>) >>)) >>) }
-------------------------------------------------------------------------------
(* test/interpret/input, with its longest loops and recursions shortened.    *)
Corpus == {
  Program(<< Var("anon", LStr(<<"anon">>)), SetTo("anon", Fn(Anonymous, <<>>, << Say("Anonymous") >>)),
             CallOf("anon", <<>>) >>),
  Program(<< Fn("hello", <<>>, << Say("hello") >>), Var("f", Id("hello")), CallOf("f", <<>>) >>),
  Program(<< Fn("add", <<"a", "b">>, << Bin("+", Id("a"), Id("b")) >>), Var("prev", LNum(9)),
             Var("a", CallOf("add", << LNum(1), LNum(2) >>)), Prints(Id("a")), Prints(Id("prev")) >>),
  Program(<< Fn("foo", <<>>, << LStr(<<"Foo">>) >>), Fn("bar", <<>>, << LStr(<<"Bar">>) >>),
             Prints(Bin("+", CallOf("bar", <<>>), CallOf("foo", <<>>))) >>),
  Program(<< Var("scope", LStr(<<"global">>)), Prints(Id("scope")),
             Fn("test", <<>>, << SetTo("scope", LStr(<<"local">>)), Prints(Id("scope")) >>),
             CallOf("test", <<>>), Prints(Id("scope")) >>),
  Program(<< Var("scope", LStr(<<"global">>)), Prints(Id("scope")),
             Fn("test", <<>>, << Var("scope", LStr(<<"local">>)), Prints(Id("scope")) >>),
             CallOf("test", <<>>), Prints(Id("scope")) >>),
  Program(<< If(Bin("and", LBool(TRUE), LBool(FALSE)), Statements(<< Say("Not possible!") >>)),
             If(Bin("and", LNum(1), LNum(2)), Statements(<< Say("1 and 2") >>)),
             If(Bin("and", LBool(TRUE), LNum(1)), Statements(<< Say("true and 1") >>)) >>),
  Program(<< Var("left", LNum(0)), Var("right", LNum(10)),
             Fn("testbounds", <<"n">>,
               << If(Bin("and", Bin(">=", Id("n"), Id("left")), Bin("<=", Id("n"), Id("right"))),
                     Statements(<< Yields(LBool(TRUE)) >>)), LBool(FALSE) >>),
             Prints(CallOf("testbounds", << LNum(0) >>)), Prints(CallOf("testbounds", << Un("-", LNum(1)) >>)),
             Prints(CallOf("testbounds", << LNum(11) >>)) >>),
  Program(<< If(Bin("==", LStr(<<"Foo">>), LStr(<<"Bar">>)), Statements(<< Say("Not Possible.") >>)),
             If(Bin("!=", LStr(<<"Foo">>), LStr(<<"Bar">>)), Statements(<< Say("Foo != Bar") >>)) >>),
  Program(<< If(LBool(TRUE), Say("True")) >>),
  Program(<< Var("nums", Items(Nums(<<1, 2, 3>>))), For(NoVar, Id("nums"), << Say("Here!") >>) >>),
  Program(<< Var("nums", Items(Nums(<<1, 2, 3>>))), For("n", Id("nums"), << Prints(Id("n")) >>) >>),
  Program(<< Fn("list_nums", <<"n">>, << For("i", RangeOf(LNum(1), Id("n")), << Prints(Id("i")) >>) >>),
             CallOf("list_nums", Nums(<<3>>)), CallOf("list_nums", Nums(<<2>>)) >>),
  Program(<< Var("total", LNum(1)), For("i", RangeOf(LNum(1), LNum(4)),
               << SetTo("total", Bin("*", Id("total"), Id("i"))) >>), Prints(Id("total")) >>),
  Program(<< Prints(CallOf("type", Nums(<<1>>))), Prints(CallOf("type", << LStr(<<"Foo">>) >>)),
             Prints(CallOf("type", << Items(Nums(<<1, 2, 3>>)) >>)), Prints(CallOf("type", << LBool(TRUE) >>)) >>),
  Program(<< Prints(LNil) >>),
  Program(<< Var("a", Items(<< LNum(1), Bin("*", LNum(3), LNum(5)), LBool(FALSE), LStr(<<"Foo">>) >>)),
             Prints(Id("a")) >>),
  Program(<< Var("a", LNum(100)), Var("b", Items(<< LNum(1), LStr(<<"foo">>), Id("a") >>)), Prints(Id("b")) >>),
  Program(<< Var("t", RangeOf(LNum(1), LNum(4))), Prints(CallOf("type", << Id("t") >>)), Prints(Id("t")) >>),
  Program(<< Var("a", CallOf("tuple", Nums(<<1, 2, 3>>))), Prints(Id("a")) >>),
  Program(<< Say("newline"), CallOf("print", <<>>), Prints(LStr(<<>>)) >>),
  Program(<< Prints(Bin("%", LNum(10), LNum(3))) >>),
  Program(<< Prints(Bin("+", LNum(2), Bin("*", LNum(3), LNum(4)))),
             Prints(Bin("*", Bin("+", LNum(2), LNum(3)), LNum(4))) >>) }
-------------------------------------------------------------------------------
AllSources == Expressions \cup Typed \cup Control \cup Calling \cup Recursion \cup Corpus
===============================================================================
