-------------------------------- MODULE MCFlaws --------------------------------
(***************************************************************************)
(* Programs for which the code breaks a promise of its own comments, docs    *)
(* and tests: one set of sources for each.                                   *)
(***************************************************************************)
EXTENDS Nord, Syntax

MCWild == {0, 7}
MCClock == {5}
MCDecimal(n) == ToString(n)
MCPiece == STRING

(* Sixteen times print("a"): each call leaves rp one higher.                 *)
Literals == {Statements([i \in 1 .. 16 |-> Prints(LStr(<<"a">>))])}

(* A recursive sum called in a loop: the callee's temporaries take the       *)
(* registers of the loop.                                                    *)
Sum == Fn("sum", <<"x">>,
          << If(Bin("==", Id("x"), LNum(1)), Statements(<< Yields(LNum(1)) >>)),
             Bin("+", Id("x"), CallOf("sum", << Bin("-", Id("x"), LNum(1)) >>)) >>)
Clobbering == {Statements(<< Sum, Var("x", LNum(1)),
                             For("i", RangeOf(LNum(1), LNum(3)),
                                 << SetTo("x", CallOf("sum", << Id("i") >>)) >>) >>)}

(* A function whose last code is a return under a condition.                 *)
Guarded == {Statements(<< Fn("f", <<"n">>,
                             << If(Bin("==", Id("n"), LNum(0)),
                                   Statements(<< Yields(LNum(5)) >>)) >>),
                          CallOf("f", << LNum(1) >>), Prints(LNum(1)) >>)}

(* test/interpret/input/logic/or_02.n:2, after an addition.                  *)
Either(l, r) == Bin("or", l, r)
Disjunction == {Statements(<< Var("a", Bin("+", LNum(300), LNum(300))),
                              Prints(Either(Either(Either(LBool(FALSE), LBool(FALSE)), LBool(FALSE)),
                                        LBool(FALSE))) >>)}

(* A constant initialised from a variable that changes later.                *)
Aliased == {Statements(<< Var("a", LNum(1)), Let("c", Id("a")), SetTo("a", LNum(2)),
                          Prints(Id("c")) >>)}

MCBinariesOnce == BinariesOf
MCBinaries == MCBinariesOnce
===============================================================================
