--------------------------------- MODULE MCVM ---------------------------------
(***************************************************************************)
(* The machine on binaries written by hand, and on every binary whose        *)
(* function body is two instructions out of a list, called with values of    *)
(* every type in the registers.                                              *)
(***************************************************************************)
EXTENDS Balance, TLC

MCWild == {0, 2}
MCClock == {5}
MCDecimal(n) == ToString(n)
MCPiece == STRING

I(op, a, b, c) == [op |-> op, a |-> a, b |-> b, c |-> c]
Lit(r, n)    == I("LOADV", r, n, 0)
Get(r, addr) == I("LOAD", r, addr, 0)
Mv(r, s)     == I("MOVE", r, s, 0)
Psh(r)       == I("PUSH", 0, r, 0)
Pp(r)        == I("POP", 0, r, 0)
CallFn(addr) == I("CALL", 0, addr, 0)
Ret(r)       == I("RETURN", 0, r, 0)
Jmp(r)       == I("JMP", 0, r, 0)
If0(op, l, r) == I(op, 0, l, r)

(* One data section for all: booleans, the names of the builtins, a text, a  *)
(* float and two functions.                                                  *)
Texts == << <<"print">>, <<"time">>, <<"iter">>, <<"tuple">>, <<"range">>, <<"type">>,
            <<"int">>, <<"string">>, <<"a">>, <<>>, <<"nobody">> >>
Data == [a \in 0 .. 15 |->
           CASE a = 0 -> Boolean(0) [] a = 1 -> Boolean(1)
             [] a \in 2 .. 12 -> Ref("STRING", a - 1)
             [] a = 13 -> Float
             [] OTHER -> Ref("FUNCTION", a - 13)]
Name(n) == CHOOSE a \in 2 .. 12 : Texts[a - 1] = <<n>>
A == 10      (* addresses of "a", "", a float, the first and second function *)
Empty == 11
F == 13
Fn1 == 14
Fn2 == 15

Builtin(n, count) == << Lit(0, count), I("CALL_DYNAMIC", 0, Name(n), 0) >>
Show(r) == <<Psh(r)>> \o Builtin("print", 1) \o <<Pp(9)>>

Bin(main, f, g) ==
  [code |-> <<main, f, g>>, data |-> Data, strings |-> Texts,
   functions |-> << [region |-> 1, nargs |-> 1, locals |-> <<1, 2>>],
                    [region |-> 2, nargs |-> 0, locals |-> <<3>>] >>]

Plain(main) == Bin(main, <<Ret(1)>>, <<Ret(3)>>)

(* sum(n) == n = 0 ? 0 : n + sum(n - 1), the registers kept by the caller;   *)
(* n is printed on the way.                                                  *)
Sum == << Lit(2, 3), Lit(3, 0), If0("EQUAL", 1, 3), Jmp(2), Lit(4, 0), Ret(4) >>
       \o Show(1)
       \o << Mv(4, 1), Lit(5, -1), Psh(1), I("ADD", 1, 4, 5), CallFn(Fn1), Pp(6), Pp(1),
             I("ADD", 6, 6, 1), Ret(6) >>

(* A loop's first turns over the range from x to y.                          *)
Long(x, y) ==
  Plain(<< Lit(1, x), Lit(2, y), Psh(2), Psh(1) >> \o Builtin("range", 2) \o << Pp(3), Psh(3) >>
        \o Builtin("iter", 1) \o << Pp(4), I("DEREF", 5, 4, 1), I("DEREF", 5, 4, 1), I("DEREF", 5, 4, 1) >>)

Hand == <<
  (* ints at the edge of their width *)
  Plain(<< Lit(1, NumberHalf - 1), I("ADD", 2, 1, 1), I("MULTIPLY", 3, 1, 1), Lit(4, -NumberHalf),
           I("NEGATE", 5, 4, 0), I("SUBTRACT", 6, 4, 1), I("MODULO", 7, 4, 1),
           I("DIVIDE", 8, 4, 1), I("ADD", 8, 8, 1), I("NEGATE", 8, 8, 0) >> \o Show(8)),
  (* the int that has no negative, divided by -1, and division by 0 *)
  Plain(<< Lit(1, -NumberHalf), Lit(2, -1), I("MODULO", 3, 1, 2) >>),
  Plain(<< Lit(1, 1), Lit(2, 0), I("MODULO", 3, 1, 2) >>),
  (* recursion *)
  Bin(<< Lit(1, 3), CallFn(Fn1), Pp(2) >> \o Show(2), Sum, <<Ret(3)>>),
  (* a tuple of a text and a float, walked to its end and once more *)
  Plain(<< Get(1, A), Get(2, F), Psh(1), Psh(2) >> \o Builtin("tuple", 2) \o << Pp(3), Psh(3) >>
        \o Builtin("iter", 1) \o << Pp(4) >> \o [k \in 1 .. 4 |-> I("DEREF", 5, 4, 1)] \o Show(5)),
  (* ranges up, down and empty, a loop over one *)
  Plain(<< Lit(1, 2), Lit(2, 0), Psh(2), Psh(1) >> \o Builtin("range", 2) \o << Pp(3), Psh(3) >>
        \o Builtin("iter", 1) \o << Pp(4), I("NIL", 0, 6, 0) >>
        \o << I("DEREF", 5, 4, 1), Lit(7, 7), I("EQUAL", 1, 5, 6), Jmp(7) >> \o Show(5)
        \o << Lit(7, -9), Jmp(7) >>),
  (* ranges that are too long by one, by far, as long as all ints, and long   *)
  (* enough, iterated over                                                    *)
  Long(0, NumberHalf - 1), Long(NumberHalf - 1, -NumberHalf + 3), Long(-NumberHalf, NumberHalf - 1),
  Long(NumberHalf - 2, NumberHalf - 1),
  Plain(<< Lit(1, 0), Lit(2, 1), Psh(2), Psh(1) >> \o Builtin("range", 2)
        \o << Psh(1), Psh(1) >> \o Builtin("range", 2)),
  (* texts *)
  Plain(<< Get(1, A), Get(2, Empty), I("ADD", 3, 1, 2), I("EQUAL", 1, 3, 1), I("NOT", 4, 2, 0),
           I("ADD", 3, 3, 3), Psh(3) >> \o Builtin("type", 1) \o << Pp(5), Psh(5) >>
        \o Builtin("iter", 1) \o << Pp(5), I("DEREF", 6, 5, 1) >> \o Show(6)),
  (* text and number; text less than text; text negated *)
  Plain(<< Get(1, A), Lit(2, 1), If0("LESSTHAN", 1, 1), I("NEGATE", 3, 1, 0), I("ADD", 3, 1, 2) >>),
  (* conversions *)
  Plain(<< Get(1, F), Get(2, 1), Lit(3, 7) >>
        \o << Psh(1) >> \o Builtin("int", 1) \o << Psh(2) >> \o Builtin("int", 1)
        \o << Psh(3) >> \o Builtin("int", 1) \o Builtin("int", 1)
        \o << Psh(1) >> \o Builtin("string", 1) \o << Psh(2) >> \o Builtin("string", 1)
        \o << Psh(3) >> \o Builtin("string", 1) \o << Psh(3) >>),
  (* time, a bare newline, a stored value, an opcode without a case *)
  Plain(Builtin("time", 0) \o Builtin("print", 0) \o << Pp(1), Pp(2), I("STORE", 12, 2, 0),
        Get(3, 12), I("RESTORE", 0, 3, 0) >> \o Show(3) \o << Get(16, 0), Get(17, 9) >>),
  (* loads from the stack: the cell behind it, which printed is undefined, and *)
  (* behind the stack grown to twice its size                                  *)
  Plain(<< Get(16, 4) >> \o Show(16)),
  Plain([k \in 1 .. 5 |-> Psh(1)] \o << Get(16, 4), Get(17, 8), Get(17, 7) >> \o Show(17)),
  (* logic on words that were never cleared *)
  Plain(<< Get(1, 0), Get(2, 1), I("AND", 3, 1, 2), I("OR", 4, 3, 1), I("NOT", 5, 4, 0),
           If0("LESSTHAN", 3, 5), I("EQUAL", 1, 3, 5) >> \o Show(4)),
  (* ints compared as floats *)
  Plain(<< Lit(1, NumberHalf - 1), Lit(2, NumberHalf - 2), I("EQUAL", 1, 1, 2), Lit(3, 1),
           If0("LESSTHAN", 2, 1), Lit(4, 1) >>),
  (* too little on the stack; returning from the program; calling a text *)
  Plain(<< Pp(1), Pp(2), Psh(1) >>), Plain(<< Ret(1) >>), Plain(<< CallFn(A) >>),
  Plain(<< I("DEREF", 1, 2, 1) >>), Plain(<< I("CALL_DYNAMIC", 0, Name("nobody"), 0) >>),
  Plain(Builtin("iter", 0)), Plain(Builtin("tuple", 3)), Plain(Builtin("tuple", -1)),
  Plain(Builtin("print", 1)), Plain(Builtin("type", 1)),
  Plain(<< CallFn(Fn1), CallFn(Fn2), Pp(4), Ret(4) >>),
  (* a callee that runs off the end of its region *)
  Bin(<< CallFn(Fn1), Pp(1) >>, << Lit(1, 1) >>, <<Ret(3)>>) >>

(* Registers 1 to 8: an int, a text, a tuple, an iterator, nil, a float, a   *)
(* clean boolean and one in an uncleared word.                               *)
Prologue ==
  << Lit(1, 3), Get(2, A), Psh(1), Psh(2) >> \o Builtin("tuple", 2) \o << Pp(3), Psh(3) >>
  \o Builtin("iter", 1) \o << Pp(4), I("NIL", 0, 5, 0), Get(6, F), Get(7, 0), I("NOT", 8, 7, 0) >>

Pieces == <<
  I("DEREF", 4, 4, 1), I("DEREF", 1, 4, 1), I("ADD", 2, 2, 2), I("ADD", 1, 1, 8),
  I("ADD", 6, 6, 8), I("SUBTRACT", 1, 7, 5), I("OR", 8, 8, 7), I("AND", 8, 5, 2),
  I("NOT", 2, 3, 0), If0("LESSTHAN", 7, 8), I("EQUAL", 1, 3, 3), I("EQUAL", 1, 5, 5), Jmp(7),
  Jmp(5), Pp(1), Psh(3), Psh(2), CallFn(Fn2), Lit(0, 1), Lit(0, 2),
  I("CALL_DYNAMIC", 0, Name("tuple"), 0), I("CALL_DYNAMIC", 0, Name("iter"), 0),
  I("CALL_DYNAMIC", 0, Name("print"), 0), I("CALL_DYNAMIC", 0, Name("string"), 0),
  I("CALL_DYNAMIC", 0, Name("range"), 0), I("STORE", 14, 3, 0), Ret(4) >>

Size == Len(Pieces)
Pairs ==
  [n \in 1 .. Size * Size |->
     Bin(Prologue \o << CallFn(Fn1), Pp(9) >>,
         << Pieces[((n - 1) \div Size) + 1], Pieces[((n - 1) % Size) + 1], Ret(2) >>,
         << Mv(3, 2), Ret(3) >>)]

AllBinaries == Hand \o Pairs
MCBinaries == AllBinaries
===============================================================================
