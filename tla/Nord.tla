---------------------------------- MODULE Nord ----------------------------------
(***************************************************************************)
(* The nord executable (binaries/nord.c) on one source file: the syntax tree *)
(* is compiled and, unless the compiler rejected it, a virtual machine is    *)
(* created on the binary and executed.  What it prints is measured against   *)
(* what the program means.                                                   *)
(***************************************************************************)
EXTENDS Compiler, Balance

CONSTANT Sources    (* the programs: a set of syntax trees *)

Runnable == {ast \in Sources : Accepts(ast)}
BinariesOf == [ast \in Runnable |-> BinaryOf(ast)]

ASSUME NordAssumption == Binaries = BinariesOf

Ideal == INSTANCE Meaning WITH WrapNumber <- Wrap, NumberText <- Decimal
Meanings == [ast \in Runnable |-> Ideal!Meant(ast)]
-------------------------------------------------------------------------------
(* What print_internal shows of a value.                                     *)
RECURSIVE Shown(_)
Shown(v) ==
  CASE v.type = "INT" -> Ideal!Num(v.contents)
    [] v.type = "BOOLEAN" -> Ideal!Truth(ByteOf(v) # 0)
    [] v.type = "STRING" -> Ideal!Text(strings[v.contents])
    [] v.type = "TUPLE" -> Ideal!List([i \in DOMAIN tuples[v.contents].values |->
                                         Shown(tuples[v.contents].values[i])])
    [] v.type = "NIL" -> Ideal!None
    [] OTHER -> Ideal!Thing(v.type, 0, <<>>, <<>>)

Printed == [i \in DOMAIN output |-> Shown(output[i])]
-------------------------------------------------------------------------------
(* Properties of the compiler and the machine together, for the programs in  *)
(* Sources.                                                                  *)

(* What a program prints is what it means: at every step a beginning of it,  *)
(* at the end all of it, in order and nothing twice.  It is where a register *)
(* taken twice, an argument overwritten, a jump off by one or a value left   *)
(* on the stack shows, and no uncleared word may decide it.                  *)
Tells(printed, meant) == IF status = "halted" THEN printed = meant ELSE IsPrefix(printed, meant)
OutputCorrect == Tells(Printed, Meanings[program])

(* Compiled code never fails an assert of the machine (vm.c, builtins.c) and *)
(* never leaves what C defines: it reads no value that was never written,    *)
(* pops nothing it did not push and returns only from calls.                 *)
RunsCleanly == status \notin {"aborted", "undefined"}

(* What compile.c emits keeps to the stack discipline that Balance states of *)
(* the text of a binary: pushes and pops in pairs around calls, the count in *)
(* register 0 just before a builtin is called, jump distances loaded where   *)
(* they are used and ending inside their block at the depth they expect,     *)
(* every function closed by a return (compile.c:106, 600, 671, 767, 800).    *)
(* Left out are the programs that call int and string, which push nothing    *)
(* for some types.                                                           *)
Converts(b) ==
  \E r \in DOMAIN b.code : \E k \in DOMAIN b.code[r] :
    LET i == b.code[r][k]
    IN  i.op = "CALL_DYNAMIC" /\ b.strings[b.data[i.b].contents] \in {<<"int">>, <<"string">>}
CompilesBalanced == ~Converts(Binaries[program]) => IsBalanced

(* A program whose loops are over tuples and whose recursion ends comes to   *)
(* its end: vm_execute returns.                                              *)
Terminates == <>(status = "halted")
-------------------------------------------------------------------------------
(* "If return was implicit, add it in now" (compiler/compile.c:600): every   *)
(* function returns, so no program ends inside one.                          *)
FunctionsReturn == status = "halted" => frame.kind # "call"
===============================================================================
