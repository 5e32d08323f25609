-------------------------------- MODULE Balance --------------------------------
(***************************************************************************)
(* The stack discipline of compiled code.  compile.c emits pushes and pops   *)
(* in pairs around calls, and jump distances and argument counts as literals *)
(* loaded just before they are used, but states it nowhere; vm.c counts on   *)
(* all of it and checks nothing.  Balanced says of a binary, from its text   *)
(* alone, that it keeps to this.  What a balanced program may count on when  *)
(* it runs is stated below it.                                               *)
(*                                                                           *)
(* Instructions are numbered from 1: the one at pc is number pc + 1.         *)
(***************************************************************************)
EXTENDS VM

(* The builtins that always push their result; int and string push none for  *)
(* types they have no case for (builtins.c:261, 290).                        *)
Answering == {"print", "time", "iter", "tuple", "range", "type"}

(* The literal in register 0 when instruction k calls a builtin, and the     *)
(* name of that builtin (compile.c:113-121).                                 *)
Count(text, k) == text[k - 1].b
BuiltinName(b, i) == b.strings[b.data[i.b].contents][1]
CallsBuiltin(b, text, k) ==
  LET i == text[k]
  IN  /\ k > 1 /\ text[k - 1].op = "LOADV" /\ text[k - 1].a = 0 /\ text[k - 1].b >= 0
      /\ i.b \in DOMAIN b.data /\ b.data[i.b].type = "STRING"
      /\ \E n \in Answering : b.strings[b.data[i.b].contents] = <<n>>
CallsFunction(b, i) == i.b \in DOMAIN b.data /\ b.data[i.b].type = "FUNCTION"

(* How many values instruction k pops, and how many the stack has more       *)
(* behind it; a call has its result there by then.                           *)
Takes(b, text, k) ==
  LET i == text[k]
  IN  CASE i.op = "POP" -> 1
        [] i.op = "CALL_DYNAMIC" ->
             CASE BuiltinName(b, i) = "tuple" -> Count(text, k)
               [] BuiltinName(b, i) = "range" -> 2
               [] BuiltinName(b, i) \in {"iter", "type"} -> 1
               [] BuiltinName(b, i) = "print" -> IF Count(text, k) = 0 THEN 0 ELSE 1
               [] OTHER -> 0
        [] OTHER -> 0
Gives(i) == IF i.op \in {"PUSH", "CALL", "CALL_DYNAMIC"} THEN 1 ELSE 0

(* How many values a region has on the stack behind each of its instructions *)
(* when they are read in their order.                                        *)
Depths(b, text) ==
  LET depth[k \in 0..Len(text)] ==
        IF k = 0 THEN 0 ELSE depth[k - 1] - Takes(b, text, k) + Gives(text[k])
  IN  depth

(* Instruction j sets the register that k reads, and nothing between them    *)
(* writes it or runs other code (compile.c:767, 800, 818).                   *)
Loads(text, j, k, r) ==
  /\ text[j].op = "LOADV" /\ text[j].a = r
  /\ \A i \in j + 1..k - 1 : r \notin Written(text[i]) /\ text[i].op # "CALL"
Distances(text, k) == {text[j].b : j \in {j \in 1..k - 1 : Loads(text, j, k, text[k].b)}}

(* Where an instruction may send the machine but to the next one.            *)
Skips == {"EQUAL", "LESSTHAN"}
Targets(text, k) ==
  CASE text[k].op \in Skips -> {k + 2}
    [] text[k].op = "JMP" -> {k + n : n \in Distances(text, k)}
    [] OTHER -> {}
Successors(text, k) ==
  Targets(text, k) \cup (IF text[k].op \in {"JMP", "RETURN"} THEN {} ELSE {k + 1})

(* What was loaded at j is still there at k: nothing jumps between them.     *)
NotEntered(text, j, k) == \A i \in DOMAIN text : \A t \in Targets(text, i) : t <= j \/ k < t

BalancedRegion(b, r) ==
  LET text  == b.code[r]
      depth == Depths(b, text)
  IN  /\ r > 1 => text # <<>>
      /\ r = 1 => depth[Len(text)] = 0
      /\ \A k \in DOMAIN text :
           /\ text[k].op # "STORE"
           /\ text[k].op = "CALL" => CallsFunction(b, text[k])
           /\ text[k].op = "CALL_DYNAMIC" => CallsBuiltin(b, text, k) /\ NotEntered(text, k - 1, k)
           /\ text[k].op = "JMP" =>
                \E j \in 1..k - 1 : Loads(text, j, k, text[k].b) /\ NotEntered(text, j, k)
           /\ text[k].op = "RETURN" => r > 1 /\ depth[k - 1] = 0
           /\ depth[k - 1] >= Takes(b, text, k)
           /\ \A t \in Successors(text, k) :
                /\ t \in DOMAIN text \/ (r = 1 /\ t = Len(text) + 1)
                /\ depth[t - 1] = depth[k]

Balanced(b) ==
  /\ \A f \in DOMAIN b.functions : b.functions[f].region > 0
  /\ \A r \in DOMAIN b.code : BalancedRegion(b, r)

BalancedPrograms ==
  LET bs == Binaries IN {p \in DOMAIN bs : Balanced(bs[p])}
IsBalanced == program \in BalancedPrograms
-------------------------------------------------------------------------------
(* The depth of the stack at a place, and where the part of the innermost    *)
(* frame begins: a call leaves what its caller has on the stack below its    *)
(* own.                                                                      *)
DepthsOf ==
  LET bs == Binaries
  IN  [p \in BalancedPrograms |->
         [r \in DOMAIN bs[p].code |-> Depths(bs[p], bs[p].code[r])]]
Depth(place) == DepthsOf[program][place.region + 1][place.offset]

Below(depths, f) ==
  IF f.kind = "call" THEN depths[f.return.region + 1][f.return.offset] - 1 ELSE 0
Bottoms(depths, frames) ==
  LET bottom[i \in 0..Len(frames)] ==
        IF i = 0 THEN 0 ELSE bottom[i - 1] + Below(depths, frames[i])
  IN  bottom
Bottom == Bottoms(DepthsOf[program], Frames)[Len(Frames)]

(* Whatever a balanced program calls, in whatever order and however deep,    *)
(* the stack has what the code before the place it is at, and before the     *)
(* calls it waits behind, has left there: never a value less, which a pop    *)
(* would take from the caller, nor one more (compile.c:671, vm.c:120).  It   *)
(* stays within its regions and returns from calls only.                     *)
StackAsCounted ==
  IsBalanced =>
    /\ pc \in 0..Len(Block)
    /\ sp = Bottom + Depth([region |-> region, offset |-> pc]) /\ Bottom \in 0..sp
    /\ 0..sp - 1 \subseteq DOMAIN stack
    /\ status = "running" /\ Fetchable /\ Instruction.op = "RETURN" => frame.kind = "call"

(* A callee never touches its caller's part of the stack: the registers      *)
(* pushed before a call come back from it as they were (compile.c:671).      *)
CallersStackKept ==
  [][IsBalanced => \A a \in DOMAIN stack \cap 0..Bottom - 1 : stack'[a] = stack[a]]_vars

(* Each instruction block leaves the machine as the next one expects it: a   *)
(* program that ends does so at the end of its first region, with no frame   *)
(* and no value left on the stack.  So does every balanced program.          *)
EndsClean ==
  status = "halted" =>
    /\ region = 0 /\ pc = Len(Block)
    /\ frame.kind # "call" /\ \A i \in DOMAIN callStack : callStack[i].kind # "call"
    /\ sp = 0
===============================================================================
