---------------------------------- MODULE VM ----------------------------------
(***************************************************************************)
(* The nord virtual machine, machine/vm.c: one action per opcode, one per   *)
(* builtin (lang/builtins.c), and the ways an execution ends.  A behaviour  *)
(* is one vm_create followed by one vm_execute of one binary.               *)
(*                                                                          *)
(* status is "running" inside the loop of vm_execute, "halted" after it,    *)
(* "aborted" once an assert failed, and "undefined" once the program did    *)
(* something C gives no meaning to (it read a value nobody wrote, popped    *)
(* below the stack, returned without a frame); nothing is said about what   *)
(* happens after that.                                                      *)
(***************************************************************************)
EXTENDS Values

CONSTANTS
  RegisterCount,  (* registers modelled: those the binaries use (of 256)     *)
  StackSize,      (* VM_STACK_SIZE, the cells the stack begins with (256)    *)
  Binaries,       (* program -> the binary_t that compile() returns          *)
  Clock,          (* what time() may return                                  *)
  Piece,          (* the pieces strings are put together from                *)
  Decimal(_)      (* the text of a number, one piece                         *)

Registers == 0 .. RegisterCount - 1

(* opcode_t, the import and inbound/outbound opcodes of modules excepted.    *)
Opcodes == {"NIL", "LOAD", "LOADV", "STORE", "MOVE", "PUSH", "POP", "RESTORE",
            "JMP", "ADD", "SUBTRACT", "MULTIPLY", "DIVIDE", "NEGATE", "MODULO",
            "AND", "OR", "NOT", "EQUAL", "LESSTHAN", "DEREF", "CALL",
            "CALL_DYNAMIC", "RETURN"}

(* instruction_t: a is the first byte after the opcode, b the second field   *)
(* (an address, a register or a signed immediate), c the third.              *)
Instructions == [op : Opcodes, a : Int, b : Int, c : Int]

Arithmetic == {"ADD", "SUBTRACT", "MULTIPLY", "DIVIDE", "MODULO"}
Relational == {"EQUAL", "LESSTHAN"}
Logical    == {"AND", "OR"}

(* Registers an instruction inspects, copies whole, and writes.              *)
Inspected(i) ==
  CASE i.op \in Arithmetic \cup Relational \cup Logical -> {i.b, i.c}
    [] i.op \in {"JMP", "NEGATE", "NOT", "DEREF"} -> {i.b}
    [] OTHER -> {}
Copied(i) == IF i.op \in {"STORE", "MOVE", "PUSH", "RETURN"} THEN {i.b} ELSE {}
Written(i) ==
  CASE i.op \in {"NIL", "POP"} -> {i.b}
    [] i.op \in Arithmetic \cup Logical
                 \cup {"LOAD", "LOADV", "MOVE", "NEGATE", "NOT", "DEREF"} -> {i.a}
    [] OTHER -> {}

(* What compile() guarantees of a binary: registers exist, immediates fit,   *)
(* an address is one the compiler has written, the data section's pointers   *)
(* lead to its objects, a function lives in a region of the code, and an     *)
(* iterator advances by one (compile.c:818).                                 *)
WellFormedInstruction(i) ==
  /\ i \in Instructions
  /\ Inspected(i) \cup Copied(i) \cup Written(i) \subseteq Registers
  /\ i.op = "STORE" => i.a >= 0
  /\ i.op = "LOADV" => i.b \in Number
  /\ i.op = "DEREF" => i.c = 1

WellFormedFunction(f, b) ==
  /\ f.region \in 0 .. Len(b.code) - 1
  /\ f.nargs \in Nat
  /\ f.locals \in Seq(Registers)

WellFormedDatum(v, b) ==
  /\ v \in Value
  /\ v.type \in {"BOOLEAN", "STRING", "FLOAT", "FUNCTION"}
  /\ v.type = "BOOLEAN" => v.contents \in {0, 1}
  /\ v.type = "STRING" => v.contents \in DOMAIN b.strings
  /\ v.type = "FUNCTION" => v.contents \in DOMAIN b.functions

WellFormedBinary(b) ==
  /\ b.code \in Seq(Seq(Instructions)) /\ b.code # <<>>
  /\ \A r \in DOMAIN b.code : \A k \in DOMAIN b.code[r] :
        LET i == b.code[r][k]
        IN  /\ WellFormedInstruction(i)
            /\ i.op \in {"LOAD", "CALL", "CALL_DYNAMIC"} => i.b \in DOMAIN b.data
  /\ b.strings \in Seq(Seq(Piece))
  /\ DOMAIN b.functions \subseteq Nat
  /\ \A k \in DOMAIN b.functions : WellFormedFunction(b.functions[k], b)
  /\ DOMAIN b.data \subseteq Nat
  /\ \A a \in DOMAIN b.data : WellFormedDatum(b.data[a], b)

(* The words builtins make strings of (builtins.c:195-240, 270-290).         *)
Words == {"integer", "float", "boolean", "string", "tuple", "iterator", "nil",
          "function", "", "true", "false"}

ASSUME MachineAssumption ==
  /\ RegisterCount \in 1 .. 256 /\ StackSize \in Nat \ {0}
  /\ Clock \subseteq Number /\ Clock # {}
  /\ Words \subseteq Piece /\ \A n \in Number : Decimal(n) \in Piece
  /\ \A p \in DOMAIN Binaries : WellFormedBinary(Binaries[p])
-------------------------------------------------------------------------------
VARIABLES
  program,     (* which program is being run                                 *)
  code,        (* vm->regions                                                *)
  functions,   (* the function_t prototypes compile() made                   *)
  memory,      (* vm->memory: address -> value                               *)
  strings,     (* the string_t, tuple_t and iterator_t objects on the C      *)
  tuples,      (*   heap, which is never collected; strings holds the        *)
  iterators,   (*   pieces a text was put together from, and tuples the      *)
               (*   length and the array of each                             *)
  registers,
  stack, sp,   (* stack cells keep what was popped until it is overwritten    *)
  callStack,   (* vm->call_stack below csp: the frames of suspended callers  *)
  frame,       (* vm->frame: the function being executed                     *)
  region, pc,
  output,      (* the values print() wrote to stdout                         *)
  status

loaded  == <<program, code, functions>>
heap    == <<strings, tuples, iterators>>
control == <<callStack, frame, region>>
vars    == <<loaded, memory, heap, registers, stack, sp, control, pc, output,
             status>>

(* memory_set and memory_get: an array that grows, zeroed (VAL_ABSENT) where *)
(* nothing was written.  An address before the array is a huge one to        *)
(* memory_get, whose capacity is unsigned.                                   *)
MemorySet(mem, a, v) == [x \in DOMAIN mem \cup {a} |-> IF x = a THEN v ELSE mem[x]]
MemoryGet(mem, a)    == IF a \in DOMAIN mem THEN mem[a] ELSE Absent

(* The stack is written in order, so its capacity doubles each time it is    *)
(* full; memory_get lets the address equal to it through, one place behind   *)
(* the array (memory.c:40).                                                  *)
Doublings == 0 .. 15
JustBehindStack(a) ==
  /\ a \notin DOMAIN stack
  /\ \E k \in Doublings : a = StackSize * 2^k /\ (k = 0 \/ a \div 2 \in DOMAIN stack)
StackGet(a) == IF JustBehindStack(a) THEN Garbage ELSE MemoryGet(stack, a)

(* A function_t in use: its prototype, where to return, the saved registers. *)
Stray == [region |-> -1, offset |-> -1]
NoFrame    == [kind |-> "none",  fn |-> 0, return |-> Stray, save |-> <<>>]
StrayFrame == [kind |-> "stray", fn |-> 0, return |-> Stray, save |-> <<>>]

Prototype(f) == functions[f]
Block == code[region + 1]

(* vm_create: it clears 128 of the 256 registers and leaves vm->frame as     *)
(* malloc returned it, which may pass for a function.                        *)
Create(p, binary) ==
  /\ program = p
  /\ code = binary.code
  /\ functions = binary.functions
  /\ memory = binary.data
  /\ strings = binary.strings
  /\ tuples = <<>>
  /\ iterators = <<>>
  /\ registers = [r \in Registers |-> IF r < 128 THEN Absent ELSE Garbage]
  /\ stack = <<>> /\ sp = 0
  /\ callStack = <<>>
  /\ frame \in {NoFrame, StrayFrame}
  /\ region = 0 /\ pc = 0
  /\ output = <<>>
  /\ status = "running"

Init == \E p \in DOMAIN Binaries : Create(p, Binaries[p])
-------------------------------------------------------------------------------
(* The loop of vm_execute.                                                   *)
Fetchable   == pc \in 0 .. Len(Block) - 1
Instruction == Block[pc + 1]
Left  == registers[Instruction.b]
Right == registers[Instruction.c]

(* What the k-th pop returns; nothing below the stack.                       *)
Popped(k) == MemoryGet(stack, sp - k)

(* OP_DEREF compares the index with the length for equality; a tuple whose   *)
(* length is below 0 has no array to read from (malloc refused it).          *)
Iterator == iterators[Left.contents]
(* Mutant: the end is noticed one element late.                              *)
ExhaustedLate == Iterator.index > Iterator.length
Exhausted == Iterator.index = Iterator.length
ReadsOutside ==
  /\ Left.type = "ITERATOR" /\ ~Exhausted /\ Iterator.over.type = "TUPLE"
  /\ Iterator.index + 1 \notin DOMAIN tuples[Iterator.over.contents].values

(* A builtin is found by its name (dynamic_load_self); register 0 holds the  *)
(* number of its arguments.                                                  *)
Builtins == {"print", "time", "iter", "tuple", "range", "type", "int", "string"}
Named    == MemoryGet(memory, Instruction.b)
Names(n) == Named.type = "STRING" /\ strings[Named.contents] = <<n>>
ArgumentCounts == NumberViews(registers[0])
CountIs(n) == registers[0].type = "INT" /\ registers[0].contents = n

(* The ways out of C's defined behaviour.  A push below the stack writes     *)
(* before the array.                                                         *)
Underflows == sp < 0
Misbehaves ==
  \/ \E r \in Inspected(Instruction) : registers[r].type = "GARBAGE"
  \/ /\ Instruction.op = "ADD"
     /\ ~SomeFloat(Left, Right)
     /\ "STRING" \in {Left.type, Right.type} /\ Left.type # Right.type
  \/ /\ Instruction.op = "MODULO"
     /\ \/ 0 \in NumberViews(Right)
        \/ -1 \in NumberViews(Right) /\ -NumberHalf \in NumberViews(Left)
  \/ Instruction.op \in {"PUSH", "RETURN"} /\ Underflows
  \/ Instruction.op = "RETURN" /\ frame.kind # "call"
  \/ Instruction.op = "DEREF" /\ ReadsOutside
  \/ /\ Instruction.op = "CALL_DYNAMIC"
     /\ \/ registers[0].type = "GARBAGE"
        \/ Names("time") /\ Underflows
        \/ Names("print") /\ 0 \in ArgumentCounts /\ Underflows
        \/ Names("print") /\ ArgumentCounts # {0} /\ (sp < 1 \/ Popped(1).type = "GARBAGE")
        \/ Names("tuple") /\ CountIs(registers[0].contents)
              /\ registers[0].contents \notin 0 .. sp
        \/ Names("range") /\ (Popped(1).type = "GARBAGE" \/ Popped(2).type = "GARBAGE")
        \/ \E n \in {"iter", "type", "int", "string"} :
              Names(n) /\ Popped(1).type = "GARBAGE"

Fetch(op) ==
  /\ status = "running"
  /\ Fetchable
  /\ Instruction.op = op
  /\ ~Misbehaves

(* The instruction puts v in register r and the loop goes on.                *)
Put(r, v) ==
  /\ registers' = [registers EXCEPT ![r] = v]
  /\ pc' = pc + 1
  /\ UNCHANGED <<loaded, memory, stack, sp, control, output, status>>

Assign(r, v) == Put(r, v) /\ UNCHANGED heap

(* Mutant: the stack pointer stays below the value pushed.                   *)
Return1Unmoved(n, v) ==
  /\ stack' = MemorySet(stack, sp - n, v)
  /\ sp' = sp - n
  /\ pc' = pc + 1
  /\ UNCHANGED <<loaded, memory, registers, control, status>>

(* Mutant: the value is stored one cell too low.                             *)
Return1Under(n, v) ==
  /\ stack' = MemorySet(stack, sp - n - 1, v)
  /\ sp' = sp - n + 1
  /\ pc' = pc + 1
  /\ UNCHANGED <<loaded, memory, registers, control, status>>

(* A builtin pops n arguments and pushes v.                                  *)
Return1(n, v) ==
  /\ stack' = MemorySet(stack, sp - n, v)
  /\ sp' = sp - n + 1
  /\ pc' = pc + 1
  /\ UNCHANGED <<loaded, memory, registers, control, status>>

Fail(s) ==
  /\ status' = s
  /\ UNCHANGED <<loaded, memory, heap, registers, stack, sp, control, pc, output>>
-------------------------------------------------------------------------------
(* Moving values.                                                            *)

(* OP_NIL sets the type only.                                                *)
LoadNil == Fetch("NIL") /\ Assign(Instruction.b, Nil)

(* arg1 & 0x70 picks the stack: it tests the destination register's number.  *)
FromStack(r) == r % 128 >= 16
Load ==
  /\ Fetch("LOAD")
  /\ Assign(Instruction.a,
            IF FromStack(Instruction.a) THEN StackGet(Instruction.b)
            ELSE MemoryGet(memory, Instruction.b))

LoadImmediate == Fetch("LOADV") /\ Assign(Instruction.a, Int32(Instruction.b))

Store ==
  /\ Fetch("STORE")
  /\ memory' = MemorySet(memory, Instruction.a, registers[Instruction.b])
  /\ pc' = pc + 1
  /\ UNCHANGED <<loaded, heap, registers, stack, sp, control, output, status>>

Move == Fetch("MOVE") /\ Assign(Instruction.a, Left)

Push ==
  /\ Fetch("PUSH")
  /\ Return1(0, Left)
  /\ UNCHANGED <<heap, output>>

Pop ==
  /\ Fetch("POP")
  /\ registers' = [registers EXCEPT ![Instruction.b] = Popped(1)]
  /\ sp' = sp - 1
  /\ pc' = pc + 1
  /\ UNCHANGED <<loaded, memory, heap, stack, control, output, status>>

(* An opcode the switch has no case for.                                     *)
Skip ==
  /\ Fetch("RESTORE")
  /\ pc' = pc + 1
  /\ UNCHANGED <<loaded, memory, heap, registers, stack, sp, control, output,
                 status>>
-------------------------------------------------------------------------------
(* Jumps and comparisons.                                                    *)

Branch(target) ==
  /\ pc' = target
  /\ UNCHANGED <<loaded, memory, heap, registers, stack, sp, control, output,
                 status>>

Jump == Fetch("JMP") /\ \E n \in NumberViews(Left) : Branch(pc + n)

(* The next instruction is skipped unless the outcome is the one in arg1.    *)
SkipUnless(outcome) ==
  Branch(IF Instruction.a = (IF outcome THEN 1 ELSE 0) THEN pc + 1 ELSE pc + 2)

SameText == strings[Left.contents] = strings[Right.contents]
Equal ==
  /\ Fetch("EQUAL")
  /\ \E outcome \in EqualOutcomes(Left, Right,
                                  Left.type = "STRING" /\ Right.type = "STRING"
                                    /\ SameText) : SkipUnless(outcome)

LessThan ==
  /\ Fetch("LESSTHAN")
  /\ \E outcome \in LessOutcomes(Left, Right) : SkipUnless(outcome)
-------------------------------------------------------------------------------
(* Arithmetic and logic.                                                     *)

Numeric(Op(_, _)) ==
  IF SomeFloat(Left, Right)
  THEN Assign(Instruction.a, Float)
  ELSE \E x \in NumberViews(Left), y \in NumberViews(Right) :
         Assign(Instruction.a, Int32(Wrap(Op(x, y))))

Concatenates == Left.type = "STRING" /\ Right.type = "STRING"
Add == Fetch("ADD") /\ ~Concatenates /\ Numeric(LAMBDA x, y : x + y)
(* Mutant: the register gets the object after the new one.                   *)
ConcatenateOffByOne ==
  /\ Fetch("ADD") /\ Concatenates
  /\ strings' = Append(strings, strings[Left.contents] \o strings[Right.contents])
  /\ Put(Instruction.a, Ref("STRING", Len(strings') + 1))
  /\ UNCHANGED <<tuples, iterators>>
(* Mutant: the right text is appended to the left one where it is.           *)
ConcatenateInPlace ==
  /\ Fetch("ADD") /\ Concatenates
  /\ strings' = [strings EXCEPT ![Left.contents] = @ \o strings[Right.contents]]
  /\ Put(Instruction.a, Left)
  /\ UNCHANGED <<tuples, iterators>>
Concatenate ==
  /\ Fetch("ADD") /\ Concatenates
  /\ strings' = Append(strings, strings[Left.contents] \o strings[Right.contents])
  /\ Put(Instruction.a, Ref("STRING", Len(strings')))
  /\ UNCHANGED <<tuples, iterators>>
Subtract == Fetch("SUBTRACT") /\ Numeric(LAMBDA x, y : x - y)
Multiply == Fetch("MULTIPLY") /\ Numeric(LAMBDA x, y : x * y)
Divide   == Fetch("DIVIDE") /\ Assign(Instruction.a, Float)
Modulo ==
  /\ Fetch("MODULO")
  /\ \E x \in NumberViews(Left), y \in NumberViews(Right) :
       Assign(Instruction.a, Int32(Remainder(x, y)))
Negate ==
  /\ Fetch("NEGATE")
  /\ \E x \in NumberViews(Left) : Assign(Instruction.a, Int32(Wrap(-x)))

(* The result is a bool stored in an uninitialised word.                     *)
AssignTruth(r, b) == \E w \in DirtyWords(b) : Assign(r, Boolean(w))

And == /\ Fetch("AND")
       /\ \E b \in AndOutcomes(Left, Right) : AssignTruth(Instruction.a, b)
Or  == /\ Fetch("OR")
       /\ \E b \in OrOutcomes(Left, Right) : AssignTruth(Instruction.a, b)
Not == /\ Fetch("NOT")
       /\ \E b \in NotOutcomes(Left, Left.type = "STRING"
                                       /\ strings[Left.contents] = <<>>) :
            AssignTruth(Instruction.a, b)
-------------------------------------------------------------------------------
(* Iteration.                                                                *)

DerefEnd ==
  /\ Fetch("DEREF") /\ Left.type = "ITERATOR" /\ Exhausted
  /\ Assign(Instruction.a, Nil)

(* Strings are not handled: the result stays unset.                          *)
Element(it) ==
  IF it.over.type = "TUPLE" THEN tuples[it.over.contents].values[it.index + 1] ELSE Garbage
DerefNext ==
  /\ Fetch("DEREF") /\ Left.type = "ITERATOR" /\ ~Exhausted
  /\ Put(Instruction.a, Element(Iterator))
  /\ iterators' = [iterators EXCEPT ![Left.contents].index = @ + Instruction.c]
  /\ UNCHANGED <<strings, tuples>>
-------------------------------------------------------------------------------
(* Functions: instruction_call, and the OP_RETURN case.                      *)

Callee == MemoryGet(memory, Instruction.b)

(* The registers listed in locals are saved, the arguments' excepted; their  *)
(* places in the save buffer stay as malloc left them.                       *)
SaveBuffer(fn) ==
  [i \in 1 .. Len(fn.locals) |->
     IF i > fn.nargs THEN registers[fn.locals[i]] ELSE Garbage]

(* Mutant: the caller will resume at the call itself.                        *)
CallAgain ==
  /\ Fetch("CALL") /\ Callee.type = "FUNCTION"
  /\ callStack' = IF frame.kind = "none" THEN callStack ELSE Append(callStack, frame)
  /\ frame' = [kind |-> "call", fn |-> Callee.contents,
               return |-> [region |-> region, offset |-> pc],
               save |-> SaveBuffer(Prototype(Callee.contents))]
  /\ region' = Prototype(Callee.contents).region
  /\ pc' = 0
  /\ UNCHANGED <<loaded, memory, heap, registers, stack, sp, output, status>>

Call ==
  /\ Fetch("CALL") /\ Callee.type = "FUNCTION"
  /\ callStack' = IF frame.kind = "none" THEN callStack ELSE Append(callStack, frame)
  /\ frame' = [kind |-> "call", fn |-> Callee.contents,
               return |-> [region |-> region, offset |-> pc + 1],
               save |-> SaveBuffer(Prototype(Callee.contents))]
  /\ region' = Prototype(Callee.contents).region
  /\ pc' = 0
  /\ UNCHANGED <<loaded, memory, heap, registers, stack, sp, output, status>>

(* Every register in locals is overwritten from the save buffer.             *)
Restored(fn, save) ==
  [r \in Registers |->
     IF \E i \in DOMAIN fn.locals : fn.locals[i] = r
     THEN save[CHOOSE i \in DOMAIN fn.locals : fn.locals[i] = r]
     ELSE registers[r]]

(* Mutant: the oldest caller becomes the frame.                              *)
ReturnFromOldest ==
  /\ Fetch("RETURN")
  /\ region' = frame.return.region
  /\ pc' = frame.return.offset
  /\ stack' = MemorySet(stack, sp, Left)
  /\ sp' = sp + 1
  /\ registers' = Restored(Prototype(frame.fn), frame.save)
  /\ IF callStack = <<>>
     THEN frame' = NoFrame /\ callStack' = callStack
     ELSE /\ frame' = callStack[1]
          /\ callStack' = Tail(callStack)
  /\ UNCHANGED <<loaded, memory, heap, output, status>>

Return ==
  /\ Fetch("RETURN")
  /\ region' = frame.return.region
  /\ pc' = frame.return.offset
  /\ stack' = MemorySet(stack, sp, Left)
  /\ sp' = sp + 1
  /\ registers' = Restored(Prototype(frame.fn), frame.save)
  /\ IF callStack = <<>>
     THEN frame' = NoFrame /\ callStack' = callStack
     ELSE /\ frame' = callStack[Len(callStack)]
          /\ callStack' = SubSeq(callStack, 1, Len(callStack) - 1)
  /\ UNCHANGED <<loaded, memory, heap, output, status>>
-------------------------------------------------------------------------------
(* Builtins: instruction_call_builtin and lang/builtins.c.                   *)

Calls(n) == Fetch("CALL_DYNAMIC") /\ Names(n)

(* print pops one value however many arguments were pushed, none if the      *)
(* count is 0 (a bare newline).                                              *)
BuiltinPrintLine ==
  /\ Calls("print") /\ 0 \in ArgumentCounts
  /\ \E w \in DirtyWords(TRUE) : Return1(0, Boolean(w))
  /\ output' = Append(output, Absent)
  /\ UNCHANGED heap

BuiltinPrint ==
  /\ Calls("print") /\ ArgumentCounts # {0}
  /\ \E w \in DirtyWords(TRUE) : Return1(1, Boolean(w))
  /\ output' = Append(output, Popped(1))
  /\ UNCHANGED heap

BuiltinTime ==
  /\ Calls("time")
  /\ \E t \in Clock : Return1(0, Int32(t))
  /\ UNCHANGED <<heap, output>>

LengthOf(v) == IF v.type = "TUPLE" THEN tuples[v.contents].length
               ELSE Len(strings[v.contents])

BuiltinIter ==
  /\ Calls("iter") /\ CountIs(1) /\ Popped(1).type \in Collections
  /\ iterators' = Append(iterators, [over   |-> Popped(1), index |-> 0,
                                     length |-> LengthOf(Popped(1))])
  /\ Return1(1, Ref("ITERATOR", Len(iterators')))
  /\ UNCHANGED <<strings, tuples, output>>

(* tuple_create, filled with what its caller puts there.                     *)
NewTuple(tuple, n) ==
  /\ tuples' = Append(tuples, tuple)
  /\ Return1(n, Ref("TUPLE", Len(tuples')))
  /\ UNCHANGED <<strings, iterators, output>>

BuiltinTuple ==
  /\ Calls("tuple")
  /\ CountIs(registers[0].contents)
  /\ LET n == registers[0].contents
     IN  NewTuple([length |-> n, values |-> [i \in 1 .. n |-> Popped(i)]], n)

(* The integers from x to y, both included, up or down; none if x = y.  How  *)
(* many they are is computed in an int: ends that lie too far apart give a   *)
(* length below 0, or none, and no integers.                                 *)
SpanLength(x, y) == IF x = y THEN 0 ELSE Wrap(Magnitude(y - x) + 1)
Span(x, y) ==
  [length |-> SpanLength(x, y),
   values |-> [i \in 1 .. SpanLength(x, y) |->
                 Int32(IF x < y THEN x + (i - 1) ELSE x - (i - 1))]]

Bounded == Popped(1).type = "INT" /\ Popped(2).type = "INT"
BuiltinRange == Calls("range") /\ CountIs(2) /\ Bounded
           /\ NewTuple(Span(Popped(1).contents, Popped(2).contents), 2)

NewString(text) ==
  /\ strings' = Append(strings, text)
  /\ Return1(1, Ref("STRING", Len(strings')))
  /\ UNCHANGED <<tuples, iterators, output>>

TypeName(t) ==
  CASE t = "INT" -> "integer" [] t = "FLOAT" -> "float" [] t = "BOOLEAN" -> "boolean"
    [] t = "STRING" -> "string" [] t = "TUPLE" -> "tuple" [] t = "ITERATOR" -> "iterator"
    [] t = "NIL" -> "nil" [] t = "FUNCTION" -> "function" [] OTHER -> ""

BuiltinType ==
  /\ Calls("type") /\ 1 \in ArgumentCounts /\ Popped(1).type # "ABSENT"
  /\ NewString(<<TypeName(Popped(1).type)>>)

(* int and string ignore the count; of the types they have no case for they  *)
(* pop the value and push nothing.                                           *)
Dropped ==
  /\ sp' = sp - 1
  /\ pc' = pc + 1
  /\ UNCHANGED <<loaded, memory, heap, registers, stack, control, output, status>>

BuiltinInt ==
  /\ Calls("int")
  /\ IF Popped(1).type \in {"FLOAT", "BOOLEAN"}
     THEN /\ \E n \in (IF Popped(1).type = "FLOAT" THEN Wild
                       ELSE {IF ByteOf(Popped(1)) = 0 THEN 0 ELSE 1}) :
               Return1(1, Int32(n))
          /\ UNCHANGED <<heap, output>>
     ELSE Dropped

TextOf(v) ==
  CASE v.type = "INT" -> <<Decimal(v.contents)>>
    [] v.type = "FLOAT" -> <<"float">>
    [] OTHER -> <<IF ByteOf(v) = 0 THEN "false" ELSE "true">>

BuiltinString ==
  /\ Calls("string")
  /\ IF Popped(1).type \in {"INT", "FLOAT", "BOOLEAN"}
     THEN NewString(TextOf(Popped(1)))
     ELSE Dropped
-------------------------------------------------------------------------------
(* The asserts of vm.c and builtins.c.                                       *)
AssertionFails ==
  \/ Fetch("CALL") /\ Callee.type # "FUNCTION"
  \/ Fetch("DEREF") /\ Left.type # "ITERATOR"
  \/ Fetch("CALL_DYNAMIC") /\ ~\E n \in Builtins : Names(n)
  \/ Calls("iter") /\ ~(CountIs(1) /\ Popped(1).type \in Collections)
  \/ Calls("tuple") /\ registers[0].type # "INT"
  \/ Calls("range") /\ ~(CountIs(2) /\ Bounded)
  \/ Calls("type") /\ (ArgumentCounts # {1} \/ Popped(1).type = "ABSENT")

Abort == AssertionFails /\ Fail("aborted")

Misbehave == status = "running" /\ Fetchable /\ Misbehaves /\ Fail("undefined")

(* The loop of vm_execute ends where the region does.                        *)
Halt == status = "running" /\ ~Fetchable /\ Fail("halted")

Moves    == LoadNil \/ Load \/ LoadImmediate \/ Store \/ Move \/ Push \/ Pop \/ Skip
Jumps    == Jump \/ Equal \/ LessThan
Computes == Add \/ Concatenate \/ Subtract \/ Multiply \/ Divide \/ Modulo \/ Negate
              \/ And \/ Or \/ Not
Iterates == DerefEnd \/ DerefNext
BuiltinCall == BuiltinPrintLine \/ BuiltinPrint \/ BuiltinTime \/ BuiltinIter
                 \/ BuiltinTuple \/ BuiltinRange \/ BuiltinType \/ BuiltinInt
                 \/ BuiltinString
Ends     == Abort \/ Misbehave \/ Halt

Next == Moves \/ Jumps \/ Computes \/ Iterates \/ Call \/ Return \/ BuiltinCall \/ Ends

Spec == Init /\ [][Next]_vars

(* The interpreter's loop is not preempted: it takes its next step.          *)
FairSpec == Spec /\ WF_vars(Next)
-------------------------------------------------------------------------------
(* Properties of every execution of every well-formed binary.                *)

(* The frames in use, the outermost first.                                   *)
Frames == IF frame.kind = "none" THEN callStack ELSE Append(callStack, frame)

Place == [region : Int, offset : Int]
TupleObject == [length : Int, values : Seq(Value)]
Frame == [kind : {"none", "stray", "call"}, fn : Nat, return : Place, save : Seq(Value)]

(* The type invariant: what each part of vm_t may hold, every number within  *)
(* the width of an int (Value), in registers, memory, stack, tuples, save    *)
(* buffers and output, and the region being executed one the binary has.     *)
TypeOK ==
  /\ program \in DOMAIN Binaries
  /\ DOMAIN memory \subseteq Nat /\ \A a \in DOMAIN memory : memory[a] \in Value
  /\ strings \in Seq(Seq(Piece))
  /\ tuples \in Seq(TupleObject)
  /\ iterators \in Seq([over : Value, index : Nat, length : Int])
  /\ registers \in [Registers -> Value]
  /\ DOMAIN stack \subseteq Int /\ \A a \in DOMAIN stack : stack[a] \in Value
  /\ sp \in Int
  /\ callStack \in Seq(Frame) /\ frame \in Frame
  /\ region \in 0 .. Len(code) - 1 /\ pc \in Int
  /\ output \in Seq(Value)
  /\ status \in {"running", "halted", "aborted", "undefined"}

(* A value that can be used: an int within its width, a pointer to an object *)
(* that exists.                                                              *)
Live(v) ==
  /\ InWidth(v)
  /\ v.type = "STRING" => v.contents \in DOMAIN strings
  /\ v.type = "TUPLE" => v.contents \in DOMAIN tuples
  /\ v.type = "ITERATOR" => v.contents \in DOMAIN iterators
  /\ v.type = "FUNCTION" => v.contents \in DOMAIN functions

AllLive(f) == \A x \in DOMAIN f : Live(f[x])

(* Whatever the machine can reach is usable: no int outgrows its width, and  *)
(* no register, memory or stack cell, tuple, iterator, save buffer or        *)
(* printed value points to an object that was never made.  The objects are   *)
(* shared by copying pointers (OP_MOVE, OP_PUSH, OP_POP, the save buffers of *)
(* instruction_call, tuple_create), so one wrong copy spreads.               *)
NoDangling ==
  /\ AllLive(memory) /\ AllLive(registers) /\ AllLive(stack) /\ AllLive(output)
  /\ \A t \in DOMAIN tuples : AllLive(tuples[t].values)
  /\ \A k \in DOMAIN iterators : Live(iterators[k].over)
  /\ \A i \in DOMAIN Frames : AllLive(Frames[i].save)

(* OP_DEREF tests an iterator's index for equality with the length           *)
(* iterator_create took (vm.c:495), and reads the array of the tuple without *)
(* another test.  This never reads outside it but for one kind of tuple: a   *)
(* range whose ends lie so far apart that the int its length is computed in  *)
(* overflowed (builtins.c:164, 175).  Its length is below 0 and its array    *)
(* empty, the index is not equal to it, and the first OP_DEREF reads where   *)
(* nothing is.  Every other iterator's index stops at the length, and that   *)
(* is the number of values there.                                            *)
Overflowed(tuple) == tuple.length < 0 /\ tuple.values = <<>>
TuplesFilled ==
  \A t \in DOMAIN tuples : tuples[t].length = Len(tuples[t].values) \/ Overflowed(tuples[t])
IteratorsInStep ==
  \A k \in DOMAIN iterators :
    LET it == iterators[k]
    IN  /\ it.over.type \in Collections /\ it.length = LengthOf(it.over)
        /\ it.index <= it.length \/ (it.length < 0 /\ it.index = 0)
IteratorsBounded ==
  /\ TuplesFilled /\ IteratorsInStep
  /\ status = "running" /\ Fetchable /\ Instruction.op = "DEREF" /\ ReadsOutside =>
       Overflowed(tuples[Iterator.over.contents])

(* Objects are shared by copying pointers, and this is safe because no       *)
(* instruction changes one: a text and a tuple stay what they are for good,  *)
(* and an iterator goes on over the same collection, one place at a time,    *)
(* when OP_DEREF gives the element there to its register.  So a loop sees    *)
(* each element once and in order, whatever its body makes of the same       *)
(* objects (vm.c:489-521; vm.c:406 makes a new text, builtins.c:113 an       *)
(* iterator of its own).                                                     *)
Lasts(old, new) == \A i \in DOMAIN old : i \in DOMAIN new /\ new[i] = old[i]
GivesElement(k) ==
  LET it == iterators[k]
  IN  /\ Left = Ref("ITERATOR", k)
      /\ iterators'[k] = [it EXCEPT !.index = @ + 1]
      /\ it.over.type = "TUPLE" =>
           registers'[Instruction.a] = tuples[it.over.contents].values[it.index + 1]
ObjectsLast ==
  [][/\ Lasts(strings, strings') /\ Lasts(tuples, tuples')
     /\ \A k \in DOMAIN iterators :
          k \in DOMAIN iterators' /\ (iterators'[k] = iterators[k] \/ GivesElement(k))]_vars

(* The call stack is a chain of calls: each frame in use was entered by a    *)
(* CALL in the code of the frame below it, will resume right after that      *)
(* CALL, and the code being executed is that of the innermost frame.  (The   *)
(* frame vm_create leaves behind stands for the program itself.)             *)
RegionOf(f) == IF f.kind = "call" THEN Prototype(f.fn).region ELSE 0
CallerRegion(i) == IF i = 1 THEN 0 ELSE RegionOf(Frames[i - 1])
CallChain ==
  /\ region = IF Frames = <<>> THEN 0 ELSE RegionOf(Frames[Len(Frames)])
  /\ \A i \in DOMAIN Frames :
       IF Frames[i].kind = "call"
       THEN LET caller == code[CallerRegion(i) + 1]
                back   == Frames[i].return
            IN  /\ back.region = CallerRegion(i)
                /\ back.offset \in DOMAIN caller
                /\ caller[back.offset].op = "CALL"
       ELSE i = 1

(* vm.c implements nested activations: a return resumes the caller where the *)
(* call left it, and nothing else changes the code being executed.           *)
Activity == INSTANCE Activations
              WITH Stray   <- Stray,
                   here    <- [region |-> region, offset |-> pc],
                   returns <- [i \in DOMAIN Frames |-> Frames[i].return]
NestedActivations == Activity!Spec
-------------------------------------------------------------------------------
(* Claims of comments and docs that the code does not keep.                  *)

(* "Loads the value at the specified address into a register"                *)
(* (machine/bytecode.h:24): OP_LOAD reads memory, whichever the register.    *)
LoadReadsMemory ==
  [][Load => registers'[Instruction.a] = MemoryGet(memory, Instruction.b)]_vars

(* "Which registers are used by this function" (machine/value.h:103): locals *)
(* names every register the function writes, so that a call can save them.   *)
LocalsListed ==
  (status = "running" /\ frame.kind = "call" /\ Fetchable) =>
    \A r \in Written(Instruction) :
      \E i \in DOMAIN Prototype(frame.fn).locals : Prototype(frame.fn).locals[i] = r
===============================================================================
