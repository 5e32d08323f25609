------------------------------- MODULE VM_proofs -------------------------------
(***************************************************************************)
(* Proofs about the nord machine, for every set of well-formed binaries,     *)
(* every number of registers and every width of its integers.                *)
(*                                                                           *)
(* IInv is the inductive invariant.  Its parts follow the machine: the       *)
(* program it was loaded with, the objects on the heap, the cells that hold  *)
(* values, and the frames.                                                   *)
(***************************************************************************)
EXTENDS VM, TLAPS

IteratorRecord == [over : Value, index : Nat, length : Int]

(* What IteratorsInStep says of one iterator.                                *)
InStep(k) ==
  /\ iterators[k].over.type \in Collections
  /\ iterators[k].length = LengthOf(iterators[k].over)
  /\ \/ iterators[k].index <= iterators[k].length
     \/ iterators[k].length < 0 /\ iterators[k].index = 0

Loading ==
  /\ program \in DOMAIN Binaries
  /\ code = Binaries[program].code
  /\ functions = Binaries[program].functions

HeapOK ==
  /\ strings \in Seq(Seq(Piece))
  /\ tuples \in Seq(TupleObject)
  /\ iterators \in Seq(IteratorRecord)
  /\ \A t \in DOMAIN tuples : AllLive(tuples[t].values)
  /\ \A k \in DOMAIN iterators : Live(iterators[k].over)
  /\ TuplesFilled /\ IteratorsInStep

(* A cell holds a value that can be used.                                    *)
Holds(f) == \A x \in DOMAIN f : f[x] \in Value /\ Live(f[x])

MemoryOK    == DOMAIN memory \subseteq Nat /\ Holds(memory)
RegistersOK == registers \in [Registers -> Value] /\ AllLive(registers)
StackOK     == DOMAIN stack \subseteq Int /\ Holds(stack)
OutputOK    == output \in Seq(Value) /\ AllLive(output)

CellsOK == MemoryOK /\ RegistersOK /\ StackOK /\ OutputOK

(* A frame in use has a prototype, and a saved value for each of its locals. *)
FrameOK(f) ==
  /\ f \in Frame
  /\ AllLive(f.save)
  /\ f.kind = "call" => /\ f.fn \in DOMAIN functions
                        /\ Len(f.save) = Len(Prototype(f.fn).locals)

ControlOK ==
  /\ callStack \in Seq(Frame)
  /\ \A i \in DOMAIN callStack : FrameOK(callStack[i]) /\ callStack[i].kind # "none"
  /\ FrameOK(frame)
  /\ region \in 0 .. Len(code) - 1
  /\ CallChain

Registered == sp \in Int /\ pc \in Int /\ status \in {"running", "halted", "aborted", "undefined"}

(* No conjunct is inductive alone: a frame's code is known through the chain  *)
(* of calls, the chain through the loaded binary's well-formedness, and what  *)
(* a cell points to through the objects of the heap.                         *)
IInv == Loading /\ HeapOK /\ CellsOK /\ ControlOK /\ Registered
-------------------------------------------------------------------------------
(* What the machine computes with numbers stays within their width.          *)

(* Wrapping brings every integer into the range of an int (vm.c:397-466).    *)
LEMMA WrapInRange == \A n \in Int : Wrap(n) \in Number
  BY NumbersAssumption DEF Wrap, Number

(* A remainder is no larger than its divisor (vm.c:451).                     *)
LEMMA RemainderInRange ==
  \A x, y \in Number : y # 0 => Remainder(x, y) \in Number
  <1>1. SUFFICES ASSUME NEW x \in Number, NEW y \in Number, y # 0
                 PROVE  Remainder(x, y) \in Number
        OBVIOUS
  <1>2. Magnitude(x) \in Nat /\ Magnitude(y) \in 1 .. NumberHalf
        BY <1>1, NumbersAssumption DEF Number, Magnitude
  <1>3. Magnitude(x) % Magnitude(y) \in 0 .. Magnitude(y) - 1
        BY <1>2
  <1>4. QED
        BY <1>2, <1>3, NumbersAssumption DEF Remainder, Number

(* Booleans in uncleared words are still numbers (vm.c:272).                 *)
LEMMA DirtyInRange == \A b \in BOOLEAN : DirtyWords(b) \subseteq Number
  BY NumbersAssumption DEF DirtyWords, Number

(* A live value read as a number is a number.                                *)
LEMMA ViewsInRange == \A v \in Value : Live(v) => NumberViews(v) \subseteq Number
  BY NumbersAssumption DEF NumberViews, Value, InWidth
-------------------------------------------------------------------------------
(* What a loaded binary guarantees (bytecode.h:100, compile.c:875).          *)

(* The machine runs a binary as the compiler leaves it.                      *)
LEMMA LoadedBinary ==
  ASSUME Loading
  PROVE  /\ code \in Seq(Seq(Instructions)) /\ code # <<>>
         /\ \A r \in DOMAIN code : \A k \in DOMAIN code[r] : WellFormedInstruction(code[r][k])
         /\ DOMAIN functions \subseteq Nat
         /\ \A f \in DOMAIN functions :
              /\ functions[f].region \in 0 .. Len(code) - 1
              /\ functions[f].nargs \in Nat
              /\ functions[f].locals \in Seq(Registers)
  <1>1. WellFormedBinary(Binaries[program])
        BY MachineAssumption DEF Loading
  <1>2. QED
        BY <1>1 DEF Loading, WellFormedBinary, WellFormedFunction

(* The instruction fetched is one the compiler may have written (vm.c:270).  *)
LEMMA FetchedInstruction ==
  ASSUME IInv, Fetchable
  PROVE  WellFormedInstruction(Instruction) /\ Instruction \in Instructions
  <1>1. region + 1 \in DOMAIN code /\ code[region + 1] \in Seq(Instructions)
        BY LoadedBinary DEF IInv, ControlOK
  <1>2. pc + 1 \in DOMAIN Block
        BY <1>1 DEF Fetchable, Block, IInv, Registered
  <1>3. QED
        BY <1>1, <1>2, LoadedBinary DEF IInv, Instruction, Block, WellFormedInstruction

(* The registers an instruction reads and writes exist.                      *)
LEMMA Operands ==
  ASSUME IInv, NEW op, Fetch(op)
  PROVE  /\ Instruction.op = op
         /\ Instruction.a \in Int /\ Instruction.b \in Int /\ Instruction.c \in Int
         /\ op \in {"NIL", "POP", "STORE", "MOVE", "PUSH", "RETURN", "JMP", "NEGATE", "NOT",
                     "DEREF"} \cup Arithmetic \cup Relational \cup Logical
              => Instruction.b \in Registers
         /\ op \in Arithmetic \cup Relational \cup Logical => Instruction.c \in Registers
         /\ op \in {"LOAD", "LOADV", "MOVE", "NEGATE", "NOT", "DEREF"}
                     \cup Arithmetic \cup Logical
              => Instruction.a \in Registers
         /\ op = "STORE" => Instruction.a \in Nat
         /\ op = "LOADV" => Instruction.b \in Number
         /\ op = "DEREF" => Instruction.c = 1
  <1>1. /\ Instruction.op = op
        /\ WellFormedInstruction(Instruction) /\ Instruction \in Instructions
        BY FetchedInstruction DEF Fetch
  <1>2. Instruction.a \in Int /\ Instruction.b \in Int /\ Instruction.c \in Int
        BY <1>1 DEF Instructions
  <1>3. Inspected(Instruction) \cup Copied(Instruction) \cup Written(Instruction)
          \subseteq Registers
        BY <1>1 DEF WellFormedInstruction
  <1>4. op \in {"JMP", "NEGATE", "NOT", "DEREF"} \cup Arithmetic \cup Relational \cup Logical
          => Instruction.b \in Registers
        BY <1>1, <1>3 DEF Inspected, Arithmetic, Relational, Logical
  <1>5. op \in Arithmetic \cup Relational \cup Logical => Instruction.c \in Registers
        BY <1>1, <1>3 DEF Inspected, Arithmetic, Relational, Logical
  <1>6. op \in {"STORE", "MOVE", "PUSH", "RETURN"} => Instruction.b \in Registers
        BY <1>1, <1>3 DEF Copied
  <1>7. op \in {"NIL", "POP"} => Instruction.b \in Registers
        BY <1>1, <1>3 DEF Written, Arithmetic, Logical
  <1>8. op \in {"LOAD", "LOADV", "MOVE", "NEGATE", "NOT", "DEREF"} \cup Arithmetic \cup Logical
          => Instruction.a \in Registers
        BY <1>1, <1>3 DEF Written, Arithmetic, Logical
  <1>9. /\ op = "STORE" => Instruction.a \in Nat
        /\ op = "LOADV" => Instruction.b \in Number
        /\ op = "DEREF" => Instruction.c = 1
        BY <1>1, <1>2 DEF WellFormedInstruction
  <1>10. QED
        BY <1>1, <1>2, <1>4, <1>5, <1>6, <1>7, <1>8, <1>9
-------------------------------------------------------------------------------
(* Which cells hold what: reading any of them gives a usable value.          *)

(* A register never holds a dangling pointer (registers of vm_t, vm.h:43).   *)
LEMMA ReadRegister ==
  ASSUME IInv, NEW r \in Registers
  PROVE  registers[r] \in Value /\ Live(registers[r])
  BY DEF IInv, CellsOK, RegistersOK, AllLive

(* The values the machine makes out of nothing point to no object: nil, a    *)
(* number, a truth value, the zeroed value memory_get falls back on.         *)
LEMMA ConstantsLive ==
  /\ Absent \in Value /\ Live(Absent)
  /\ Nil \in Value /\ Live(Nil)
  /\ Float \in Value /\ Live(Float)
  /\ Garbage \in Value /\ Live(Garbage)
  /\ \A n \in Number : Int32(n) \in Value /\ Live(Int32(n))
                        /\ Boolean(n) \in Value /\ Live(Boolean(n))
  BY NumbersAssumption
     DEF Absent, Nil, Float, Garbage, Int32, Boolean, Value, Types, Live, Number, InWidth, Carriers

(* memory_get returns a usable value from memory and from the stack, for     *)
(* every address (memory.c:37), and so does a pop (vm.c:120).                *)
LEMMA ReadMemory ==
  ASSUME IInv, NEW a
  PROVE  /\ MemoryGet(memory, a) \in Value /\ Live(MemoryGet(memory, a))
         /\ MemoryGet(stack, a) \in Value /\ Live(MemoryGet(stack, a))
         /\ StackGet(a) \in Value /\ Live(StackGet(a))
  BY ConstantsLive DEF IInv, CellsOK, MemoryOK, StackOK, Holds, MemoryGet, StackGet
-------------------------------------------------------------------------------
(* Objects are never collected or changed, but for an iterator's index       *)
(* (string_create, tuple_create, iterator_create): what is live stays live.  *)

Grows(old, new) == \A k \in DOMAIN old : k \in DOMAIN new
HeapGrows == Grows(strings, strings') /\ Grows(tuples, tuples') /\ Grows(iterators, iterators')

(* Objects are never freed: what was usable stays usable while the heap only *)
(* grows (string_create, tuple_create, iterator_create).                     *)
LEMMA LiveStays ==
  ASSUME HeapGrows, functions' = functions, NEW v, Live(v)
  PROVE  Live(v)'
  BY DEF HeapGrows, Grows, Live

(* A step that makes no object keeps all there are.                          *)
LEMMA HeapKept ==
  ASSUME IInv, UNCHANGED <<loaded, heap>>
  PROVE  HeapOK' /\ HeapGrows
  BY DEF IInv, HeapOK, HeapGrows, Grows, AllLive, Live, IteratorsInStep, TuplesFilled, LengthOf, loaded, heap

(* string_create (value.c:50): a new text leaves the other objects in place. *)
LEMMA NewText ==
  ASSUME IInv, NEW t \in Seq(Piece), strings' = Append(strings, t),
         UNCHANGED <<loaded, tuples, iterators>>
  PROVE  /\ HeapOK' /\ HeapGrows
         /\ Ref("STRING", Len(strings')) \in Value /\ Live(Ref("STRING", Len(strings)))'
  <1>1. /\ strings \in Seq(Seq(Piece)) /\ strings' \in Seq(Seq(Piece))
        /\ Len(strings') = Len(strings) + 1
        /\ \A k \in DOMAIN strings : k \in DOMAIN strings' /\ strings'[k] = strings[k]
        BY DEF IInv, HeapOK
  <1>2. HeapGrows
        BY <1>1 DEF HeapGrows, Grows
  <1>3. \A v : Live(v) => Live(v)'
        BY <1>2, LiveStays DEF loaded
  <1>4. (\A t1 \in DOMAIN tuples : AllLive(tuples[t1].values))'
        BY <1>3 DEF IInv, HeapOK, AllLive
  <1>5. (\A k \in DOMAIN iterators : Live(iterators[k].over))'
        BY <1>3 DEF IInv, HeapOK
  <1>6. IteratorsInStep'
    <2>1. SUFFICES ASSUME NEW k \in DOMAIN iterators
                   PROVE  InStep(k)'
          BY DEF IteratorsInStep, InStep
    <2>2. LengthOf(iterators[k].over)' = LengthOf(iterators[k].over)
          BY <1>1 DEF IInv, HeapOK, IteratorsInStep, Live, LengthOf, Collections
    <2>3. QED
          BY <2>2 DEF IInv, HeapOK, IteratorsInStep, InStep
  <1>7. Ref("STRING", Len(strings')) \in Value /\ Live(Ref("STRING", Len(strings)))'
        BY <1>1 DEF Ref, Value, InWidth, Carriers, Types, Live
  <1>8. TuplesFilled'
        BY DEF IInv, HeapOK, TuplesFilled, Overflowed
  <1>9. QED
        BY <1>1, <1>2, <1>4, <1>5, <1>6, <1>7, <1>8 DEF IInv, HeapOK

(* tuple_create (value.c:68): a new tuple of usable values leaves the other  *)
(* objects in place.                                                         *)
LEMMA NewItems ==
  ASSUME IInv, NEW s \in TupleObject, AllLive(s.values),
         s.length = Len(s.values) \/ Overflowed(s),
         tuples' = Append(tuples, s), UNCHANGED <<loaded, strings, iterators>>
  PROVE  /\ HeapOK' /\ HeapGrows
         /\ Ref("TUPLE", Len(tuples')) \in Value /\ Live(Ref("TUPLE", Len(tuples)))'
  <1>1. /\ tuples \in Seq(TupleObject) /\ tuples' \in Seq(TupleObject)
        /\ Len(tuples') = Len(tuples) + 1
        /\ \A k \in DOMAIN tuples : k \in DOMAIN tuples' /\ tuples'[k] = tuples[k]
        /\ tuples'[Len(tuples')] = s
        BY DEF IInv, HeapOK
  <1>2. HeapGrows
        BY <1>1 DEF HeapGrows, Grows
  <1>3. \A v : Live(v) => Live(v)'
        BY <1>2, LiveStays DEF loaded
  <1>4. (\A t1 \in DOMAIN tuples : AllLive(tuples[t1].values))'
    <2>1. SUFFICES ASSUME NEW k \in DOMAIN tuples', NEW i \in DOMAIN tuples'[k].values
                   PROVE  Live(tuples[k].values[i])'
          BY DEF AllLive
    <2>2. CASE k \in DOMAIN tuples
          BY <1>1, <1>3, <2>2 DEF IInv, HeapOK, AllLive
    <2>3. CASE k = Len(tuples')
          BY <1>1, <1>3, <2>3 DEF AllLive
    <2>4. QED
          BY <1>1, <2>2, <2>3
  <1>5. (\A k \in DOMAIN iterators : Live(iterators[k].over))'
        BY <1>3 DEF IInv, HeapOK
  <1>6. IteratorsInStep'
    <2>1. SUFFICES ASSUME NEW k \in DOMAIN iterators
                   PROVE  InStep(k)'
          BY DEF IteratorsInStep, InStep
    <2>2. LengthOf(iterators[k].over)' = LengthOf(iterators[k].over)
          BY <1>1 DEF IInv, HeapOK, IteratorsInStep, Live, LengthOf, Collections
    <2>3. QED
          BY <2>2 DEF IInv, HeapOK, IteratorsInStep, InStep
  <1>7. Ref("TUPLE", Len(tuples')) \in Value /\ Live(Ref("TUPLE", Len(tuples)))'
        BY <1>1 DEF Ref, Value, InWidth, Carriers, Types, Live
  <1>8. TuplesFilled'
    <2>1. DOMAIN tuples' = DOMAIN tuples \cup {Len(tuples')}
          BY <1>1
    <2>2. ASSUME NEW k \in DOMAIN tuples'
          PROVE  tuples'[k].length = Len(tuples'[k].values) \/ Overflowed(tuples'[k])
      <3>1. CASE k \in DOMAIN tuples
            BY <1>1, <3>1 DEF IInv, HeapOK, TuplesFilled
      <3>2. CASE k = Len(tuples')
            BY <1>1, <3>2
      <3>3. QED
            BY <2>1, <3>1, <3>2
    <2>3. QED
          BY <2>2 DEF TuplesFilled, Overflowed
  <1>9. QED
        BY <1>1, <1>2, <1>4, <1>5, <1>6, <1>7, <1>8 DEF IInv, HeapOK

(* iterator_create (value.c:18): a new iterator starts inside the collection it *)
(* walks and leaves the other objects in place.                              *)
LEMMA NewIterator ==
  ASSUME IInv, NEW v \in Value, Live(v), v.type \in Collections,
         iterators' = Append(iterators, [over |-> v, index |-> 0, length |-> LengthOf(v)]),
         UNCHANGED <<loaded, strings, tuples>>
  PROVE  /\ HeapOK' /\ HeapGrows
         /\ Ref("ITERATOR", Len(iterators')) \in Value
         /\ Live(Ref("ITERATOR", Len(iterators)))'
  <1> DEFINE fresh == [over |-> v, index |-> 0, length |-> LengthOf(v)]
  <1>1. LengthOf(v) \in Int /\ (LengthOf(v) < 0 => fresh.length < 0) /\ fresh.index = 0
    <2>1. CASE v.type = "TUPLE"
      <3>1. v.contents \in DOMAIN tuples /\ tuples \in Seq(TupleObject)
            BY <2>1 DEF Live, IInv, HeapOK
      <3>2. tuples[v.contents] \in TupleObject
            BY <3>1
      <3>3. QED
            BY <2>1, <3>2 DEF LengthOf, TupleObject
    <2>2. CASE v.type # "TUPLE"
      <3>1. v.contents \in DOMAIN strings /\ strings \in Seq(Seq(Piece))
            BY <2>2 DEF Live, Collections, IInv, HeapOK
      <3>2. strings[v.contents] \in Seq(Piece)
            BY <3>1
      <3>3. QED
            BY <2>2, <3>2 DEF LengthOf
    <2>3. QED
          BY <2>1, <2>2
  <1>2. fresh \in IteratorRecord
        BY <1>1 DEF IteratorRecord
  <1>3. /\ iterators \in Seq(IteratorRecord) /\ iterators' \in Seq(IteratorRecord)
        /\ Len(iterators') = Len(iterators) + 1
        /\ \A k \in DOMAIN iterators : k \in DOMAIN iterators' /\ iterators'[k] = iterators[k]
        /\ iterators'[Len(iterators')] = fresh
        /\ DOMAIN iterators' = 1 .. Len(iterators')
        /\ DOMAIN iterators = 1 .. Len(iterators)
        BY <1>2 DEF IInv, HeapOK
  <1>4. HeapGrows
        BY <1>3 DEF HeapGrows, Grows
  <1>5. \A x : Live(x) => Live(x)'
        BY <1>4, LiveStays DEF loaded
  <1>6. (\A t \in DOMAIN tuples : AllLive(tuples[t].values))'
        BY <1>5 DEF IInv, HeapOK, AllLive
  <1>7. \A x : LengthOf(x)' = LengthOf(x)
        BY DEF LengthOf
  <1>8. ASSUME NEW k \in DOMAIN iterators'
        PROVE  Live(iterators[k].over)' /\ InStep(k)'
    <2>1. CASE k \in DOMAIN iterators
      <3>1. Live(iterators[k].over) /\ InStep(k)
            BY <2>1 DEF IInv, HeapOK, IteratorsInStep, InStep
      <3>2. iterators'[k] = iterators[k]
            BY <1>3, <2>1
      <3>3. QED
            BY <1>5, <1>7, <3>1, <3>2 DEF InStep
    <2>2. CASE k = Len(iterators')
      <3>1. iterators'[k] = fresh
            BY <1>3, <2>2
      <3>2. Live(v)'
            BY <1>5
      <3>3. InStep(k)'
            BY <1>1, <1>7, <3>1 DEF InStep
      <3>4. QED
            BY <3>1, <3>2, <3>3
    <2>3. QED
          BY <1>3, <2>1, <2>2
  <1>9. /\ (\A k \in DOMAIN iterators : Live(iterators[k].over))' /\ IteratorsInStep'
        /\ TuplesFilled'
        BY <1>7, <1>8 DEF IteratorsInStep, InStep, IInv, HeapOK, TuplesFilled, Overflowed
  <1>10. Ref("ITERATOR", Len(iterators')) \in Value /\ Live(Ref("ITERATOR", Len(iterators)))'
        BY <1>3 DEF Ref, Value, InWidth, Carriers, Types, Live
  <1>11. QED
        BY <1>3, <1>4, <1>6, <1>9, <1>10 DEF IInv, HeapOK

(* OP_DEREF's own step: the iterator read moves on (vm.c:505).               *)
LEMMA Advance ==
  ASSUME IInv, NEW k \in DOMAIN iterators, iterators[k].index # iterators[k].length,
         iterators[k].length >= 0,
         iterators' = [iterators EXCEPT ![k].index = @ + 1],
         UNCHANGED <<loaded, strings, tuples>>
  PROVE  HeapOK' /\ HeapGrows
  <1>1. iterators \in Seq(IteratorRecord)
        BY DEF IInv, HeapOK
  <1>2. /\ DOMAIN iterators' = DOMAIN iterators
        /\ \A j \in DOMAIN iterators :
             iterators'[j] = IF j = k THEN [iterators[k] EXCEPT !.index = iterators[k].index + 1]
                                      ELSE iterators[j]
        BY <1>1
  <1>3. \A j \in DOMAIN iterators :
           /\ iterators[j] \in IteratorRecord
           /\ iterators[j].index \in Nat /\ iterators[j].length \in Int
    <2>1. TAKE j \in DOMAIN iterators
    <2>2. iterators[j] \in IteratorRecord
          BY <1>1
    <2>3. QED
          BY <2>2 DEF IteratorRecord
  <1>4. \A j \in DOMAIN iterators :
          /\ iterators'[j].over = iterators[j].over
          /\ iterators'[j].length = iterators[j].length
          /\ iterators'[j].index = IF j = k THEN iterators[k].index + 1 ELSE iterators[j].index
          /\ iterators'[j] \in IteratorRecord
        BY <1>2, <1>3 DEF IteratorRecord
  <1>5. iterators' \in Seq(IteratorRecord)
        BY <1>1, <1>2, <1>4
  <1>6. HeapGrows
        BY <1>2 DEF HeapGrows, Grows
  <1>7. \A x : Live(x) => Live(x)'
        BY <1>6, LiveStays DEF loaded
  <1>8. (\A t \in DOMAIN tuples : AllLive(tuples[t].values))'
        BY <1>7 DEF IInv, HeapOK, AllLive
  <1>9. (\A j \in DOMAIN iterators : Live(iterators[j].over))'
        BY <1>2, <1>4, <1>7 DEF IInv, HeapOK
  <1>10. \A x : LengthOf(x)' = LengthOf(x)
        BY DEF LengthOf
  <1>11. ASSUME NEW j \in DOMAIN iterators
         PROVE  InStep(j)'
    <2>1. InStep(j)
          BY DEF IInv, HeapOK, IteratorsInStep, InStep
    <2>2. iterators[j].index \in Nat /\ iterators[j].length \in Int
          BY <1>3
    <2>3. QED
          BY <1>4, <1>10, <2>1, <2>2 DEF InStep
  <1>12. IteratorsInStep' /\ TuplesFilled'
        BY <1>2, <1>11 DEF IteratorsInStep, InStep, IInv, HeapOK, TuplesFilled, Overflowed
  <1>13. QED
        BY <1>5, <1>6, <1>8, <1>9, <1>12 DEF IInv, HeapOK
-------------------------------------------------------------------------------
(* What steps leave alone stays as it must be.                               *)

(* A step that neither calls nor returns keeps the chain of frames.          *)
LEMMA ControlKept ==
  ASSUME IInv, HeapGrows, UNCHANGED <<loaded, control>>
  PROVE  Loading' /\ ControlOK'
  <1>1. /\ functions' = functions /\ code' = code /\ program' = program
        /\ callStack' = callStack /\ frame' = frame /\ region' = region
        BY DEF loaded, control
  <1>2. \A v : Live(v) => Live(v)'
        BY <1>1, LiveStays
  <1>3. \A f : FrameOK(f) => FrameOK(f)'
        BY <1>1, <1>2 DEF FrameOK, AllLive, Prototype
  <1>4. Frames' = Frames
        BY <1>1 DEF Frames
  <1>5. \A f : RegionOf(f)' = RegionOf(f)
        BY <1>1 DEF RegionOf, Prototype
  <1>6. \A i : CallerRegion(i)' = CallerRegion(i)
        BY <1>4, <1>5 DEF CallerRegion
  <1>7. CallChain'
        BY <1>1, <1>4, <1>5, <1>6 DEF IInv, ControlOK, CallChain
  <1>8. QED
        BY <1>1, <1>3, <1>7 DEF IInv, Loading, ControlOK

(* Cells no step wrote are as usable as they were.                           *)
LEMMA CellsKept ==
  ASSUME IInv, HeapGrows, UNCHANGED loaded
  PROVE  /\ memory' = memory => MemoryOK'
         /\ registers' = registers => RegistersOK'
         /\ stack' = stack => StackOK'
         /\ output' = output => OutputOK'
  <1>1. \A v : Live(v) => Live(v)'
        BY LiveStays DEF loaded
  <1>2. QED
        BY <1>1 DEF IInv, CellsOK, MemoryOK, RegistersOK, StackOK, OutputOK, Holds, AllLive
-------------------------------------------------------------------------------
(* Writing a usable value keeps every cell usable.                           *)

(* A usable value put in a register (vm.c, every opcode with a destination). *)
LEMMA WriteRegister ==
  ASSUME IInv, HeapGrows, UNCHANGED loaded, NEW r \in Registers, NEW v \in Value, Live(v)',
         registers' = [registers EXCEPT ![r] = v]
  PROVE  RegistersOK'
  <1>1. \A x : Live(x) => Live(x)'
        BY LiveStays DEF loaded
  <1>2. QED
        BY <1>1 DEF IInv, CellsOK, RegistersOK, AllLive

(* A usable value put on the stack, below its bottom included (vm.c:115).    *)
LEMMA WriteStack ==
  ASSUME IInv, HeapGrows, UNCHANGED loaded, NEW a \in Int, NEW v \in Value, Live(v)',
         stack' = MemorySet(stack, a, v)
  PROVE  StackOK'
  <1>1. \A x : Live(x) => Live(x)'
        BY LiveStays DEF loaded
  <1>2. QED
        BY <1>1 DEF IInv, CellsOK, StackOK, Holds, MemorySet

(* A usable value put in memory (OP_STORE, vm.c:307).                        *)
LEMMA WriteMemory ==
  ASSUME IInv, HeapGrows, UNCHANGED loaded, NEW a \in Nat, NEW v \in Value, Live(v)',
         memory' = MemorySet(memory, a, v)
  PROVE  MemoryOK'
  <1>1. \A x : Live(x) => Live(x)'
        BY LiveStays DEF loaded
  <1>2. QED
        BY <1>1 DEF IInv, CellsOK, MemoryOK, Holds, MemorySet

(* A usable value printed (builtin__print, builtins.c:77).                   *)
LEMMA WriteOutput ==
  ASSUME IInv, HeapGrows, UNCHANGED loaded, NEW v \in Value, Live(v)',
         output' = Append(output, v)
  PROVE  OutputOK'
  <1>1. \A x : Live(x) => Live(x)'
        BY LiveStays DEF loaded
  <1>2. /\ output \in Seq(Value) /\ output' \in Seq(Value)
        /\ \A k \in DOMAIN output' :
             (k \in DOMAIN output /\ output'[k] = output[k]) \/ output'[k] = v
        BY DEF IInv, CellsOK, OutputOK
  <1>3. QED
        BY <1>1, <1>2 DEF IInv, CellsOK, OutputOK, AllLive
-------------------------------------------------------------------------------
(* The shapes most steps have.                                               *)

(* An opcode with one destination register keeps the invariant if its result *)
(* is usable and the heap only grew.                                         *)
LEMMA PutStep ==
  ASSUME IInv, HeapOK', HeapGrows, NEW r \in Registers, NEW v \in Value, Live(v)', Put(r, v)
  PROVE  IInv'
  <1>1. /\ UNCHANGED <<loaded, control>> /\ UNCHANGED loaded
        /\ registers' = [registers EXCEPT ![r] = v]
        /\ memory' = memory /\ stack' = stack /\ output' = output
        /\ sp' = sp /\ pc' = pc + 1 /\ status' = status
        BY DEF Put
  <1>2. Loading' /\ ControlOK'
        BY <1>1, ControlKept
  <1>3. CellsOK'
        BY <1>1, CellsKept, WriteRegister DEF CellsOK
  <1>4. Registered'
        BY <1>1 DEF IInv, Registered
  <1>5. QED
        BY <1>2, <1>3, <1>4 DEF IInv

(* The same for an opcode that makes no object.                              *)
LEMMA AssignStep ==
  ASSUME IInv, NEW r \in Registers, NEW v \in Value, Live(v), Assign(r, v)
  PROVE  IInv'
  <1>1. Put(r, v) /\ UNCHANGED <<loaded, heap>> /\ functions' = functions
        BY DEF Assign, Put, loaded
  <1>2. HeapOK' /\ HeapGrows
        BY <1>1, HeapKept
  <1>3. Live(v)'
        BY <1>1, <1>2, LiveStays
  <1>4. QED
        BY <1>1, <1>2, <1>3, PutStep

(* A jump keeps the invariant: the loop of vm_execute stops outside the region. *)
LEMMA BranchStep ==
  ASSUME IInv, NEW t \in Int, Branch(t)
  PROVE  IInv'
  <1>1. /\ UNCHANGED <<loaded, control>> /\ UNCHANGED loaded /\ UNCHANGED <<loaded, heap>>
        /\ memory' = memory /\ stack' = stack /\ output' = output /\ registers' = registers
        /\ sp' = sp /\ pc' = t /\ status' = status
        BY DEF Branch
  <1>2. HeapOK' /\ HeapGrows
        BY <1>1, HeapKept
  <1>3. Loading' /\ ControlOK' /\ CellsOK'
        BY <1>1, <1>2, ControlKept, CellsKept DEF CellsOK
  <1>4. Registered'
        BY <1>1 DEF IInv, Registered
  <1>5. QED
        BY <1>2, <1>3, <1>4 DEF IInv

(* A builtin that pops its arguments and pushes one usable value (builtins.c). *)
LEMMA Return1Step ==
  ASSUME IInv, HeapOK', HeapGrows, OutputOK', NEW n \in Int, NEW v \in Value, Live(v)',
         Return1(n, v)
  PROVE  IInv'
  <1>1. /\ UNCHANGED <<loaded, control>> /\ UNCHANGED loaded
        /\ memory' = memory /\ stack' = MemorySet(stack, sp - n, v) /\ registers' = registers
        /\ sp' = sp - n + 1 /\ pc' = pc + 1 /\ status' = status
        BY DEF Return1
  <1>2. sp - n \in Int
        BY DEF IInv, Registered
  <1>3. CellsOK'
        BY <1>1, <1>2, CellsKept, WriteStack DEF CellsOK
  <1>4. Loading' /\ ControlOK'
        BY <1>1, ControlKept
  <1>5. Registered'
        BY <1>1 DEF IInv, Registered
  <1>6. QED
        BY <1>3, <1>4, <1>5 DEF IInv

(* An execution that ends leaves everything else as it is.                   *)
LEMMA FailStep ==
  ASSUME IInv, NEW s \in {"halted", "aborted", "undefined"}, Fail(s)
  PROVE  IInv'
  <1>1. /\ UNCHANGED <<loaded, control>> /\ UNCHANGED loaded /\ UNCHANGED <<loaded, heap>>
        /\ memory' = memory /\ stack' = stack /\ output' = output /\ registers' = registers
        /\ sp' = sp /\ pc' = pc /\ status' = s
        BY DEF Fail
  <1>2. HeapOK' /\ HeapGrows
        BY <1>1, HeapKept
  <1>3. Loading' /\ ControlOK' /\ CellsOK'
        BY <1>1, <1>2, ControlKept, CellsKept DEF CellsOK
  <1>4. Registered'
        BY <1>1 DEF IInv, Registered
  <1>5. QED
        BY <1>2, <1>3, <1>4 DEF IInv
-------------------------------------------------------------------------------
(* One lemma per action or family of actions: it keeps the invariant.        *)

(* OP_NIL to OP_POP (vm.c:282-321).                                          *)
LEMMA MovesStep == ASSUME IInv, Moves PROVE IInv'
  <1>1. CASE LoadNil
    <2>1. Fetch("NIL") /\ Assign(Instruction.b, Nil)
          BY <1>1 DEF LoadNil
    <2>2. QED
          BY <2>1, Operands, ConstantsLive, AssignStep
  <1>2. CASE Load
    <2>1. PICK v : /\ v \in {StackGet(Instruction.b), MemoryGet(memory, Instruction.b)}
                   /\ Fetch("LOAD") /\ Assign(Instruction.a, v)
          BY <1>2 DEF Load
    <2>2. v \in Value /\ Live(v)
          BY <2>1, ReadMemory
    <2>3. QED
          BY <2>1, <2>2, Operands, AssignStep
  <1>3. CASE LoadImmediate
    <2>1. Fetch("LOADV") /\ Assign(Instruction.a, Int32(Instruction.b))
          BY <1>3 DEF LoadImmediate
    <2>2. QED
          BY <2>1, Operands, ConstantsLive, AssignStep
  <1>4. CASE Store
    <2>1. Fetch("STORE") /\ Left \in Value /\ Live(Left) /\ Instruction.a \in Nat
          BY <1>4, Operands, ReadRegister DEF Store, Left
    <2>2. /\ UNCHANGED <<loaded, control>> /\ UNCHANGED loaded /\ UNCHANGED <<loaded, heap>>
          /\ memory' = MemorySet(memory, Instruction.a, Left)
          /\ stack' = stack /\ output' = output /\ registers' = registers
          /\ sp' = sp /\ pc' = pc + 1 /\ status' = status /\ functions' = functions
          BY <1>4 DEF Store, Left, loaded
    <2>3. HeapOK' /\ HeapGrows
          BY <2>2, HeapKept
    <2>4. PICK v : v = Left
          OBVIOUS
    <2>5. Live(v)'
          BY <2>1, <2>2, <2>3, <2>4, LiveStays
    <2>6. MemoryOK'
          BY <2>1, <2>2, <2>3, <2>4, <2>5, WriteMemory
    <2>7. Loading' /\ ControlOK' /\ CellsOK' /\ Registered'
          BY <2>2, <2>3, <2>6, ControlKept, CellsKept DEF CellsOK, IInv, Registered
    <2>8. QED
          BY <2>3, <2>7 DEF IInv
  <1>5. CASE Move
    <2>1. Fetch("MOVE") /\ Assign(Instruction.a, Left) /\ Left \in Value /\ Live(Left)
          BY <1>5, Operands, ReadRegister DEF Move, Left
    <2>2. QED
          BY <2>1, Operands, AssignStep
  <1>6. CASE Push
    <2>1. PICK v : /\ v = Left /\ Fetch("PUSH") /\ Return1(0, v)
                   /\ UNCHANGED heap /\ output' = output
          BY <1>6 DEF Push
    <2>2. v \in Value /\ Live(v)
          BY <2>1, Operands, ReadRegister DEF Left
    <2>3. UNCHANGED <<loaded, heap>> /\ UNCHANGED loaded /\ functions' = functions
          BY <2>1 DEF Return1, loaded
    <2>4. HeapOK' /\ HeapGrows
          BY <2>3, HeapKept
    <2>5. Live(v)' /\ OutputOK'
          BY <2>1, <2>2, <2>3, <2>4, LiveStays, CellsKept
    <2>6. QED
          BY <2>1, <2>2, <2>4, <2>5, Return1Step
  <1>7. CASE Pop
    <2>1. PICK v : /\ v = Popped(1) /\ Fetch("POP")
                   /\ registers' = [registers EXCEPT ![Instruction.b] = v]
          BY <1>7 DEF Pop
    <2>2. v \in Value /\ Live(v)
          BY <2>1, ReadMemory, ConstantsLive DEF Popped
    <2>3. /\ UNCHANGED <<loaded, control>> /\ UNCHANGED loaded /\ UNCHANGED <<loaded, heap>>
          /\ memory' = memory /\ stack' = stack /\ output' = output
          /\ sp' = sp - 1 /\ pc' = pc + 1 /\ status' = status /\ functions' = functions
          BY <1>7 DEF Pop, loaded
    <2>4. HeapOK' /\ HeapGrows
          BY <2>3, HeapKept
    <2>5. Live(v)'
          BY <2>2, <2>3, <2>4, LiveStays
    <2>6. RegistersOK'
          BY <2>1, <2>2, <2>3, <2>4, <2>5, Operands, WriteRegister
    <2>7. Loading' /\ ControlOK' /\ CellsOK' /\ Registered'
          BY <2>3, <2>4, <2>6, ControlKept, CellsKept DEF CellsOK, IInv, Registered
    <2>8. QED
          BY <2>4, <2>7 DEF IInv
  <1>8. CASE Skip
    <2>1. Branch(pc + 1) /\ pc + 1 \in Int
          BY <1>8 DEF Skip, Branch, IInv, Registered
    <2>2. QED
          BY <2>1, BranchStep
  <1>9. QED
        BY <1>1, <1>2, <1>3, <1>4, <1>5, <1>6, <1>7, <1>8 DEF Moves

(* OP_JMP, OP_EQUAL and OP_LESSTHAN (vm.c:323-367).                          *)
LEMMA JumpsStep == ASSUME IInv, Jumps PROVE IInv'
  <1>1. CASE Jump
    <2>1. PICK n \in NumberViews(Left) : Fetch("JMP") /\ Branch(pc + n)
          BY <1>1 DEF Jump
    <2>2. n \in Number
          BY <2>1, Operands, ReadRegister, ViewsInRange DEF Left
    <2>3. pc + n \in Int
          BY <2>2, NumbersAssumption DEF Number, IInv, Registered
    <2>4. QED
          BY <2>1, <2>3, BranchStep
  <1>2. CASE Equal \/ LessThan
    <2>1. Branch(pc + 1) \/ Branch(pc + 2)
          BY <1>2 DEF Equal, LessThan, SkipUnless
    <2>2. pc + 1 \in Int /\ pc + 2 \in Int
          BY DEF IInv, Registered
    <2>3. QED
          BY <2>1, <2>2, BranchStep
  <1>3. QED
        BY <1>1, <1>2 DEF Jumps

(* The failed asserts and the end of the loop of vm_execute.                 *)
LEMMA EndsStep == ASSUME IInv, Ends PROVE IInv'
  BY FailStep DEF Ends, Abort, Misbehave, Halt

(* Truth values end up in words that are numbers.                            *)
LEMMA OutcomesBoolean ==
  \A l, r : AndOutcomes(l, r) \subseteq BOOLEAN /\ OrOutcomes(l, r) \subseteq BOOLEAN
  BY DEF AndOutcomes, OrOutcomes

(* OP_NOT yields a truth value whatever it is given (vm.c:464).              *)
LEMMA NotBoolean ==
  \A v : \A e \in BOOLEAN : NotOutcomes(v, e) \subseteq BOOLEAN
  <1>1. SUFFICES ASSUME NEW v, NEW e \in BOOLEAN, NEW x \in NotOutcomes(v, e)
                 PROVE  x \in BOOLEAN
        OBVIOUS
  <1>2. CASE v.type \in {"INT", "BOOLEAN"}
        BY <1>2 DEF NotOutcomes
  <1>3. CASE v.type = "ABSENT"
        BY <1>3 DEF NotOutcomes
  <1>4. CASE v.type = "STRING"
        BY <1>4 DEF NotOutcomes
  <1>5. CASE v.type \notin {"INT", "BOOLEAN", "ABSENT", "STRING"}
        BY <1>5 DEF NotOutcomes
  <1>6. QED
        BY <1>2, <1>3, <1>4, <1>5

(* OP_AND, OP_OR and OP_NOT store a bool in an uncleared word (vm.c:369-395). *)
LEMMA TruthStep ==
  ASSUME IInv, NEW r \in Registers, NEW b \in BOOLEAN, AssignTruth(r, b)
  PROVE  IInv'
  <1>1. PICK w \in DirtyWords(b) : Assign(r, Boolean(w))
        BY DEF AssignTruth
  <1>2. w \in Number
        BY DirtyInRange
  <1>3. QED
        BY <1>1, <1>2, ConstantsLive, AssignStep

(* An arithmetic opcode stores an int of 32 bits (vm.c:397-466).             *)
LEMMA NumberStep ==
  ASSUME IInv, NEW r \in Registers, NEW n \in Int, Assign(r, Int32(Wrap(n)))
  PROVE  IInv'
  BY WrapInRange, ConstantsLive, AssignStep

(* OP_ADD to OP_NOT (vm.c:369-487): texts are concatenated into new objects. *)
LEMMA ComputesStep == ASSUME IInv, Computes PROVE IInv'
  <1> USE DEF Arithmetic, Relational, Logical
  <1>1. ASSUME NEW op \in {"ADD", "SUBTRACT", "MULTIPLY", "DIVIDE", "MODULO", "AND", "OR"},
               Fetch(op)
        PROVE  /\ Instruction.a \in Registers
               /\ Left \in Value /\ Live(Left) /\ Right \in Value /\ Live(Right)
               /\ \A x \in NumberViews(Left) : x \in Number /\ x \in Int
               /\ \A y \in NumberViews(Right) : y \in Number /\ y \in Int
    <2>1. /\ Instruction.a \in Registers
          /\ Left \in Value /\ Live(Left) /\ Right \in Value /\ Live(Right)
          BY <1>1, Operands, ReadRegister DEF Left, Right
    <2>2. QED
          BY <2>1, ViewsInRange, NumbersAssumption DEF Number
  <1>2. ASSUME NEW op \in {"NEGATE", "NOT"}, Fetch(op)
        PROVE  /\ Instruction.a \in Registers
               /\ \A x \in NumberViews(Left) : x \in Int
    <2>1. Instruction.a \in Registers /\ Left \in Value /\ Live(Left)
          BY <1>2, Operands, ReadRegister DEF Left
    <2>2. QED
          BY <2>1, ViewsInRange, NumbersAssumption DEF Number
  <1>3. ASSUME Instruction.a \in Registers, Assign(Instruction.a, Float)
        PROVE  IInv'
        BY <1>3, ConstantsLive, AssignStep
  <1>4. CASE Add
    <2>1. Fetch("ADD")
          BY <1>4 DEF Add
    <2>2. \/ Assign(Instruction.a, Float)
          \/ \E x \in NumberViews(Left), y \in NumberViews(Right) :
               Assign(Instruction.a, Int32(Wrap(x + y)))
          BY <1>4 DEF Add, Numeric
    <2>3. QED
          BY <1>1, <1>3, <2>1, <2>2, NumberStep
  <1>5. CASE Subtract
    <2>1. Fetch("SUBTRACT")
          BY <1>5 DEF Subtract
    <2>2. \/ Assign(Instruction.a, Float)
          \/ \E x \in NumberViews(Left), y \in NumberViews(Right) :
               Assign(Instruction.a, Int32(Wrap(x - y)))
          BY <1>5 DEF Subtract, Numeric
    <2>3. QED
          BY <1>1, <1>3, <2>1, <2>2, NumberStep
  <1>6. CASE Multiply
    <2>1. Fetch("MULTIPLY")
          BY <1>6 DEF Multiply
    <2>2. \/ Assign(Instruction.a, Float)
          \/ \E x \in NumberViews(Left), y \in NumberViews(Right) :
               Assign(Instruction.a, Int32(Wrap(x * y)))
          BY <1>6 DEF Multiply, Numeric
    <2>3. QED
      <3>1. CASE Assign(Instruction.a, Float)
            BY <1>1, <1>3, <2>1, <3>1
      <3>2. ASSUME NEW x \in NumberViews(Left), NEW y \in NumberViews(Right),
                   Assign(Instruction.a, Int32(Wrap(x * y)))
            PROVE  IInv'
        <4>1. x \in Int /\ y \in Int /\ Instruction.a \in Registers
              BY <1>1, <2>1
        <4>2. x * y \in Int
              BY <4>1
        <4>3. QED
              BY <3>2, <4>1, <4>2, NumberStep
      <3>3. QED
            BY <2>2, <3>1, <3>2
  <1>7. CASE Divide
        BY <1>1, <1>3, <1>7 DEF Divide
  <1>8. CASE Modulo
    <2>1. Fetch("MODULO")
          BY <1>8 DEF Modulo
    <2>2. PICK x \in NumberViews(Left), y \in NumberViews(Right) :
               Assign(Instruction.a, Int32(Remainder(x, y)))
          BY <1>8 DEF Modulo
    <2>3. y # 0
          BY <2>1 DEF Fetch, Misbehaves
    <2>4. x \in Number /\ y \in Number
          BY <1>1, <2>1
    <2>5. Remainder(x, y) \in Number
          BY <2>3, <2>4, RemainderInRange
    <2>6. QED
          BY <1>1, <2>1, <2>2, <2>5, ConstantsLive, AssignStep
  <1>9. CASE Negate
    <2>1. Fetch("NEGATE")
          BY <1>9 DEF Negate
    <2>2. PICK x \in NumberViews(Left) : Assign(Instruction.a, Int32(Wrap(-x)))
          BY <1>9 DEF Negate
    <2>3. x \in Int /\ -x \in Int
          BY <1>2, <2>1
    <2>4. QED
          BY <1>2, <2>1, <2>2, <2>3, NumberStep
  <1>10. CASE And
    <2>1. Fetch("AND")
          BY <1>10 DEF And
    <2>2. PICK b \in AndOutcomes(Left, Right) : AssignTruth(Instruction.a, b)
          BY <1>10 DEF And
    <2>3. QED
          BY <1>1, <2>1, <2>2, OutcomesBoolean, TruthStep
  <1>11. CASE Or
    <2>1. Fetch("OR")
          BY <1>11 DEF Or
    <2>2. PICK b \in OrOutcomes(Left, Right) : AssignTruth(Instruction.a, b)
          BY <1>11 DEF Or
    <2>3. QED
          BY <1>1, <2>1, <2>2, OutcomesBoolean, TruthStep
  <1>12. CASE Not
    <2>1. Fetch("NOT")
          BY <1>12 DEF Not
    <2>2. PICK b \in NotOutcomes(Left, Left.type = "STRING"
                                         /\ strings[Left.contents] = <<>>) :
               AssignTruth(Instruction.a, b)
          BY <1>12 DEF Not
    <2>3. b \in BOOLEAN
          BY <2>2, NotBoolean
    <2>4. QED
          BY <1>2, <2>1, <2>2, <2>3, TruthStep
  <1>13. CASE Concatenate
    <2>1. /\ Fetch("ADD") /\ Concatenates
          /\ strings' = Append(strings, strings[Left.contents] \o strings[Right.contents])
          /\ Put(Instruction.a, Ref("STRING", Len(strings')))
          /\ UNCHANGED <<loaded, tuples, iterators>>
          BY <1>13 DEF Concatenate, Put
    <2>2. PICK text : text = strings[Left.contents] \o strings[Right.contents]
          OBVIOUS
    <2>3. Left.contents \in DOMAIN strings /\ Right.contents \in DOMAIN strings
          BY <1>1, <2>1 DEF Live, Concatenates
    <2>4. text \in Seq(Piece)
          BY <2>2, <2>3 DEF IInv, HeapOK
    <2>5. /\ HeapOK' /\ HeapGrows
          /\ Ref("STRING", Len(strings')) \in Value /\ Live(Ref("STRING", Len(strings)))'
          BY <2>1, <2>2, <2>4, NewText
    <2>6. PICK v : v = Ref("STRING", Len(strings'))
          OBVIOUS
    <2>7. Live(v)'
          BY <2>5, <2>6
    <2>8. QED
          BY <1>1, <2>1, <2>5, <2>6, <2>7, PutStep
  <1>14. QED
         BY <1>4, <1>5, <1>6, <1>7, <1>8, <1>9, <1>10, <1>11, <1>12, <1>13 DEF Computes

(* OP_DEREF (vm.c:489-522): at the end, nil; before it, the element.         *)
(* OP_DEREF that goes on reads inside the array of a tuple whose length its  *)
(* iterator knows (vm.c:495-512).                                            *)
LEMMA ReadsWithin ==
  ASSUME IInv, Fetch("DEREF"), Left.type = "ITERATOR", ~Exhausted
  PROVE  /\ Iterator.length >= 0
         /\ Iterator.over.type = "TUPLE" =>
              LET t == Iterator.over.contents
              IN  /\ t \in DOMAIN tuples /\ tuples[t] \in TupleObject
                  /\ Iterator.index + 1 \in DOMAIN tuples[t].values
                  /\ Iterator.length = Len(tuples[t].values)
  <1>1. Left.contents \in DOMAIN iterators
        BY Operands, ReadRegister DEF Left, Live
  <1>2. PICK it : it = Iterator
        OBVIOUS
  <1>3. Live(it.over) /\ it.over.type \in Collections /\ it.length = LengthOf(it.over)
        BY <1>1, <1>2 DEF Iterator, IInv, HeapOK, IteratorsInStep
  <1>4. CASE it.over.type = "TUPLE"
    <2>1. PICK t : t = it.over.contents
          OBVIOUS
    <2>2. t \in DOMAIN tuples /\ tuples \in Seq(TupleObject)
          BY <1>3, <1>4, <2>1 DEF Live, IInv, HeapOK
    <2>3. tuples[t] \in TupleObject
          BY <2>2
    <2>4. it.index + 1 \in DOMAIN tuples[t].values
          BY <1>2, <1>4, <2>1 DEF Fetch, Misbehaves, ReadsOutside
    <2>5. tuples[t].values \in Seq(Value) /\ tuples[t].values # <<>>
          BY <2>3, <2>4 DEF TupleObject
    <2>6. it.length = Len(tuples[t].values)
          BY <1>3, <1>4, <2>1, <2>2, <2>5 DEF LengthOf, IInv, HeapOK, TuplesFilled, Overflowed
    <2>7. QED
          BY <1>2, <1>4, <2>1, <2>2, <2>3, <2>4, <2>5, <2>6
  <1>5. CASE it.over.type # "TUPLE"
    <2>1. it.over.contents \in DOMAIN strings /\ strings \in Seq(Seq(Piece))
          BY <1>3, <1>5 DEF Live, Collections, IInv, HeapOK
    <2>2. strings[it.over.contents] \in Seq(Piece)
          BY <2>1
    <2>3. QED
          BY <1>2, <1>3, <1>5, <2>2 DEF LengthOf
  <1>6. QED
        BY <1>4, <1>5

LEMMA IteratesStep == ASSUME IInv, Iterates PROVE IInv'
  <1>1. CASE DerefEnd
    <2>1. Fetch("DEREF") /\ Assign(Instruction.a, Nil)
          BY <1>1 DEF DerefEnd
    <2>2. QED
          BY <2>1, Operands, ConstantsLive, AssignStep
  <1>2. CASE DerefNext
    <2>1. /\ Fetch("DEREF") /\ Left.type = "ITERATOR" /\ ~Exhausted
          /\ Put(Instruction.a, Element(Iterator))
          /\ UNCHANGED <<loaded, strings, tuples>>
          BY <1>2 DEF DerefNext, Put
    <2>2. Instruction.a \in Registers /\ Instruction.c = 1 /\ Left \in Value /\ Live(Left)
          BY <2>1, Operands, ReadRegister DEF Left
    <2>3. PICK k : k = Left.contents
          OBVIOUS
    <2>4. k \in DOMAIN iterators /\ iterators[k].index # iterators[k].length
          BY <2>1, <2>2, <2>3 DEF Live, Exhausted, Iterator
    <2>5. iterators' = [iterators EXCEPT ![k].index = @ + 1]
          BY <1>2, <2>2, <2>3 DEF DerefNext
    <2>6. HeapOK' /\ HeapGrows
      <3>1. iterators[k].length >= 0
            BY <2>1, <2>2, <2>3, ReadsWithin DEF Iterator
      <3>2. QED
            BY <2>1, <2>4, <2>5, <3>1, Advance
    <2>7. PICK v : v = Element(Iterator)
          OBVIOUS
    <2>8. v \in Value /\ Live(v)
      <3>1. CASE iterators[k].over.type # "TUPLE"
            BY <2>3, <2>7, <3>1, ConstantsLive DEF Element, Iterator
      <3>2. CASE iterators[k].over.type = "TUPLE"
        <4>1. PICK t, i : t = iterators[k].over.contents /\ i = iterators[k].index + 1
              OBVIOUS
        <4>2. /\ t \in DOMAIN tuples /\ tuples[t] \in TupleObject
              /\ i \in DOMAIN tuples[t].values /\ v = tuples[t].values[i]
              BY <2>1, <2>3, <2>7, <3>2, <4>1, ReadsWithin DEF Element, Iterator
        <4>3. AllLive(tuples[t].values) /\ tuples[t].values \in Seq(Value)
              BY <4>2 DEF IInv, HeapOK, TupleObject
        <4>4. QED
              BY <4>2, <4>3 DEF AllLive
      <3>3. QED
            BY <3>1, <3>2
    <2>9. Live(v)'
          BY <2>1, <2>6, <2>8, LiveStays DEF loaded
    <2>10. QED
           BY <2>1, <2>2, <2>6, <2>7, <2>8, <2>9, PutStep
  <1>3. QED
        BY <1>1, <1>2 DEF Iterates

(* A builtin that makes no object, and may print.                            *)
LEMMA PlainStep ==
  ASSUME IInv, NEW n \in Int, NEW v \in Value, Live(v), Return1(n, v), UNCHANGED heap,
         \/ output' = output
         \/ \E x \in Value : Live(x) /\ output' = Append(output, x)
  PROVE  IInv'
  <1>1. UNCHANGED <<loaded, heap>> /\ UNCHANGED loaded
        BY DEF Return1
  <1>2. HeapOK' /\ HeapGrows
        BY <1>1, HeapKept
  <1>3. \A x : Live(x) => Live(x)'
        BY <1>1, <1>2, LiveStays DEF loaded
  <1>4. OutputOK'
    <2>1. CASE output' = output
          BY <1>1, <1>2, <2>1, CellsKept
    <2>2. ASSUME NEW x \in Value, Live(x), output' = Append(output, x)
          PROVE  OutputOK'
          BY <1>1, <1>2, <1>3, <2>2, WriteOutput
    <2>3. QED
          BY <2>1, <2>2
  <1>5. QED
        BY <1>2, <1>3, <1>4, Return1Step

(* A builtin that answers with a new text: type and string.                  *)
LEMMA NewStringStep ==
  ASSUME IInv, NEW text \in Seq(Piece), NewString(text)
  PROVE  IInv'
  <1>1. /\ strings' = Append(strings, text)
        /\ Return1(1, Ref("STRING", Len(strings')))
        /\ UNCHANGED <<loaded, tuples, iterators>> /\ UNCHANGED loaded /\ output' = output
        BY DEF NewString, Return1
  <1>2. /\ HeapOK' /\ HeapGrows
        /\ Ref("STRING", Len(strings')) \in Value /\ Live(Ref("STRING", Len(strings)))'
        BY <1>1, NewText
  <1>3. PICK v : v = Ref("STRING", Len(strings'))
        OBVIOUS
  <1>4. Live(v)' /\ OutputOK'
        BY <1>1, <1>2, <1>3, CellsKept
  <1>5. QED
        BY <1>1, <1>2, <1>3, <1>4, Return1Step

(* A builtin that answers with a new tuple: tuple and range.                 *)
LEMMA NewTupleStep ==
  ASSUME IInv, NEW s \in TupleObject, AllLive(s.values),
         s.length = Len(s.values) \/ Overflowed(s), NEW n \in Int, NewTuple(s, n)
  PROVE  IInv'
  <1>1. /\ tuples' = Append(tuples, s)
        /\ Return1(n, Ref("TUPLE", Len(tuples')))
        /\ UNCHANGED <<loaded, strings, iterators>> /\ UNCHANGED loaded /\ output' = output
        BY DEF NewTuple, Return1
  <1>2. /\ HeapOK' /\ HeapGrows
        /\ Ref("TUPLE", Len(tuples')) \in Value /\ Live(Ref("TUPLE", Len(tuples)))'
        BY <1>1, NewItems
  <1>3. PICK v : v = Ref("TUPLE", Len(tuples'))
        OBVIOUS
  <1>4. Live(v)' /\ OutputOK'
        BY <1>1, <1>2, <1>3, CellsKept
  <1>5. QED
        BY <1>1, <1>2, <1>3, <1>4, Return1Step

(* int and string on types they have no case for: popped, nothing pushed.    *)
LEMMA DroppedStep ==
  ASSUME IInv, Dropped
  PROVE  IInv'
  <1>1. /\ UNCHANGED <<loaded, control>> /\ UNCHANGED loaded /\ UNCHANGED <<loaded, heap>>
        /\ memory' = memory /\ stack' = stack /\ output' = output /\ registers' = registers
        /\ sp' = sp - 1 /\ pc' = pc + 1 /\ status' = status
        BY DEF Dropped
  <1>2. HeapOK' /\ HeapGrows
        BY <1>1, HeapKept
  <1>3. Loading' /\ ControlOK' /\ CellsOK'
        BY <1>1, <1>2, ControlKept, CellsKept DEF CellsOK
  <1>4. Registered'
        BY <1>1 DEF IInv, Registered
  <1>5. QED
        BY <1>2, <1>3, <1>4 DEF IInv

(* builtin__range makes ints between its bounds (builtins.c:158-184).        *)
LEMMA SpanLive ==
  ASSUME NEW x \in Number, NEW y \in Number
  PROVE  /\ Span(x, y) \in TupleObject /\ AllLive(Span(x, y).values)
         /\ Span(x, y).length = Len(Span(x, y).values) \/ Overflowed(Span(x, y))
  <1>1. PICK n : n = SpanLength(x, y)
        OBVIOUS
  <1>2. /\ x \in Int /\ y \in Int /\ NumberHalf \in Nat
        /\ -NumberHalf <= x /\ x < NumberHalf /\ -NumberHalf <= y /\ y < NumberHalf
        BY NumbersAssumption DEF Number
  <1>3. n \in Int /\ n <= Magnitude(y - x) + 1 /\ (x = y => n = 0)
    <2>1. CASE x = y
          BY <1>1, <1>2, <2>1 DEF SpanLength, Magnitude
    <2>2. CASE x # y
      <3>1. PICK m : m = Magnitude(y - x) + 1
            OBVIOUS
      <3>2. m \in 2 .. 2 * NumberHalf
            BY <1>2, <2>2, <3>1 DEF Magnitude
      <3>3. n = Wrap(m)
            BY <1>1, <2>2, <3>1 DEF SpanLength
      <3>4. Wrap(m) \in Int /\ Wrap(m) <= m
        <4>1. CASE m < NumberHalf
          <5>1. (m + NumberHalf) % (2 * NumberHalf) = m + NumberHalf
                BY <1>2, <3>2, <4>1
          <5>2. QED
                BY <1>2, <3>2, <5>1 DEF Wrap
        <4>2. CASE m >= NumberHalf
          <5>1. Wrap(m) \in Number
                BY <3>2, WrapInRange
          <5>2. QED
                BY <1>2, <3>2, <4>2, <5>1 DEF Number
        <4>3. QED
              BY <1>2, <3>2, <4>1, <4>2
      <3>5. QED
            BY <2>2, <3>1, <3>3, <3>4
    <2>3. QED
          BY <2>1, <2>2
  <1>4. PICK s : s = [i \in 1 .. n |-> Int32(IF x < y THEN x + (i - 1) ELSE x - (i - 1))]
        OBVIOUS
  <1>5. Span(x, y) = [length |-> n, values |-> s]
        BY <1>1, <1>4 DEF Span
  <1>6. \A i \in 1 .. n : s[i] \in Value /\ Live(s[i])
    <2>1. TAKE i \in 1 .. n
    <2>2. i \in Int /\ 1 <= i /\ i <= Magnitude(y - x) + 1 /\ x # y
          BY <1>2, <1>3 DEF Magnitude
    <2>3. (IF x < y THEN x + (i - 1) ELSE x - (i - 1)) \in Number
          BY <1>2, <2>2 DEF Magnitude, Number
    <2>4. QED
          BY <1>4, <2>3, ConstantsLive
  <1>7. CASE n >= 0
    <2>1. s \in Seq(Value) /\ Len(s) = n /\ AllLive(s)
          BY <1>3, <1>4, <1>6, <1>7 DEF AllLive
    <2>2. QED
          BY <1>3, <1>5, <2>1 DEF TupleObject
  <1>8. CASE n < 0
    <2>1. 1 .. n = {}
          BY <1>3, <1>8
    <2>2. s = <<>>
          BY <1>4, <2>1
    <2>3. QED
          BY <1>3, <1>5, <1>8, <2>2 DEF TupleObject, Overflowed, AllLive
  <1>9. QED
        BY <1>3, <1>7, <1>8

(* builtin__type knows a name for every type (builtins.c:195-236).           *)
LEMMA TypeNameText == \A t : TypeName(t) \in Piece
  <1>1. TypeName("INT") = "integer" /\ TypeName("FLOAT") = "float"
        BY DEF TypeName
  <1>2. TypeName("BOOLEAN") = "boolean" /\ TypeName("STRING") = "string"
        BY DEF TypeName
  <1>3. TypeName("TUPLE") = "tuple" /\ TypeName("ITERATOR") = "iterator"
        BY DEF TypeName
  <1>4. TypeName("NIL") = "nil" /\ TypeName("FUNCTION") = "function"
        BY DEF TypeName
  <1>5. \A t : t \notin {"INT", "FLOAT", "BOOLEAN", "STRING", "TUPLE", "ITERATOR", "NIL",
                         "FUNCTION"} => TypeName(t) = ""
        BY DEF TypeName
  <1>6. QED
        BY <1>1, <1>2, <1>3, <1>4, <1>5, MachineAssumption DEF Words

(* Every builtin (builtins.c:77-291) keeps the invariant.                    *)
LEMMA BuiltinStep == ASSUME IInv, BuiltinCall PROVE IInv'
  <1>1. \A k : Popped(k) \in Value /\ Live(Popped(k))
        BY ReadMemory DEF Popped
  <1>2. CASE BuiltinPrintLine
    <2>1. PICK w \in DirtyWords(TRUE) : Return1(0, Boolean(w))
          BY <1>2 DEF BuiltinPrintLine
    <2>2. UNCHANGED heap /\ output' = Append(output, Absent)
          BY <1>2 DEF BuiltinPrintLine
    <2>3. Boolean(w) \in Value /\ Live(Boolean(w)) /\ Absent \in Value /\ Live(Absent)
          BY DirtyInRange, ConstantsLive
    <2>4. QED
          BY <2>1, <2>2, <2>3, PlainStep
  <1>3. CASE BuiltinPrint
    <2>1. PICK w \in DirtyWords(TRUE) : Return1(1, Boolean(w))
          BY <1>3 DEF BuiltinPrint
    <2>2. UNCHANGED heap /\ output' = Append(output, Popped(1))
          BY <1>3 DEF BuiltinPrint
    <2>3. Boolean(w) \in Value /\ Live(Boolean(w))
          BY DirtyInRange, ConstantsLive
    <2>4. QED
          BY <1>1, <2>1, <2>2, <2>3, PlainStep
  <1>4. CASE BuiltinTime
    <2>1. PICK t \in Clock : Return1(0, Int32(t))
          BY <1>4 DEF BuiltinTime
    <2>2. UNCHANGED heap /\ output' = output
          BY <1>4 DEF BuiltinTime
    <2>3. Int32(t) \in Value /\ Live(Int32(t))
          BY MachineAssumption, ConstantsLive
    <2>4. QED
          BY <2>1, <2>2, <2>3, PlainStep
  <1>5. CASE BuiltinIter
    <2>1. PICK v : v = Popped(1)
          OBVIOUS
    <2>2. /\ v \in Value /\ Live(v) /\ v.type \in Collections
          /\ iterators' = Append(iterators, [over |-> v, index |-> 0, length |-> LengthOf(v)])
          /\ Return1(1, Ref("ITERATOR", Len(iterators')))
          /\ UNCHANGED <<loaded, strings, tuples>> /\ UNCHANGED loaded /\ output' = output
          BY <1>1, <1>5, <2>1 DEF BuiltinIter, Return1
    <2>3. /\ HeapOK' /\ HeapGrows
          /\ Ref("ITERATOR", Len(iterators')) \in Value
          /\ Live(Ref("ITERATOR", Len(iterators)))'
          BY <2>2, NewIterator
    <2>4. PICK w : w = Ref("ITERATOR", Len(iterators'))
          OBVIOUS
    <2>5. Live(w)' /\ OutputOK'
          BY <2>2, <2>3, <2>4, CellsKept
    <2>6. QED
          BY <2>2, <2>3, <2>4, <2>5, Return1Step
  <1>6. CASE BuiltinTuple
    <2>1. PICK n : n = registers[0].contents
          OBVIOUS
    <2>2. n \in Int
      <3>1. registers[0] \in Value
            BY ReadRegister, MachineAssumption DEF Registers
      <3>2. QED
            BY <2>1, <3>1 DEF Value
    <2>3. PICK s : s = [i \in 1 .. n |-> Popped(i)]
          OBVIOUS
    <2>4. n \in Nat
          BY <1>6, <2>1, <2>2 DEF BuiltinTuple, Calls, Fetch, Misbehaves
    <2>5. s \in Seq(Value) /\ Len(s) = n /\ AllLive(s)
          BY <1>1, <2>3, <2>4 DEF AllLive
    <2>6. PICK tuple : tuple = [length |-> n, values |-> s]
          OBVIOUS
    <2>7. /\ tuple \in TupleObject /\ AllLive(tuple.values)
          /\ tuple.length = Len(tuple.values)
          BY <2>2, <2>5, <2>6 DEF TupleObject
    <2>8. NewTuple(tuple, n)
          BY <1>6, <2>1, <2>3, <2>6 DEF BuiltinTuple
    <2>9. QED
          BY <2>2, <2>7, <2>8, NewTupleStep
  <1>7. CASE BuiltinRange
    <2>1. PICK x, y : x = Popped(1).contents /\ y = Popped(2).contents
          OBVIOUS
    <2>2. x \in Number /\ y \in Number
          BY <1>1, <1>7, <2>1 DEF BuiltinRange, Bounded, Value, InWidth, Carriers
    <2>3. NewTuple(Span(x, y), 2)
          BY <1>7, <2>1 DEF BuiltinRange
    <2>4. QED
          BY <2>2, <2>3, SpanLive, NewTupleStep
  <1>8. CASE BuiltinType
    <2>1. TypeName(Popped(1).type) \in Piece
          BY TypeNameText
    <2>2. NewString(<<TypeName(Popped(1).type)>>)
          BY <1>8 DEF BuiltinType
    <2>3. <<TypeName(Popped(1).type)>> \in Seq(Piece)
          BY <2>1
    <2>4. QED
          BY <2>2, <2>3, NewStringStep
  <1>9. CASE BuiltinInt
    <2>1. CASE Dropped
          BY <2>1, DroppedStep
    <2>2. CASE ~Dropped
      <3>1. PICK n \in (IF Popped(1).type = "FLOAT" THEN Wild
                        ELSE {IF ByteOf(Popped(1)) = 0 THEN 0 ELSE 1}) : Return1(1, Int32(n))
            BY <1>9, <2>2 DEF BuiltinInt
      <3>2. UNCHANGED heap /\ output' = output
            BY <1>9, <2>2 DEF BuiltinInt
      <3>3. n \in Number
            BY NumbersAssumption DEF Number
      <3>4. QED
            BY <3>1, <3>2, <3>3, ConstantsLive, PlainStep
    <2>3. QED
          BY <2>1, <2>2
  <1>10. CASE BuiltinString
    <2>1. CASE Dropped
          BY <2>1, DroppedStep
    <2>2. CASE ~Dropped
      <3>1. NewString(TextOf(Popped(1)))
            BY <1>10, <2>2 DEF BuiltinString
      <3>2. PICK v : v = Popped(1)
            OBVIOUS
      <3>3. v \in Value /\ Live(v)
            BY <1>1, <3>2
      <3>4. v.type = "INT" => Decimal(v.contents) \in Piece
            BY <3>3, MachineAssumption DEF Value, InWidth, Carriers
      <3>5. TextOf(v) \in Seq(Piece)
        <4>1. CASE v.type = "INT"
              BY <3>4, <4>1 DEF TextOf
        <4>2. CASE v.type = "FLOAT"
          <5>1. TextOf(v) = <<"float">>
                BY <4>2 DEF TextOf
          <5>2. "float" \in Piece
                BY MachineAssumption DEF Words
          <5>3. QED
                BY <5>1, <5>2
        <4>3. CASE v.type \notin {"INT", "FLOAT"}
          <5>1. TextOf(v) = <<IF ByteOf(v) = 0 THEN "false" ELSE "true">>
                BY <4>3 DEF TextOf
          <5>2. "false" \in Piece /\ "true" \in Piece
                BY MachineAssumption DEF Words
          <5>3. QED
                BY <5>1, <5>2
        <4>4. QED
              BY <4>1, <4>2, <4>3
      <3>6. QED
            BY <3>1, <3>2, <3>5, NewStringStep
    <2>3. QED
          BY <2>1, <2>2
  <1>11. QED
         BY <1>2, <1>3, <1>4, <1>5, <1>6, <1>7, <1>8, <1>9, <1>10 DEF BuiltinCall
-------------------------------------------------------------------------------
(* Calls and returns.                                                        *)

(* Each frame in use is on the call stack or is the current one.             *)
LEMMA FramesInUse ==
  ASSUME IInv
  PROVE  /\ Frames \in Seq(Frame)
         /\ \A i \in DOMAIN Frames : FrameOK(Frames[i]) /\ Frames[i].kind # "none"
  <1>1. CASE frame.kind = "none"
        BY <1>1 DEF Frames, IInv, ControlOK
  <1>2. CASE frame.kind # "none"
    <2>1. /\ callStack \in Seq(Frame) /\ frame \in Frame
          /\ \A i \in DOMAIN callStack : FrameOK(callStack[i]) /\ callStack[i].kind # "none"
          /\ FrameOK(frame)
          BY DEF IInv, ControlOK, FrameOK
    <2>2. Frames = Append(callStack, frame)
          BY <1>2 DEF Frames
    <2>3. /\ Frames \in Seq(Frame)
          /\ \A i \in DOMAIN Frames :
                (i \in DOMAIN callStack /\ Frames[i] = callStack[i]) \/ Frames[i] = frame
          BY <2>1, <2>2
    <2>4. QED
          BY <1>2, <2>1, <2>3
  <1>3. QED
        BY <1>1, <1>2

(* A frame's code is a region of the program's.                              *)
LEMMA RegionExists ==
  ASSUME IInv, NEW f, FrameOK(f)
  PROVE  RegionOf(f) \in 0 .. Len(code) - 1
  <1>1. CASE f.kind = "call"
        BY <1>1, LoadedBinary DEF IInv, RegionOf, FrameOK, Prototype
  <1>2. CASE f.kind # "call"
        BY <1>2, LoadedBinary DEF IInv, RegionOf
  <1>3. QED
        BY <1>1, <1>2

(* instruction_call (vm.c:180-235) keeps the invariant: the new frame was    *)
(* entered by a CALL of the frame below it.                                  *)
LEMMA CallStep == ASSUME IInv, Call PROVE IInv'
  <1>1. /\ Fetch("CALL") /\ Fetchable /\ Instruction.op = "CALL"
        /\ Callee.type = "FUNCTION"
        BY DEF Call, Fetch
  <1>2. PICK fn : fn = Callee.contents
        OBVIOUS
  <1>3. fn \in DOMAIN functions /\ fn \in Nat
        BY <1>1, <1>2, ReadMemory, LoadedBinary DEF Callee, Live, IInv
  <1>4. PICK proto : proto = functions[fn]
        OBVIOUS
  <1>5. /\ proto.region \in 0 .. Len(code) - 1
        /\ proto.nargs \in Nat
        /\ proto.locals \in Seq(Registers)
        BY <1>3, <1>4, LoadedBinary DEF IInv
  <1>6. PICK save : save = SaveBuffer(proto)
        OBVIOUS
  <1>7. save \in Seq(Value) /\ Len(save) = Len(proto.locals) /\ AllLive(save)
    <2>1. PICK m : m = Len(proto.locals)
          OBVIOUS
    <2>2. m \in Nat /\ DOMAIN save = 1 .. m
          BY <1>5, <1>6, <2>1 DEF SaveBuffer
    <2>3. \A i \in 1 .. m : save[i] \in Value /\ Live(save[i])
      <3>1. TAKE i \in 1 .. m
      <3>2. proto.locals[i] \in Registers
            BY <1>5, <2>1
      <3>3. save[i] = IF i > proto.nargs THEN registers[proto.locals[i]] ELSE Garbage
            BY <1>6, <2>1 DEF SaveBuffer
      <3>4. QED
            BY <3>2, <3>3, ReadRegister, ConstantsLive
    <2>4. save = [i \in 1 .. m |-> save[i]]
          BY <1>6, <2>1 DEF SaveBuffer
    <2>5. save \in Seq(Value) /\ Len(save) = m
          BY <2>2, <2>3, <2>4
    <2>6. QED
          BY <2>1, <2>2, <2>3, <2>5 DEF AllLive
  <1>8. /\ UNCHANGED <<loaded, heap>> /\ UNCHANGED loaded /\ functions' = functions
        /\ code' = code /\ program' = program
        /\ memory' = memory /\ stack' = stack /\ output' = output /\ registers' = registers
        /\ sp' = sp /\ status' = status /\ pc' = 0
        /\ region' = proto.region
        /\ callStack' = IF frame.kind = "none" THEN callStack ELSE Append(callStack, frame)
        /\ frame' = [kind |-> "call", fn |-> fn,
                     return |-> [region |-> region, offset |-> pc + 1], save |-> save]
        BY <1>2, <1>4, <1>6 DEF Call, loaded, Prototype
  <1>9. HeapOK' /\ HeapGrows
        BY <1>8, HeapKept
  <1>10. CellsOK' /\ Loading' /\ Registered'
        BY <1>8, <1>9, CellsKept DEF CellsOK, IInv, Loading, Registered
  <1>11. \A v : Live(v) => Live(v)'
        BY <1>8, <1>9, LiveStays
  <1>12. \A f : FrameOK(f) => FrameOK(f)'
        BY <1>8, <1>11 DEF FrameOK, AllLive, Prototype
  <1>13. region \in Int /\ pc \in Int
        BY LoadedBinary DEF IInv, ControlOK, Registered
  <1>14. FrameOK(frame)'
    <2>1. frame' \in Frame
          BY <1>3, <1>7, <1>8, <1>13 DEF Frame, Place
    <2>2. AllLive(frame.save)'
          BY <1>7, <1>8, <1>11 DEF AllLive
    <2>3. frame'.fn \in DOMAIN functions' /\ Len(frame'.save) = Len(functions'[frame'.fn].locals)
          BY <1>3, <1>4, <1>7, <1>8
    <2>4. QED
          BY <2>1, <2>2, <2>3 DEF FrameOK, Prototype
  <1>15. callStack' = Frames
        BY <1>8 DEF Frames
  <1>16. Frames' = Append(Frames, frame')
        BY <1>8, <1>15 DEF Frames
  <1>17. PICK n : n = Len(Frames)
        OBVIOUS
  <1>18. /\ Frames \in Seq(Frame) /\ n \in Nat
         /\ DOMAIN Frames = 1 .. n /\ DOMAIN Frames' = 1 .. n + 1
         /\ \A i \in 1 .. n : Frames'[i] = Frames[i]
         /\ Frames'[n + 1] = frame' /\ Len(Frames') = n + 1
        BY <1>16, <1>17, FramesInUse
  <1>19. CallChain'
    <2>1. \A f : RegionOf(f)' = RegionOf(f)
          BY <1>8 DEF RegionOf, Prototype
    <2>2. region' = RegionOf(Frames[Len(Frames)])'
          BY <1>4, <1>8, <1>18 DEF RegionOf, Prototype
    <2>3. ASSUME NEW i \in 1 .. n + 1
          PROVE  CallerRegion(i)' = IF i = 1 THEN 0 ELSE RegionOf(Frames[i - 1])
          BY <1>18, <2>1 DEF CallerRegion
    <2>4. ASSUME NEW i \in 1 .. n
          PROVE  IF Frames'[i].kind = "call"
                 THEN /\ Frames'[i].return.region = CallerRegion(i)'
                      /\ Frames'[i].return.offset \in DOMAIN code'[CallerRegion(i)' + 1]
                      /\ code'[CallerRegion(i)' + 1][Frames'[i].return.offset].op = "CALL"
                 ELSE i = 1
      <3>1. CallerRegion(i)' = CallerRegion(i)
            BY <2>3, <1>18 DEF CallerRegion
      <3>2. Frames'[i] = Frames[i] /\ i \in DOMAIN Frames
            BY <1>18
      <3>3. QED
            BY <1>8, <3>1, <3>2 DEF IInv, ControlOK, CallChain
    <2>5. /\ Frames'[n + 1].kind = "call"
          /\ Frames'[n + 1].return.region = CallerRegion(n + 1)'
          /\ Frames'[n + 1].return.offset \in DOMAIN code'[CallerRegion(n + 1)' + 1]
          /\ code'[CallerRegion(n + 1)' + 1][Frames'[n + 1].return.offset].op = "CALL"
      <3>1. CallerRegion(n + 1)' = region
        <4>1. region = IF Frames = <<>> THEN 0 ELSE RegionOf(Frames[n])
              BY <1>17 DEF IInv, ControlOK, CallChain
        <4>2. Frames = <<>> <=> n = 0
              BY <1>17, <1>18
        <4>3. n + 1 \in 1 .. n + 1
              BY <1>18
        <4>4. QED
              BY <1>18, <2>3, <4>1, <4>2, <4>3
      <3>2. /\ Frames'[n + 1].kind = "call"
            /\ Frames'[n + 1].return.region = region
            /\ Frames'[n + 1].return.offset = pc + 1
            BY <1>8, <1>18
      <3>3. pc + 1 \in DOMAIN code[region + 1] /\ code[region + 1][pc + 1].op = "CALL"
        <4>1. code[region + 1] \in Seq(Instructions)
              BY LoadedBinary DEF IInv, ControlOK
        <4>2. QED
              BY <1>1, <1>13, <4>1 DEF Fetchable, Instruction, Block
      <3>4. QED
            BY <1>8, <3>1, <3>2, <3>3
    <2>6. Frames' # <<>>
          BY <1>18
    <2>7. QED
          BY <1>18, <2>2, <2>4, <2>5, <2>6 DEF CallChain
  <1>20. ControlOK'
    <2>1. callStack' \in Seq(Frame)
          BY <1>15, FramesInUse
    <2>2. (\A i \in DOMAIN callStack : FrameOK(callStack[i]) /\ callStack[i].kind # "none")'
          BY <1>12, <1>15, FramesInUse
    <2>3. region' \in 0 .. Len(code') - 1
          BY <1>5, <1>8
    <2>4. QED
          BY <1>14, <1>19, <2>1, <2>2, <2>3 DEF ControlOK
  <1>21. QED
        BY <1>9, <1>10, <1>20 DEF IInv

(* OP_RETURN (vm.c:532-556) keeps the invariant: the region resumed is the one *)
(* of the frame below.                                                       *)
LEMMA ReturnStep == ASSUME IInv, Return PROVE IInv'
  <1>1. Fetch("RETURN") /\ frame.kind = "call" /\ Left \in Value /\ Live(Left)
    <2>1. Fetch("RETURN")
          BY DEF Return
    <2>2. frame.kind = "call"
          BY <2>1 DEF Fetch, Misbehaves
    <2>3. QED
          BY <2>1, <2>2, Operands, ReadRegister DEF Left
  <1>2. PICK proto : proto = Prototype(frame.fn)
        OBVIOUS
  <1>3. PICK save : save = frame.save
        OBVIOUS
  <1>4. /\ FrameOK(frame) /\ frame \in Frame /\ frame.fn \in DOMAIN functions
        /\ save \in Seq(Value) /\ AllLive(save) /\ Len(save) = Len(proto.locals)
        /\ frame.return.region \in Int /\ frame.return.offset \in Int
        /\ proto.locals \in Seq(Registers)
    <2>1. FrameOK(frame) /\ frame \in Frame
          BY DEF IInv, ControlOK, FrameOK
    <2>2. frame.fn \in DOMAIN functions /\ AllLive(save) /\ Len(save) = Len(proto.locals)
          BY <1>1, <1>2, <1>3, <2>1 DEF FrameOK
    <2>3. save \in Seq(Value) /\ frame.return \in Place
          BY <1>3, <2>1 DEF Frame
    <2>4. frame.return.region \in Int /\ frame.return.offset \in Int
          BY <2>3 DEF Place
    <2>5. proto.locals \in Seq(Registers)
          BY <1>2, <2>2, LoadedBinary DEF IInv, Prototype
    <2>6. QED
          BY <2>1, <2>2, <2>3, <2>4, <2>5
  <1>5. PICK v : v = Left
        OBVIOUS
  <1>6. /\ UNCHANGED <<loaded, heap>> /\ UNCHANGED loaded /\ functions' = functions
        /\ code' = code /\ program' = program
        /\ memory' = memory /\ stack' = MemorySet(stack, sp, v) /\ output' = output
        /\ sp' = sp + 1 /\ status' = status
        /\ pc' = frame.return.offset /\ region' = frame.return.region
        /\ registers' = Restored(proto, save)
        BY <1>2, <1>3, <1>5 DEF Return, loaded
  <1>7. /\ callStack = <<>> => frame' = NoFrame /\ callStack' = callStack
        /\ callStack # <<>> => /\ frame' = callStack[Len(callStack)]
                               /\ callStack' = SubSeq(callStack, 1, Len(callStack) - 1)
        BY DEF Return
  <1>8. HeapOK' /\ HeapGrows
        BY <1>6, HeapKept
  <1>9. \A x : Live(x) => Live(x)'
        BY <1>6, <1>8, LiveStays
  <1>10. RegistersOK'
    <2>1. /\ registers \in [Registers -> Value]
          /\ \A r \in Registers : registers[r] \in Value /\ Live(registers[r])
          BY ReadRegister DEF IInv, CellsOK, RegistersOK
    <2>2. \A i \in DOMAIN proto.locals : save[i] \in Value /\ Live(save[i])
          BY <1>4 DEF AllLive
    <2>3. \A r \in Registers : registers'[r] \in Value /\ Live(registers'[r])
      <3>1. TAKE r \in Registers
      <3>2. CASE \E i \in DOMAIN proto.locals : proto.locals[i] = r
        <4>1. PICK j \in DOMAIN proto.locals :
                     j = CHOOSE i \in DOMAIN proto.locals : proto.locals[i] = r
              BY <3>2
        <4>2. registers'[r] = save[j]
              BY <1>6, <3>2, <4>1 DEF Restored
        <4>3. QED
              BY <2>2, <4>2
      <3>3. CASE ~\E i \in DOMAIN proto.locals : proto.locals[i] = r
        <4>1. registers'[r] = registers[r]
              BY <1>6, <3>3 DEF Restored
        <4>2. QED
              BY <2>1, <4>1
      <3>4. QED
            BY <3>2, <3>3
    <2>4. registers' = [r \in Registers |-> registers'[r]]
          BY <1>6 DEF Restored
    <2>5. registers' \in [Registers -> Value]
          BY <2>3, <2>4
    <2>6. QED
          BY <1>9, <2>3, <2>5 DEF RegistersOK, AllLive
  <1>11. CellsOK' /\ Loading' /\ Registered'
    <2>1. v \in Value /\ Live(v)'
          BY <1>1, <1>5, <1>9
    <2>2. sp \in Int
          BY DEF IInv, Registered
    <2>3. StackOK'
          BY <1>6, <1>8, <2>1, <2>2, WriteStack
    <2>4. Loading' /\ Registered'
          BY <1>4, <1>6 DEF IInv, Loading, Registered
    <2>5. QED
          BY <1>6, <1>8, <1>10, <2>3, <2>4, CellsKept DEF CellsOK
  <1>12. \A f : FrameOK(f) => FrameOK(f)'
        BY <1>6, <1>9 DEF FrameOK, AllLive, Prototype
  <1>13. PICK n : n = Len(callStack)
        OBVIOUS
  <1>14. /\ callStack \in Seq(Frame) /\ n \in Nat /\ DOMAIN callStack = 1 .. n
         /\ \A i \in 1 .. n : FrameOK(callStack[i]) /\ callStack[i].kind # "none"
         BY <1>13 DEF IInv, ControlOK
  <1>15. /\ Frames = Append(callStack, frame) /\ Len(Frames) = n + 1
         /\ Frames[n + 1] = frame /\ \A i \in 1 .. n : Frames[i] = callStack[i]
         BY <1>1, <1>13, <1>14 DEF Frames
  <1>16. /\ callStack' \in Seq(Frame) /\ FrameOK(frame)'
         /\ \A i \in DOMAIN callStack' :
              FrameOK(callStack'[i]) /\ callStack'[i].kind # "none"
         /\ Frames' = callStack
    <2>1. CASE callStack = <<>>
      <3>1. callStack' = <<>> /\ frame' = NoFrame
            BY <1>7, <2>1
      <3>2. FrameOK(NoFrame)'
            BY DEF FrameOK, NoFrame, Stray, Frame, Place, AllLive
      <3>3. Frames' = callStack'
            BY <3>1 DEF Frames, NoFrame
      <3>4. QED
            BY <2>1, <3>1, <3>2, <3>3
    <2>2. CASE callStack # <<>>
      <3>1. n > 0 /\ frame' = callStack[n] /\ callStack' = SubSeq(callStack, 1, n - 1)
            BY <1>7, <1>13, <1>14, <2>2
      <3>2. /\ callStack' \in Seq(Frame) /\ Len(callStack') = n - 1
            /\ \A i \in 1 .. n - 1 : callStack'[i] = callStack[i]
            BY <1>14, <3>1
      <3>3. FrameOK(frame)' /\ frame'.kind # "none"
        <4>1. PICK f : f = callStack[n]
              OBVIOUS
        <4>2. FrameOK(f)' /\ f.kind # "none" /\ frame' = f
              BY <1>12, <1>14, <3>1, <4>1
        <4>3. QED
              BY <4>2
      <3>4. Frames' = Append(callStack', callStack[n])
            BY <3>1, <3>3 DEF Frames
      <3>5. Frames' = callStack
            BY <1>14, <3>1, <3>2, <3>4
      <3>6. QED
            BY <1>14, <3>2, <3>3, <3>5
    <2>3. QED
          BY <2>1, <2>2
  <1>17. frame.return.region = IF n = 0 THEN 0 ELSE RegionOf(callStack[n])
    <2>1. n + 1 \in DOMAIN Frames /\ Frames[n + 1].kind = "call"
          BY <1>1, <1>14, <1>15
    <2>2. frame.return.region = CallerRegion(n + 1)
          BY <1>15, <2>1 DEF IInv, ControlOK, CallChain
    <2>3. QED
          BY <1>14, <1>15, <2>2 DEF CallerRegion
  <1>18. \A f : RegionOf(f)' = RegionOf(f)
        BY <1>6 DEF RegionOf, Prototype
  <1>19. region' \in 0 .. Len(code') - 1
    <2>1. CASE n = 0
          BY <1>6, <1>17, <2>1, LoadedBinary DEF IInv
    <2>2. CASE n > 0
          BY <1>6, <1>14, <1>17, <2>2, RegionExists
    <2>3. QED
          BY <1>14, <2>1, <2>2
  <1>20. CallChain'
    <2>1. region' = IF Frames' = <<>> THEN 0 ELSE RegionOf(Frames[Len(Frames)])'
      <3>1. (RegionOf(Frames[Len(Frames)]))' = RegionOf(Frames'[Len(Frames')])
            BY <1>6 DEF RegionOf, Prototype
      <3>2. QED
            BY <1>6, <1>13, <1>14, <1>16, <1>17, <3>1
    <2>2. ASSUME NEW i \in 1 .. n
          PROVE  CallerRegion(i)' = CallerRegion(i)
          BY <1>14, <1>15, <1>16, <1>18 DEF CallerRegion
    <2>3. ASSUME NEW i \in 1 .. n
          PROVE  IF Frames'[i].kind = "call"
                 THEN /\ Frames'[i].return.region = CallerRegion(i)'
                      /\ Frames'[i].return.offset \in DOMAIN code'[CallerRegion(i)' + 1]
                      /\ code'[CallerRegion(i)' + 1][Frames'[i].return.offset].op = "CALL"
                 ELSE i = 1
      <3>1. Frames'[i] = Frames[i] /\ i \in DOMAIN Frames
            BY <1>14, <1>15, <1>16
      <3>2. QED
            BY <1>6, <2>2, <3>1 DEF IInv, ControlOK, CallChain
    <2>4. DOMAIN Frames' = 1 .. n
          BY <1>14, <1>16
    <2>5. QED
          BY <2>1, <2>3, <2>4 DEF CallChain
  <1>21. ControlOK'
    <2>1. (\A i \in DOMAIN callStack : FrameOK(callStack[i]) /\ callStack[i].kind # "none")'
          BY <1>12, <1>16
    <2>2. QED
          BY <1>16, <1>19, <1>20, <2>1 DEF ControlOK
  <1>22. QED
        BY <1>8, <1>11, <1>21 DEF IInv
-------------------------------------------------------------------------------
(* The invariant holds of every execution.                                   *)

(* vm_create (vm.c:80-106) establishes the invariant, of whatever binary.    *)
LEMMA InitInvariant == Init => IInv
  <1>1. SUFFICES ASSUME Init PROVE IInv
        OBVIOUS
  <1>2. PICK p \in DOMAIN Binaries : Create(p, Binaries[p])
        BY <1>1 DEF Init
  <1>3. PICK b : b = Binaries[p]
        OBVIOUS
  <1>4. WellFormedBinary(b)
        BY <1>3, MachineAssumption
  <1>5. /\ program = p /\ code = b.code /\ functions = b.functions /\ memory = b.data
        /\ strings = b.strings /\ tuples = <<>> /\ iterators = <<>>
        /\ registers = [r \in Registers |-> IF r < 128 THEN Absent ELSE Garbage]
        /\ stack = <<>> /\ sp = 0 /\ callStack = <<>> /\ frame \in {NoFrame, StrayFrame}
        /\ region = 0 /\ pc = 0 /\ output = <<>> /\ status = "running"
        BY <1>2, <1>3 DEF Create
  <1>6. Loading
        BY <1>2, <1>3, <1>5 DEF Loading
  <1>7. HeapOK
    <2>1. strings \in Seq(Seq(Piece))
          BY <1>4, <1>5 DEF WellFormedBinary
    <2>2. DOMAIN tuples = {} /\ DOMAIN iterators = {}
          BY <1>5
    <2>3. tuples \in Seq(TupleObject) /\ iterators \in Seq(IteratorRecord)
          BY <1>5
    <2>4. QED
          BY <2>1, <2>2, <2>3 DEF HeapOK, IteratorsInStep, TuplesFilled
  <1>8. MemoryOK
    <2>1. ASSUME NEW a \in DOMAIN memory
          PROVE  memory[a] \in Value /\ Live(memory[a])
      <3>1. PICK v : v = memory[a]
            OBVIOUS
      <3>2. WellFormedDatum(v, b)
            BY <1>4, <1>5, <3>1 DEF WellFormedBinary
      <3>3. v \in Value /\ Live(v)
            BY <1>5, <3>2 DEF WellFormedDatum, Live, Value
      <3>4. QED
            BY <3>1, <3>3
    <2>2. QED
          BY <1>4, <1>5, <2>1 DEF MemoryOK, Holds, WellFormedBinary
  <1>9. RegistersOK
        BY <1>5, ConstantsLive DEF RegistersOK, AllLive
  <1>10. StackOK /\ OutputOK
        BY <1>5 DEF StackOK, OutputOK, Holds, AllLive
  <1>11. FrameOK(frame)
    <2>1. FrameOK(NoFrame)
          BY DEF FrameOK, NoFrame, Stray, Frame, Place, AllLive
    <2>2. FrameOK(StrayFrame)
          BY DEF FrameOK, StrayFrame, Stray, Frame, Place, AllLive
    <2>3. QED
          BY <1>5, <2>1, <2>2
  <1>12. CallChain
    <2>1. CASE frame = NoFrame
      <3>1. Frames = <<>>
            BY <1>5, <2>1 DEF Frames, NoFrame
      <3>2. QED
            BY <1>5, <3>1 DEF CallChain
    <2>2. CASE frame = StrayFrame
      <3>1. Frames = <<StrayFrame>>
            BY <1>5, <2>2 DEF Frames, StrayFrame
      <3>2. DOMAIN Frames = {1} /\ Frames[1].kind = "stray" /\ Len(Frames) = 1
            BY <3>1 DEF StrayFrame
      <3>3. QED
            BY <1>5, <3>1, <3>2 DEF CallChain, RegionOf
    <2>3. QED
          BY <1>5, <2>1, <2>2
  <1>13. ControlOK
    <2>1. region \in 0 .. Len(code) - 1
          BY <1>5, <1>6, LoadedBinary
    <2>2. QED
          BY <1>5, <1>11, <1>12, <2>1 DEF ControlOK
  <1>14. QED
         BY <1>5, <1>6, <1>7, <1>8, <1>9, <1>10, <1>13 DEF IInv, CellsOK, Registered

(* A step that changes nothing keeps the invariant.                          *)
LEMMA Stutter == ASSUME IInv, UNCHANGED vars PROVE IInv'
  <1>1. /\ UNCHANGED <<loaded, control>> /\ UNCHANGED loaded /\ UNCHANGED <<loaded, heap>>
        /\ memory' = memory /\ stack' = stack /\ output' = output /\ registers' = registers
        /\ sp' = sp /\ pc' = pc /\ status' = status
        BY DEF vars, loaded
  <1>2. HeapOK' /\ HeapGrows
        BY <1>1, HeapKept
  <1>3. Loading' /\ ControlOK' /\ CellsOK'
        BY <1>1, <1>2, ControlKept, CellsKept DEF CellsOK
  <1>4. Registered'
        BY <1>1 DEF IInv, Registered
  <1>5. QED
        BY <1>2, <1>3, <1>4 DEF IInv

(* Every opcode and every builtin keeps the invariant: it is inductive.      *)
LEMMA NextInvariant == IInv /\ [Next]_vars => IInv'
  <1>1. SUFFICES ASSUME IInv, [Next]_vars PROVE IInv'
        OBVIOUS
  <1>2. CASE Moves
        BY <1>1, <1>2, MovesStep
  <1>3. CASE Jumps
        BY <1>1, <1>3, JumpsStep
  <1>4. CASE Computes
        BY <1>1, <1>4, ComputesStep
  <1>5. CASE Iterates
        BY <1>1, <1>5, IteratesStep
  <1>6. CASE Call
        BY <1>1, <1>6, CallStep
  <1>7. CASE Return
        BY <1>1, <1>7, ReturnStep
  <1>8. CASE BuiltinCall
        BY <1>1, <1>8, BuiltinStep
  <1>9. CASE Ends
        BY <1>1, <1>9, EndsStep
  <1>10. CASE UNCHANGED vars
        BY <1>1, <1>10, Stutter
  <1>11. QED
         BY <1>1, <1>2, <1>3, <1>4, <1>5, <1>6, <1>7, <1>8, <1>9, <1>10 DEF Next

(* In every reachable state of the machine, whatever the binary, IInv holds: *)
(* vm_create establishes it and each turn of vm_execute's loop keeps it.     *)
THEOREM Invariant == Spec => []IInv
  BY InitInvariant, NextInvariant, PTL DEF Spec

(* Every part of vm_t keeps holding what it may hold: the machine's ints     *)
(* stay within their width whatever is computed, and it never executes a     *)
(* region the binary does not have.                                          *)
THEOREM MachineTyped == Spec => []TypeOK
  <1>1. IInv => TypeOK
    <2> SUFFICES ASSUME IInv PROVE TypeOK
        OBVIOUS
    <2>1. registers \in [Registers -> Value] /\ output \in Seq(Value)
          BY DEF IInv, CellsOK, RegistersOK, OutputOK
    <2>2. /\ DOMAIN memory \subseteq Nat /\ \A a \in DOMAIN memory : memory[a] \in Value
          /\ DOMAIN stack \subseteq Int /\ \A a \in DOMAIN stack : stack[a] \in Value
          BY DEF IInv, CellsOK, MemoryOK, StackOK, Holds
    <2>3. frame \in Frame
          BY DEF IInv, ControlOK, FrameOK
    <2>4. QED
          BY <2>1, <2>2, <2>3
             DEF TypeOK, IInv, Loading, HeapOK, IteratorRecord, ControlOK, Registered
  <1>2. QED
        BY <1>1, Invariant, PTL

(* However objects are passed around by copying pointers, whatever the       *)
(* machine can reach is usable: nothing points to an object never made.      *)
THEOREM NothingDangles == Spec => []NoDangling
  <1>1. IInv => NoDangling
    <2> SUFFICES ASSUME IInv PROVE NoDangling
        OBVIOUS
    <2>1. AllLive(memory) /\ AllLive(registers) /\ AllLive(stack) /\ AllLive(output)
          BY DEF IInv, CellsOK, MemoryOK, RegistersOK, StackOK, OutputOK, Holds, AllLive
    <2>2. \A i \in DOMAIN Frames : AllLive(Frames[i].save)
          BY FramesInUse DEF FrameOK
    <2>3. QED
          BY <2>1, <2>2 DEF NoDangling, IInv, HeapOK
  <1>2. QED
        BY <1>1, Invariant, PTL

(* No iterator ever moves past the collection it walks: OP_DEREF's test for  *)
(* equality is enough because an iterator advances by one, and what it reads *)
(* is there, but for the range whose length overflowed the int it is         *)
(* computed in (builtins.c:164, 175): that one has nothing to read, and is   *)
(* never found to be at its end.                                             *)
THEOREM IteratorsStayInside == Spec => []IteratorsBounded
  <1>1. IInv => IteratorsBounded
    <2> SUFFICES ASSUME IInv PROVE IteratorsBounded
        OBVIOUS
    <2>1. ASSUME status = "running", Fetchable, Instruction.op = "DEREF", ReadsOutside
          PROVE  Overflowed(tuples[Iterator.over.contents])
      <3>1. /\ Left.type = "ITERATOR" /\ Iterator.index # Iterator.length
            /\ Iterator.over.type = "TUPLE"
            /\ Iterator.index + 1 \notin DOMAIN tuples[Iterator.over.contents].values
            BY <2>1 DEF ReadsOutside, Exhausted
      <3>2. Instruction.b \in Registers
            BY <2>1, FetchedInstruction DEF WellFormedInstruction, Inspected, Arithmetic,
                                            Relational, Logical
      <3>3. Left.contents \in DOMAIN iterators
            BY <3>1, <3>2, ReadRegister DEF Left, Live
      <3>4. PICK it, t : it = Iterator /\ t = Iterator.over.contents
            OBVIOUS
      <3>5. /\ Live(it.over) /\ it \in IteratorRecord /\ it.length = LengthOf(it.over)
            /\ it.index <= it.length \/ it.length < 0
            BY <3>3, <3>4 DEF Iterator, IInv, HeapOK, IteratorsInStep
      <3>6. t \in DOMAIN tuples /\ tuples \in Seq(TupleObject) /\ it.length = tuples[t].length
            BY <3>1, <3>4, <3>5 DEF Live, LengthOf, IInv, HeapOK
      <3>7. tuples[t] \in TupleObject /\ (tuples[t].length = Len(tuples[t].values) \/ Overflowed(tuples[t]))
            BY <3>6 DEF IInv, HeapOK, TuplesFilled
      <3>8. CASE tuples[t].length = Len(tuples[t].values)
        <4>1. tuples[t].values \in Seq(Value)
              BY <3>7 DEF TupleObject
        <4>2. it.index \in Nat /\ it.index < Len(tuples[t].values)
              BY <3>1, <3>4, <3>5, <3>6, <3>8, <4>1 DEF IteratorRecord
        <4>3. QED
              BY <3>1, <3>4, <4>1, <4>2
      <3>9. QED
            BY <3>4, <3>7, <3>8
    <2>2. QED
          BY <2>1 DEF IteratorsBounded, IInv, HeapOK
  <1>2. QED
        BY <1>1, Invariant, PTL

(* Whatever the program calls and however deep, the frames in use are a      *)
(* chain of calls that ends at the code being executed.                      *)
THEOREM FramesChained == Spec => []CallChain
  <1>1. IInv => CallChain
        BY DEF IInv, ControlOK
  <1>2. QED
        BY <1>1, Invariant, PTL
-------------------------------------------------------------------------------
(* Objects outlive every step.                                               *)

ObjectsLastNow ==
  /\ Lasts(strings, strings') /\ Lasts(tuples, tuples')
  /\ \A k \in DOMAIN iterators :
       k \in DOMAIN iterators' /\ (iterators'[k] = iterators[k] \/ GivesElement(k))

(* What a new object is appended to keeps the objects it has.                *)
LEMMA AppendedLasts ==
  ASSUME NEW S, NEW s \in Seq(S), NEW x
  PROVE  Lasts(s, Append(s, x))
  BY DEF Lasts

(* What an instruction makes is put behind the objects there are.            *)
LEMMA HeapLasts ==
  ASSUME IInv,
         strings' = strings \/ \E x : strings' = Append(strings, x),
         tuples' = tuples \/ \E x : tuples' = Append(tuples, x),
         iterators' = iterators \/ \E x : iterators' = Append(iterators, x)
  PROVE  ObjectsLastNow
  <1>1. \A s : Lasts(s, s)
        BY DEF Lasts
  <1>2. Lasts(strings, strings') /\ Lasts(tuples, tuples') /\ Lasts(iterators, iterators')
        BY <1>1, AppendedLasts DEF IInv, HeapOK
  <1>3. QED
        BY <1>2 DEF ObjectsLastNow, Lasts

(* OP_DEREF on an iterator that is not at its end: the index is inside the   *)
(* collection, so the element there is what the register gets.               *)
LEMMA DerefLasts == ASSUME IInv, DerefNext PROVE ObjectsLastNow
  <1>1. /\ Fetch("DEREF") /\ Left.type = "ITERATOR" /\ ~Exhausted
        /\ Put(Instruction.a, Element(Iterator)) /\ UNCHANGED <<strings, tuples>>
        BY DEF DerefNext
  <1>2. Instruction.a \in Registers /\ Instruction.c = 1 /\ Left \in Value /\ Live(Left)
        BY <1>1, Operands, ReadRegister DEF Left
  <1>3. PICK k : k = Left.contents
        OBVIOUS
  <1>4. k \in DOMAIN iterators /\ Left = Ref("ITERATOR", k) /\ iterators[k].index # iterators[k].length
        BY <1>1, <1>2, <1>3 DEF Live, Exhausted, Iterator, Value, Ref
  <1>5. iterators' = [iterators EXCEPT ![k].index = @ + 1]
        BY <1>2, <1>3 DEF DerefNext
  <1>6. PICK it : it = iterators[k]
        OBVIOUS
  <1>8. it.over.type = "TUPLE" => Element(it) = tuples[it.over.contents].values[it.index + 1]
        BY DEF Element
  <1>9. registers' = [registers EXCEPT ![Instruction.a] = Element(it)] /\ registers \in [Registers -> Value]
        BY <1>1, <1>3, <1>6 DEF Put, Iterator, IInv, CellsOK, RegistersOK
  <1>10. registers'[Instruction.a] = Element(it)
        BY <1>2, <1>9
  <1>11. GivesElement(k)
        BY <1>4, <1>5, <1>6, <1>8, <1>10 DEF GivesElement
  <1>12. \A j \in DOMAIN iterators : j \in DOMAIN iterators' /\ (j # k => iterators'[j] = iterators[j])
        BY <1>5
  <1>13. QED
        BY <1>1, <1>11, <1>12 DEF ObjectsLastNow, Lasts

(* Every other step leaves the heap alone or makes objects behind the others. *)
LEMMA NextLasts == IInv /\ [Next]_vars => ObjectsLastNow
  <1> SUFFICES ASSUME IInv, [Next]_vars PROVE ObjectsLastNow
      OBVIOUS
  <1>1. UNCHANGED heap => ObjectsLastNow
        BY HeapLasts DEF heap
  <1>2. Moves \/ Jumps \/ Ends \/ Call \/ Return => UNCHANGED heap
    <2> USE DEF Assign, Branch, Fail
    <2>1. Moves => UNCHANGED heap
          BY DEF Moves, LoadNil, Load, LoadImmediate, Store, Move, Push, Pop, Skip
    <2>2. Jumps \/ Ends => UNCHANGED heap
          BY DEF Jumps, Jump, Equal, LessThan, SkipUnless, Ends, Abort, Misbehave, Halt
    <2>3. Call \/ Return => UNCHANGED heap
          BY DEF Call, Return
    <2>4. QED
          BY <2>1, <2>2, <2>3
  <1>3. CASE Computes
    <2>1. CASE Concatenate
          BY <2>1, HeapLasts DEF Concatenate
    <2>2. CASE ~Concatenate
      <3>1. Add \/ Subtract \/ Multiply => UNCHANGED heap
            BY DEF Add, Subtract, Multiply, Numeric, Assign
      <3>2. Divide \/ Modulo \/ Negate \/ And \/ Or \/ Not => UNCHANGED heap
            BY DEF Divide, Modulo, Negate, And, Or, Not, AssignTruth, Assign
      <3>3. QED
            BY <1>1, <1>3, <2>2, <3>1, <3>2 DEF Computes
    <2>3. QED
          BY <2>1, <2>2
  <1>4. CASE Iterates
        BY <1>1, <1>4, DerefLasts DEF Iterates, DerefEnd, Assign
  <1>5. CASE BuiltinCall
    <2>1. BuiltinPrintLine \/ BuiltinPrint \/ BuiltinTime => UNCHANGED heap
          BY DEF BuiltinPrintLine, BuiltinPrint, BuiltinTime
    <2>2. CASE BuiltinIter
          BY <2>2, HeapLasts DEF BuiltinIter
    <2>3. (\E items, n : NewTuple(items, n)) => ObjectsLastNow
          BY HeapLasts DEF NewTuple
    <2>4. BuiltinTuple \/ BuiltinRange => ObjectsLastNow
          BY <2>3 DEF BuiltinTuple, BuiltinRange
    <2>5. (\E text : NewString(text)) => ObjectsLastNow
          BY HeapLasts DEF NewString
    <2>6. BuiltinType \/ BuiltinInt \/ BuiltinString => ObjectsLastNow
          BY <1>1, <2>5 DEF BuiltinType, BuiltinInt, BuiltinString, Dropped
    <2>7. QED
          BY <1>1, <1>5, <2>1, <2>2, <2>4, <2>6 DEF BuiltinCall
  <1>6. CASE UNCHANGED vars
        BY <1>1, <1>6 DEF vars, heap
  <1>7. QED
        BY <1>1, <1>2, <1>3, <1>4, <1>5, <1>6 DEF Next

(* Whatever shares them, texts and tuples never change and every iterator    *)
(* gives each element of its collection once, in order (vm.c:489-521).       *)
THEOREM SharedObjectsLast == Spec => ObjectsLast
  <1>1. IInv /\ [Next]_vars
          => [/\ Lasts(strings, strings') /\ Lasts(tuples, tuples')
              /\ \A k \in DOMAIN iterators :
                   k \in DOMAIN iterators' /\ (iterators'[k] = iterators[k] \/ GivesElement(k))]_vars
        BY NextLasts DEF ObjectsLastNow
  <1>2. QED
        BY <1>1, Invariant, PTL DEF Spec, ObjectsLast
-------------------------------------------------------------------------------
(* The machine implements nested activations.                                *)

(* A step that keeps the frames and the region is work inside an activation. *)
LEMMA StaysPut == ASSUME UNCHANGED control PROVE Activity!Work
  BY DEF Activity!Work, control, Frames

(* Only CALL and RETURN change the region or the frames (vm.c:323-326: a jump *)
(* moves pc alone).                                                          *)
LEMMA OtherStepsStay ==
  Moves \/ Jumps \/ Computes \/ Iterates \/ BuiltinCall \/ Ends => UNCHANGED control
  <1> USE DEF Assign, Put, Branch, Return1, Fail
  <1>1. Moves => UNCHANGED control
        BY DEF Moves, LoadNil, Load, LoadImmediate, Store, Move, Push, Pop, Skip
  <1>2. Jumps => UNCHANGED control
        BY DEF Jumps, Jump, Equal, LessThan, SkipUnless
  <1>3. Computes => UNCHANGED control
    <2>1. Add \/ Subtract \/ Multiply => UNCHANGED control
          BY DEF Add, Subtract, Multiply, Numeric
    <2>2. Concatenate \/ Divide \/ Modulo \/ Negate => UNCHANGED control
          BY DEF Concatenate, Divide, Modulo, Negate
    <2>3. And \/ Or \/ Not => UNCHANGED control
          BY DEF And, Or, Not, AssignTruth
    <2>4. QED
          BY <2>1, <2>2, <2>3 DEF Computes
  <1>4. Iterates => UNCHANGED control
        BY DEF Iterates, DerefEnd, DerefNext
  <1>5. BuiltinCall => UNCHANGED control
    <2>1. BuiltinPrintLine \/ BuiltinPrint \/ BuiltinTime \/ BuiltinIter => UNCHANGED control
          BY DEF BuiltinPrintLine, BuiltinPrint, BuiltinTime, BuiltinIter
    <2>2. BuiltinTuple \/ BuiltinRange \/ BuiltinType => UNCHANGED control
          BY DEF BuiltinTuple, BuiltinRange, BuiltinType, NewTuple, NewString
    <2>3. BuiltinInt \/ BuiltinString => UNCHANGED control
          BY DEF BuiltinInt, BuiltinString, NewString, Dropped
    <2>4. QED
          BY <2>1, <2>2, <2>3 DEF BuiltinCall
  <1>6. Ends => UNCHANGED control
        BY DEF Ends, Abort, Misbehave, Halt
  <1>7. QED
        BY <1>1, <1>2, <1>3, <1>4, <1>5, <1>6

(* instruction_call (vm.c:180-235) enters a region at its start and will come *)
(* back to the instruction after the call.                                   *)
LEMMA CallEnters == ASSUME IInv, Call PROVE Activity!Enter
  <1>1. /\ callStack' = IF frame.kind = "none" THEN callStack ELSE Append(callStack, frame)
        /\ frame'.kind = "call"
        /\ frame'.return = [region |-> region, offset |-> pc + 1]
        /\ pc' = 0
        BY DEF Call
  <1>2. Frames' = Append(Frames, frame')
        BY <1>1 DEF Frames
  <1>3. PICK F, f : F = Frames /\ f = frame'
        OBVIOUS
  <1>4. F \in Seq(Frame)
        BY <1>3, FramesInUse
  <1>5. [i \in DOMAIN Append(F, f) |-> Append(F, f)[i].return]
          = Append([i \in DOMAIN F |-> F[i].return], f.return)
    <2>1. PICK n : n = Len(F)
          OBVIOUS
    <2>2. n \in Nat /\ DOMAIN F = 1 .. n /\ DOMAIN Append(F, f) = 1 .. n + 1
          BY <1>4, <2>1
    <2>3. /\ Append(F, f)[n + 1] = f
          /\ \A i \in 1 .. n : Append(F, f)[i] = F[i]
          BY <1>4, <2>1
    <2>4. QED
          BY <2>2, <2>3
  <1>6. QED
        BY <1>1, <1>2, <1>3, <1>5 DEF Activity!Enter

(* Returning takes the innermost frame away and leaves the others            *)
(* (vm.c:545-553).                                                           *)
LEMMA ReturnPops ==
  ASSUME IInv, Return
  PROVE  frame.kind = "call" /\ Frames = Append(callStack, frame) /\ Frames' = callStack
  <1>1. frame.kind = "call"
        BY DEF Return, Fetch, Misbehaves
  <1>2. /\ region' = frame.return.region /\ pc' = frame.return.offset
        /\ callStack = <<>> => frame' = NoFrame /\ callStack' = callStack
        /\ callStack # <<>> => /\ frame' = callStack[Len(callStack)]
                               /\ callStack' = SubSeq(callStack, 1, Len(callStack) - 1)
        BY DEF Return
  <1>3. PICK C, f, n : C = callStack /\ f = frame /\ n = Len(callStack)
        OBVIOUS
  <1>4. /\ C \in Seq(Frame) /\ f \in Frame /\ n \in Nat /\ n = Len(C) /\ DOMAIN C = 1 .. n
        /\ \A i \in 1 .. n : C[i].kind # "none"
        BY <1>3 DEF IInv, ControlOK, FrameOK
  <1>5. Frames = Append(C, f)
        BY <1>1, <1>3 DEF Frames
  <1>6. Frames' = C
    <2>1. CASE C = <<>>
          BY <1>2, <1>3, <2>1 DEF Frames, NoFrame
    <2>2. CASE C # <<>>
      <3>1. n > 0 /\ frame' = C[n] /\ C[n].kind # "none" /\ callStack' = SubSeq(C, 1, n - 1)
            BY <1>2, <1>3, <1>4, <2>2
      <3>2. Frames' = Append(SubSeq(C, 1, n - 1), C[n])
            BY <3>1 DEF Frames
      <3>3. QED
            BY <1>4, <3>1, <3>2
    <2>3. QED
          BY <2>1, <2>2
  <1>7. QED
        BY <1>1, <1>3, <1>5, <1>6

(* OP_RETURN (vm.c:532-556) goes back to the place its call remembered.      *)
LEMMA ReturnLeaves == ASSUME IInv, Return PROVE Activity!Leave
  <1>1. frame.kind = "call"
        BY DEF Return, Fetch, Misbehaves
  <1>2. /\ region' = frame.return.region /\ pc' = frame.return.offset
        /\ callStack = <<>> => frame' = NoFrame /\ callStack' = callStack
        /\ callStack # <<>> => /\ frame' = callStack[Len(callStack)]
                               /\ callStack' = SubSeq(callStack, 1, Len(callStack) - 1)
        BY DEF Return
  <1>3. PICK C, f, n : C = callStack /\ f = frame /\ n = Len(callStack)
        OBVIOUS
  <1>4. /\ C \in Seq(Frame) /\ f \in Frame /\ n \in Nat /\ n = Len(C) /\ DOMAIN C = 1 .. n
        /\ \A i \in 1 .. n : C[i].kind # "none"
        BY <1>3 DEF IInv, ControlOK, FrameOK
  <1>5. Frames = Append(C, f)
        BY <1>3, ReturnPops
  <1>6. Frames' = C
        BY <1>3, ReturnPops
  <1>7. /\ DOMAIN Frames = 1 .. n + 1 /\ Frames[n + 1] = f
        /\ \A i \in 1 .. n : Frames[i] = C[i]
        BY <1>4, <1>5
  <1>8. f.return = [region |-> region', offset |-> pc']
        BY <1>2, <1>3, <1>4 DEF Frame, Place
  <1>9. PICK R : R = [i \in DOMAIN Frames |-> Frames[i].return]
        OBVIOUS
  <1>10. R # <<>> /\ Len(R) = n + 1 /\ R[n + 1] = f.return
         BY <1>4, <1>7, <1>9
  <1>11. SubSeq(R, 1, n) = [i \in 1 .. n |-> C[i].return]
    <2>1. SubSeq(R, 1, n) = [i \in 1 .. n |-> R[i]]
          BY <1>4, <1>7, <1>9
    <2>2. \A i \in 1 .. n : R[i] = C[i].return
          BY <1>4, <1>7, <1>9
    <2>3. QED
          BY <2>1, <2>2
  <1>12. [region |-> region', offset |-> pc'] = R[Len(R)] /\ Len(R) - 1 = n
         BY <1>4, <1>8, <1>10
  <1>13. [i \in DOMAIN Frames' |-> Frames'[i].return] = SubSeq(R, 1, Len(R) - 1)
         BY <1>4, <1>6, <1>11, <1>12
  <1>14. QED
         BY <1>9, <1>10, <1>12, <1>13 DEF Activity!Leave

(* Calls nest: a RETURN resumes the caller where its CALL left it, a CALL    *)
(* starts its function at the beginning, and no other step of the machine    *)
(* changes the code being executed or the places to go back to.              *)
THEOREM ActivationsNest == Spec => NestedActivations
  <1>1. Init => Activity!Init
    <2> SUFFICES ASSUME Init PROVE Activity!Init
        OBVIOUS
    <2>1. callStack = <<>> /\ frame \in {NoFrame, StrayFrame} /\ region = 0 /\ pc = 0
          BY DEF Init, Create
    <2>2. CASE frame = NoFrame
      <3>1. Frames = <<>>
            BY <2>1, <2>2 DEF Frames, NoFrame
      <3>2. QED
            BY <2>1, <3>1 DEF Activity!Init
    <2>3. CASE frame = StrayFrame
      <3>1. Frames = <<StrayFrame>>
            BY <2>1, <2>3 DEF Frames, StrayFrame
      <3>2. [i \in DOMAIN Frames |-> Frames[i].return] = <<Stray>>
            BY <3>1 DEF StrayFrame
      <3>3. QED
            BY <2>1, <3>2 DEF Activity!Init
    <2>4. QED
          BY <2>1, <2>2, <2>3
  <1>2. IInv /\ [Next]_vars
          => [Activity!Next]_<<[region |-> region, offset |-> pc],
                               [i \in DOMAIN Frames |-> Frames[i].return]>>
    <2> SUFFICES ASSUME IInv, [Next]_vars
                 PROVE  Activity!Next
                          \/ UNCHANGED <<[region |-> region, offset |-> pc],
                                         [i \in DOMAIN Frames |-> Frames[i].return]>>
        OBVIOUS
    <2>1. CASE Moves \/ Jumps \/ Computes \/ Iterates \/ BuiltinCall \/ Ends
          BY <2>1, OtherStepsStay, StaysPut DEF Activity!Next
    <2>2. CASE Call
          BY <2>2, CallEnters DEF Activity!Next
    <2>3. CASE Return
          BY <2>3, ReturnLeaves DEF Activity!Next
    <2>4. CASE UNCHANGED vars
      <3>1. UNCHANGED control
            BY <2>4 DEF vars
      <3>2. QED
            BY <3>1, StaysPut DEF Activity!Next
    <2>5. QED
          BY <2>1, <2>2, <2>3, <2>4 DEF Next
  <1>3. QED
        BY <1>1, <1>2, Invariant, PTL DEF Spec, NestedActivations, Activity!Spec
===============================================================================
