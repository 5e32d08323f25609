# Verification of nord

TLA+ specifications of the nord language implementation (`dburkart/nord`): the
scanner and the parser, the compiler that turns a syntax tree into bytecode, the
register machine that runs it with its builtins and imports, and the data
structures below them. TLC checks them on small instances; TLAPS proves safety of
the machine for every well-formed binary, the stack discipline of balanced ones, safety
of the parser for every input, of imports for every set of files, and of the memory array,
the symbol maps, the binary files and the scan context for every value of their constants. Paths are relative to the
repository, line numbers belong to the modelled commit.

The commit does not build as it stands: `vm.c` and `disassemble.c` use
`OP_SETINBOUND` and `OP_GETOUTBOUND`, which `machine/bytecode.h` does not declare.
Everything here is about the opcodes it does declare; with the two names added
(for modules only) the program builds, and the model was compared with that build
on randomly generated programs: printed values agree wherever C defines them.

## 1. The system

    source text --lex--> tokens --parse--> ast_t --compile--> binary_t --vm_create, vm_execute--> stdout
                                                                 |
                                                                 +-- binary_write / binary_load, disassemble

`nord` (`binaries/nord.c`) does this for each file of its command line. It is one
thread; what is hard is not concurrency but a protocol of several parties over
shared, untyped state: the compiler decides at one moment which registers, stack
cells, addresses and jump distances the machine will use at another, and the
machine checks almost none of it.

| component | state | operations | what must hold |
|---|---|---|---|
| virtual machine (`machine/vm.c`) | 256 registers, stack and sp, call stack and csp, frame, region, pc, memory | one case per opcode, `instruction_call`, `instruction_call_builtin` | references point to objects, calls nest, ints keep their width, iterators stay inside (but for a range whose length overflowed) |
| builtins (`lang/builtins.c`) | none of their own: they pop arguments, push one result, print | print, time, iter, tuple, range, type, int, string | the stack effect matches what the compiler emits around the call |
| values (`machine/value.[ch]`) | objects on the C heap, never freed, shared by pointer | string, tuple, iterator and function constructors | length and contents agree |
| compiler (`compiler/compile.c`) | register pointer `rp`, data pointer `mp`, code blocks, scopes | one `compile_*` per kind of node | the code prints what the program means |
| symbol maps (`compiler/symbol.c`) | hash tables chained by scope | set, get, growth at half full | a symbol set is found, in the nearest scope that has it |
| memory array (`machine/memory.c`) | a growing array | set, get | a value set is the value got; the array is never left |
| parser (`compiler/parse.c`) | the scan context, the statements so far | recursive descent, one token of backup | each token is used once; the tree is the grammar's; the loop ends |
| lexer, tokens (`compiler/lex.c`, `util/match.c`, `token.c`) | position, previous and lookahead in the buffer | accept, peek, backup, match | the tokens of the text in order; the text is never left |
| modules (`OP_IMPORT`, `compile_module`, `lang/module.c`) | a machine per import, nested on the C stack; inbound and outbound queues | import, member call | a module has executed before its importer goes on |
| binary files (`machine/binary.c`) | a file | write, load | loading gives back what was written |
| disassembler, utilities, test drivers | none | formatting | |

How they interact: the compiler fills `binary_t` (data section, code blocks,
prototypes); `vm_create` takes it over without a copy, so OP_STORE and OP_IMPORT
write into it. Calls go through `vm->frame` and the call stack; arguments go
through registers the callee's prototype names; results through the stack.
Builtins find their argument count in register 0 and their arguments on the stack.
The parser pulls tokens from the scanner through a context that both sides change;
the compiler asks the symbol maps for registers; an import runs parser, compiler
and a machine of its own inside one instruction of the importing machine.

What is hard to test here: registers that two parties believe to be theirs
(caller and callee, loop and body, variable and temporary); the stack balance
over every path through calls; jump distances counted in one place and used in
another; values left over from an earlier instruction in an uninitialised C
variable; the limits of registers, immediates and ints; a lookahead that a backup
has made stale, a token given back that was not taken; collisions in a map that
has just grown; imports that come back to where they started. `PROJECT.json` lists
40 such hazards at their lines, with the property that watches each or the reason
why none does.

## 2. The modules

| module | models | uses |
|---|---|---|
| `Values` | `value_t`, and what each opcode computes from values | |
| `VM` | `vm.c`, `builtins.c`: one action per opcode and per builtin, the ways an execution ends | `Values`, refines `Activations` |
| `Activations` | abstract: what calling and returning promise | |
| `Balance` | abstract: the stack discipline of a binary, told from its text, and what it promises of the run | `VM` |
| `Compiler` | `compile.c`: one operator per `compile_*` function | `VM` |
| `Lexer` | `lex.c`, `peek`: the token a scan finds at a position of a text | |
| `TokenReader` | abstract: a list of tokens read with one token of backup | |
| `TokenCursor` | `scan_context_t` with accept, peek and backup over any scan | refines `TokenReader` |
| `Syntax` | the `make_*_expr` constructors of `parse.c` | |
| `Parser` | `parse.c`: one operator per function, a step per top-level statement | `Syntax`; reads tokens as `TokenReader` |
| `Grammar` | abstract: the tokens of a syntax tree by docs/grammar.txt | `Syntax` |
| `Frontend` | the parser against the grammar | `Parser`, `Grammar` |
| `Meaning` | abstract: what a program means, by its tree alone | |
| `Nord` | the executable: compile, then run; compares output and meaning | `Compiler`, `Balance`, `Meaning` |
| `Scopes` | abstract: a stack of scopes, which `Compiler` assumes | |
| `SymbolMap` | `symbol.c`: hash maps, probing, growth, the chain of parents | refines `Scopes` up to what growing drops |
| `Cells` | abstract: the memory `VM` assumes | |
| `MemoryArray` | `memory.c`: capacity and growth | refines `Cells` |
| `BinaryFile` | `binary.c`: writing and loading, a cell a step | `MemoryArray` |
| `Modules` | OP_IMPORT and `compile_module`: machines nested in machines | |
| `Programs` | families of small programs, as trees | `Syntax` |
| `MCVM`, `MCNord`, `MCFlaws`, `MCScan`, `MCParser`, `MCSymbolMap`, `MCBinaryFile`, `MCModules` | instances for TLC | |
| `VM_proofs`, `Balance_proofs`, `Parser_proofs`, `TokenCursor_proofs`, `Modules_proofs`, `SymbolMap_proofs`, `BinaryFile_proofs` (the memory array's too) | theorems | TLAPS |
| `Iteration` | lemmas: least counterexamples, and functions defined by recursion on a count | TLAPS |

**VM.** The variables are the fields of `vm_t` and the objects on the heap. A
register, a memory or stack cell and a tuple's element hold a value: its type and
one integer standing for the union (a number, the word under a bool, the index of
an object), numbers within the width of an int. The length of a tuple is kept beside
its values: `builtin__range` computes it in an int, and ends that lie too far apart
make it negative (`SpanLength`). `StackSize` is the capacity the stack starts with; a
load from the place just behind its array, which memory_get lets through, gives garbage
(`StackGet`), one from before the array, huge to an unsigned capacity, gives nothing. `frame` is `vm->frame`, `callStack` what lies below `csp`; a frame
carries its prototype, the return address and the save buffer. `Fetch(op)` is the
head of `vm_execute`'s loop; the action of an opcode is the whole case, including
the calls it makes. `Init` is `vm_create` on any program of `Binaries`, the map
from programs to the binaries `compile()` returns. `status` says how an execution
ends: `halted` when pc leaves its region, `aborted` at a failed assert, and
`undefined` when the program does what C leaves undefined; nothing is claimed
about what follows. Undefined values that C merely copies are not an end: they
are tracked (`GARBAGE`), and what an instruction could make of leftovers of an
earlier one is a choice (`Wild`, `DirtyWords`, `LessOutcomes` and its like).

**Compiler.** `compile_context_t` is a record that each operator takes and
returns; `at` and `type` are the `compile_result_t`. `rp` wraps at 256 and
immediates at 16 bits, as the fields do. The operators follow the order in which
the functions reserve registers, write code and define symbols, because that
order is what goes wrong. Programs whose compilation is itself undefined (an empty
function body, a call through something that is no function) count as rejected.

**Balance.** The machine pops without looking and jumps by a register's content; that
this goes well rests on what the compiler emits, and is stated nowhere. `Balanced` states
it of a binary's text alone. `Depths` counts along a region what each instruction pops and
pushes, a call having its result pushed by then. In a balanced binary no count is smaller than
the next instruction pops; a jump or a skip ends where the count is the one it comes
with; a return stands in a function, where the count is 0; a function is left by a
return only; the number of arguments of a builtin is loaded just before it is called, and
the distance of a jump is loaded before the jump with nothing in between that writes that
register, calls a function or is jumped to. Calls of `int` and `string`, which push nothing
for some types, and `OP_STORE`, which the compiler never emits, are not balanced.

**Meaning** is written from the language (docs/grammar.txt, the inputs and
expectations of test/interpret), not from the compiler: lexical scope, operands
from left to right, calls in a scope of their own.

**Lexer and TokenCursor.** A text is a sequence of characters; `ScanFrom` is the loop
of `peek` with the matching functions of `lex.c` and `match.c`, quirks included
(`fn` is a keyword wherever it starts a word; a comment without an end of line, an
unfinished string or an invalid word at the end runs past the NUL, which is
`OutsideText`). `TokenCursor` is about the calls around it, for any scan that finds the
tokens of a source one after the other and leaves its text behind the last
(`ScanAssumption`, which TLC evaluates for `ScanFrom`). That last token is the EOF if the
text is finished; a text that ends in a comment, a string or an invalid word has none.
Its state is position, previous and lookahead, with the cache test of `lex.c:142`, starting
from a context of which `nord.c:45` sets the position only; the tokens left unset begin at
0 or 2, before and behind the first positions.

**Parser.** One operator per function of `parse.c`, on the scan context
[next, last, outcome] over a sequence of tokens, which is what `TokenCursor` is shown
to give. They return NULL where the code does, and leave through `rejected` (exit),
`aborted` (assert), `undefined` (a NULL tree's location), `stray` (a backup to a
token nobody set) or `overflowed` (no room for a call on the C stack). Each operator
takes `call`, the functions as its body can call them; `Calls[n]` is what the functions
are where n calls fit on the stack, each body over `Calls[n - 1]`, and the parser's own
are `Calls[Depth]`. A loop of `parse.c` is `Loop`: as many turns as there are
tokens left, since a turn that does not end the loop takes one, and a turn at the EOF
ends it. `Grammar` writes a tree by docs/grammar.txt with only the
parentheses it needs, in three layouts; it owes nothing to `parse.c`.

**SymbolMap, MemoryArray, BinaryFile.** The arrays of the C structures with their
capacities. What `Compiler` and `VM` assume in their place are the abstract modules
`Scopes` and `Cells`. A probe or an address that leaves an array ends the model as
undefined. The hash is a constant; the run takes four names whose `pjw_hash` values
collide in each of the ways there are. A file is the sequence of its packed cells,
each with its size in bytes, since the loader decides by counting bytes only; `Offsets` adds
the sizes up, and a string is its bytes and a NUL.

**Modules.** A file is a list of statements: an import, a jump to another place,
anything else. A jump may be taken or not, and leads on over statements (the body of an
if, of a loop or of a function, a return) or back (a loop's next turn, a call). Which it
is depends on values the module does not have, so both are possible. A jump goes back at
most once in each machine, which bounds the turns of a loop at two.
`machines` is the C stack of `vm_execute`s, innermost last; a machine's memory holds, for
each import, the name that becomes the module. An import opens, parses, compiles and starts a machine in one
step, because nothing else runs before the new machine does.

**Abstractions.** A string is a sequence of pieces: a literal is one piece, `+`
concatenates, `string()` makes one piece of a number. One piece counts as one
character in a length; no program of the runs makes the same text of different
pieces. Every float is the same value, and a decision that depends on one is open.
Memory and scopes are functions; that `memory.c` implements them is `MemoryArray`'s
refinement, how far `symbol.c` does is `SymbolMap`'s. The
128 registers `vm_create` does not clear are garbage. A frame keeps all its locals:
a function declared with 255 registers taken, whose list of locals would be cut at
register 0, is outside the model. `print` keeps the value, not its layout.

## 3. What the runs check

**vm** (`MCVM`): 31 binaries for the corners (ints at the edge of their width,
recursion, a tuple walked past its end, empty ranges and ranges whose length overflows,
every failing assert, underflow of the stack, loads from behind it) and 729 whose function body is any two of 27 instructions,
called with a value of every type in registers 1 to 8; 198 of the 760 are balanced. Ints are cut to 11 bits and
floats to 64 exact integers, so that overflow and rounding happen; 18 registers
include two that OP_LOAD takes for the stack. About 56 000 states.

- `TypeOK`: every part of `vm_t` holds what it may hold, numbers within the width of
  an int, whatever wraps.
- `NoDangling`: no value in reach points to an object that was never made.
- `IteratorsBounded`: OP_DEREF tests for equality only, yet an index never passes the
  length, and nothing is read outside a tuple, with one exception that the property
  states: a range whose length overflowed is shorter than nothing, and its first
  OP_DEREF reads outside.
- `CallChain`: each frame was entered by a CALL of the frame below, and resumes
  after it.
- `NestedActivations`: the machine implements `Activations`, by the mapping
  `here` = (region, pc) and `returns` = the return addresses of the frames.
- `StackAsCounted`: in a balanced binary sp is what the texts count, of the place
  executed and of each caller's; nothing below the innermost call is popped.
- `CallersStackKept`: nor is it written.
- `ObjectsLast`: no step changes a text or a tuple in place; an iterator goes on one
  element at a time, given to the register that asked, whoever shares its tuple.

**nord** (`MCNord`): 1179 programs. 532 print an expression over numbers and a
variable and then the variable; 384 put values of every type in tuples, variables,
conversions and comparisons; 148 combine conditions, ranges, loops and nested
loops over bodies that read and write a variable; 84 call a function of two
arguments in every way; 8 recurse; 23 are those of test/interpret, with loops and
recursions shortened. About 146 000 states, up to 250 instructions long.

- `OutputCorrect`: what was printed is a beginning of what the program means, and
  all of it at the end. Where the repository has no text to go by, the meaning follows
  the code: a range with equal ends is empty (`builtins.c:158`).
- `RunsCleanly`: compiled code fails no assert and does nothing undefined.
- `EndsClean`: a program ends at the end of its first region, without a frame
  and with an empty stack.
- `CompilesBalanced`: what the compiler emits is balanced, programs that call `int` or
  `string` aside. With the theorems on balanced binaries this gives `StackAsCounted` and
  `EndsClean` of those programs whatever they do at run time.
- `Terminates`: it ends. Fairness is `WF_vars(Next)`: `vm_execute` is a loop of one
  thread that nothing suspends, so it takes its next step; no fairness between
  actions is assumed, and at most one opcode is enabled at a time.

Why these bounds: a register conflict needs two values alive at once and one party
more, a jump error one body of each kind, a stack imbalance one call on each path;
the families go through all combinations of such pairs, and 16 registers suffice
for all of them (`WellFormedBinary` is checked of every program, so none is cut).

Left out of these programs are the ones known to go wrong, each a hazard: `or`
(the one inside `<=` and `>=` stays: both its operands are clean words),
`>` of equal operands, an if body that ends in an assignment, a declaration from a
variable that is assigned later, a later argument that reads a register already
moved, locals inside a function called from a loop, more than 15 registers.

**scan** (`MCScan`): 12 306 texts: every one or two of 50 words (keywords, symbols,
names that begin like a keyword, numbers, strings, invalid words) and every three of
eight, next to each other where no blank is needed or with blanks or a comment between;
and one word, or two of the eight, with a comment, a string or an invalid word behind
that does not end. All orders of peek, accept and backup, from 4 unset contexts each;
217 000 states. Three words
and the EOF suffice because a cursor knows at most two tokens besides the next.

- `LookaheadCoherent`: a token given from the cache is the one a scan would find.
- `ImplementsReader`: the cursor implements `TokenReader`, with `next` the first token
  behind the position and `last` the one accepted last.
- `LeavesOnlyAtTheEnd`: the text is left only by a scan behind its last token, which has
  just been accepted: the EOF of a finished text, the last whole token of another.

**parse** (`MCParser`): 26 637 inputs: the programs of the nord run and a few more in
three layouts, every sequence of up to three, four or five tokens from five alphabets,
and the forms whose tokens are lost or taken twice among their neighbours, most of these
no programs. 68 000 states; every function of `parse.c` takes
each of its returns.

- `ReadsBack`: a program comes back as the tree it was written from.
- `Conserves`: whatever the input, each token read is in the trees once and in order,
  but for four forms: the last token of the condition of an `if` without brace or end of
  line is taken twice (parse.c:323), and lost are a declaration with a `return` behind it
  on its line (parse.c:385), an operand with a slash and `exported` behind it
  (parse.c:816), and a `/exported/` with no named function behind it (parse.c:573).
  Without any one of the four the property fails.
- `StaysInInput`: no token behind the EOF is asked for, nothing is given back before
  something was taken; this is what `TokenCursor` counts on.
- `FitsOnStack`: the calls nest no deeper than twelve for each token. `Depth` is 60, so
  this speaks of the inputs of up to five tokens, every one of the alphabets';
  the programs, which are longer, all fit, since they come back whole.
- `MovesOn`: a statement found has consumed a token, so the loop ends. It stands for
  a liveness property: TLC computes the ENABLED of weak fairness without sharing
  the parser's recursion, which does not finish.

Known wrong and left out of `ReadsBack` only, which asks for the tree a program was
written from: an `if` without braces on one line, where the last token of its condition
becomes its body and the statement behind runs always. The forms that `Conserves` names as
lost are not what `Grammar` writes.

**symbols** (`MCSymbolMap`): four names (two with one home at every capacity up to 32,
two that share the last slot until the map grows), up to three scopes with 1, 5 and 1
sets, so that a map grows once and the chain is three long; 25 000 states.

- `WellPlaced`: a probe meets a stored symbol first; `GetsNearest`: a lookup gives what
  the innermost scope with the name gives, or leaves an array.
- `LosesOnlyToGrowing`: a symbol is lost only when the map grows, to one with its home.
- `ImplementsUnlessDropping`: but for that, every call is the one `Scopes` has.

**storage** (`MCBinaryFile`): up to five values of five kinds in an array that starts at
capacity 1 and grows three times, written at any moment and loaded; 44 000 states.

- `NeverOverruns`, `ImplementsCells`: see the proofs; `LoadsWhatWasWritten`: the loader
  is never out of step with the cells; `RoundTrip`: all of the data section and the
  first block come back (functions, tuples and modules as their type only).
  Nothing is assumed of when, or whether, a file is written, nor that the loading ends:
  that the loader has a cell to read as long as it misses bytes is what being in step
  means, and each one takes it further.

**modules** (`MCModules`): every `main` of up to three and `a`, `b` of up to two
statements, over imports of each other, themselves, a missing and a rejected file,
and jumps on and back over them; a function that imports when it is called, and a loop
whose turns import different files. A C stack of four machines, so that a circle of two
overflows and a chain of three does not. 641 000 states.

- `ExecutesInOrder`: a program that ends, and in which no jump skips an import, has
  executed each module to its end, before the statement behind the import, in the order of
  the text, and had no circle. `Orders` is what the texts alone say of it.
- `ImportsInTurn`: the same of all programs, import by import: one that a machine has
  passed is done unless a jump skips it; of two that are done the later one came later
  unless a jump goes back over it; a module is done after those it imports.
- `ServesOneImport`: each module executed is in exactly one cell of one memory, so a file
  imported twice is executed twice, and none is lost on the way out of the machines.
- `FailsForCause`: a failed assert means an import behind which a jump comes back to it,
  an overflow of a C stack with room for every file means a circle of files, and every
  failure is foretold by the texts: by an order that never ends or by such a jump.
- `ModulesAreDone`, `OnlyInnermostChanges`: a module in memory is a finished machine,
  in the cell that had its name; nothing but the end of an import writes memory there.
- `NearsItsEnd`: every step, imports included, leaves the machines less to do (`Agenda`, in
  the order of words), and there is no step after the end.
- `Terminates`: under `WF_vars(Next)`, as for the machine: one thread.

**Runs that fail**, each one claim of the repository's own text:

| run | claim | what happens |
|---|---|---|
| `load_from_stack` | "Loads the value at the specified address into a register" (bytecode.h:24) | `vm.c:289` tests the register's number and reads the stack for 16 and up; the 16th `print("a")` prints `nothing` |
| `locals` | "Which registers are used by this function" (value.h:103) | `compile.c:587` lists the arguments and one more; a recursive function clobbers its caller's loop |
| `implicit_return` | "If return was implicit, add it in now" (compile.c:600) | not if the code ends in a conditional return: the program stops silently inside the function |
| `stale_or` | test/interpret/expectations/logic/or_02.txt expects `false` | `vm.c:386` reads four bytes of a one-byte bool; after an addition a chain of `or` over false prints `true` |
| `aliasing` | "value is immutable" (compile.c:489) | `let c = a` shares `a`'s register, and changes with it |

The README of the repository names limited register allocation as known; these
runs say where exactly it bites. All five were reproduced on the build.

## 4. What is proved

### The machine

`VM_proofs` proves, for every set of well-formed binaries, every number of registers
up to 256, every width of ints of 11 bits or more and every clock:

| theorem | states |
|---|---|
| `Invariant` | `Spec => []IInv` |
| `MachineTyped` | `Spec => []TypeOK`, the width of every number included |
| `NothingDangles` | `Spec => []NoDangling` |
| `IteratorsStayInside` | `Spec => []IteratorsBounded`, overflowed ranges told apart |
| `FramesChained` | `Spec => []CallChain` |
| `ActivationsNest` | `Spec => NestedActivations` |
| `SharedObjectsLast` | `Spec => ObjectsLast` |

The assumptions are those of `Values` and `VM`: the widths are positive and related
as in C, and binaries are well formed (registers exist, immediates fit, the data
section's references lead somewhere, an iterator advances by one). TLC evaluates
them on every run, so the compiler's programs are shown to meet them.

The argument: none of the properties is inductive. That a return resumes a region
that exists needs the chain of calls; the chain needs that the frame saved by a
call was itself entered from below, and that the code being run is the one of the
innermost frame; that a restored register is a usable value needs it of save
buffers, which needs it of registers when they are saved; and an iterator stays
inside because the tuple it walks is never changed, has as many values as its length
says unless it is a range whose length overflowed, and its advance is one. `IInv`
puts these together: `Loading` (the binary is the one loaded), `HeapOK` (objects
refer to objects, iterators stay inside), `CellsOK` (memory, registers, stack and
output hold usable values), `ControlOK` (frames and their chain), `Registered`
(sp, pc, status). The lemmas go the same way: what a new object, a write to one
cell, a jump, or a builtin's pop and push does to each part; then one lemma per
family of actions; then `NextInvariant`. `ActivationsNest` shows each step to be
work inside an activation, an entry or a leave, from the same invariant.
`SharedObjectsLast` is what makes copies of pointers as good as copies of values, and a
`for` loop see each element once: that the element given is the one at the index needs
the iterator inside its tuple and the register of the instruction to exist (`IInv`), that
all other steps leave the old objects alone goes by the families of actions again.

### Balanced programs

`Balance_proofs` proves, from the same assumptions:

| theorem | states |
|---|---|
| `BalanceHolds` | `Spec => [](IInv /\ BInv)` |
| `StackCounted` | `Spec => []StackAsCounted` |
| `CallersPartKept` | `Spec => CallersStackKept` |
| `BalancedEndClean` | `Spec => [](IsBalanced => EndsClean)` |

This is a statement about all executions drawn from a text read once from beginning to
end: a loop may turn, and a function call itself, any number of times. That sp is as counted is not inductive.
How many values a builtin pops and where a jump goes is read from registers, so the
invariant says of every load and the use that counts on it that the register
holds what was loaded (`Held`), which no jump into the middle and no callee can disturb;
what a call leads to and what a builtin is called is read from memory, so memory has to be
the data section as loaded (`DataKept`); a return lands behind its call only if the machine
is inside its region (`InText`) and the frames chain (`IInv`). `Counted` then is sp = the
counts of all callers up to their calls plus the count here, and that every cell below sp
was written. A call moves the count of its caller into `Bottom`, where no step
of the callee reaches, and the return takes it from there. Only the
values that a chosen builtin pops differ between instructions, so one lemma
(`AdvancesStep`) serves all that go on to the next, one (`TargetStep`) those that go
elsewhere, and `CallSteady` and `ReturnSteady` the change of region. `Iteration` gives the
recursive counts their existence and their values.

### The parser

| theorem | states |
|---|---|
| `ParserStaysInInput` | `Spec => []StaysInInput` |
| `ParserMovesOn` | `Spec => MovesOn` |
| `ParserFitsOnStack` | `Spec => []FitsOnStack` |
| `LoopsEnd` | each loop returns what its turns come to when it is over |

These hold of every sequence of tokens with the EOF at its end and nowhere before
(`ParserAssumption`), grammatical or not, and of every C stack. The argument is a
contract of the functions. A context is sane if its place is in the input and the token
a backup would return to lies before it; `Ready(f, c)` is what f may count on, which for
`statement_block` alone includes that a token was taken before, because it gives one
back without having taken it. `Returns` is what f owes: a sane context, not before the one
given, behind it if there is a tree, and no overflow if the stack has `Need(f, c)` more
calls. That need is twelve for each token left and the function's `Height`, the length of
the longest chain of calls below it that takes no token; it is what makes the three
properties one proof, since a function that came back to itself would have no height.
One lemma per function shows its body keep its contract if the functions it calls keep
theirs; `CallsAreSound` concludes by the depth of the calls. The step of the
specification is then a call in a sane context. `SaneInvariant` holds by that, and the
theorems follow. `LoopsEnd` is about the notation: a function of TLA+ needs a domain, so
`Loop` gives a loop of parse.c as many turns as there are tokens left, where the code has
`while (true)`. By the same contract a turn ends the loop or takes a token, so that the
last of these turns finds the loop stopped, the parser left, or the EOF, where one
more turn would change nothing. That the trees are the right ones (`ReadsBack`, `Conserves`) stays with
TLC: it is about `Grammar`, which recurses over trees.

### Imports

| theorem | states |
|---|---|
| `ChainInvariant` | `Spec => []Chained` |
| `ModulesTyped`, `ModulesDone` | `Spec => []TypeOK`, `Spec => []ModulesAreDone` |
| `ImportersWait` | `Spec => OnlyInnermostChanges` |
| `CourseInvariant` | `Spec => [](Chained /\ OnCourse /\ InStep /\ Ended)` |
| `ModulesInOrder` | `Spec => []ExecutesInOrder` |
| `ImportsTakeTurns` | `Spec => []ImportsInTurn` |
| `FailuresHaveCauses` | `Spec => []FailsForCause` |
| `ProgramsNearTheirEnd` | `Spec => NearsItsEnd` |
| `NoEndlessRun` | `Agenda` is always one that fits on the C stack, and no infinite run of these goes down |

They hold of every finite set of files of any length whose jumps stay in their code
(`ModulesAssumption`, as those the compiler makes do), and of every depth of the C stack. `Chained` says that every machine stands
behind an import not yet returned, of the file the next one executes, and that a cell
holds a name or a module whose machine came to its end. That gives the first three. The order
needs two more parts. `OnCourse`: in each machine an import before its counter is done or
skipped by some jump, and one that is done at or behind its counter is one some jump goes
back over; the done ones are in turn, in the modules too. This gives `ImportsTakeTurns`.
Where no jump skips an import (`Unconditional`), a machine that has gone back over an
import that is done is astray: it can halt no more, and aborts at that very import.
`InStep`: in such a program, unless the innermost machine is astray, the modules done so
far are, from the first machine to the innermost, what the text of each puts before the
import it waits for. At the end of the first machine that is `Orders`. For the failures,
an import that cannot be executed makes every order that contains it say `never`.

The last two are what of `Terminates` is not liveness. A machine's work left is its code
once more for each jump it has not taken back and the statements from where it is; an `Agenda` is
the work left of every machine, the outermost first. An import makes the agenda longer but
lowers the place before, a return makes it shorter, a jump on leaves less to do, a jump back gives up one round
for less than a round. In the order of words that is always down, and as no agenda is longer than
the C stack allows, every set of agendas has a lowest (`SomeIsLowest`, by the first
machine's work, then the second's), so nothing goes down for ever. What remains for TLC
is that a step is taken as long as there is one.

### Binary files

| theorem | states |
|---|---|
| `BinaryInvariant` | `BinarySpec => []BinaryInv` |
| `LoadsInStep` | `BinarySpec => []LoadsWhatWasWritten` |
| `ComesBackWhole` | `BinarySpec => []RoundTrip` |

For data sections of any length and values of any kind. `BinaryFileAssumption`
states what the code gives: both data sections are created with capacity 1
(`compile.c:57`, and the loader's own), a value is its tag and contents, and a string, whose length is
taken by strlen, has no NUL in it. The invariant is that the bytes read are the offset
of the next cell, that the cells loaded so far are the ones written, and that the
loaded array grew by the same doublings as the one written, which is why the sizes agree
in the end; it rests on the array's invariant, which is proved in the same module.

### The memory array, the symbol maps, the scan context

| module | theorem | states | for every |
|---|---|---|---|
| `BinaryFile_proofs` | `ArrayTyped` | `Spec => []MemoryTypeOK` | size and set of values |
| | `StaysInArray` | `Spec => []NeverOverruns` | |
| | `ArrayIsCells` | `Spec => ImplementsCells` | |
| `SymbolMap_proofs` | `MapsTyped` | `Spec => []TypeOK` | set of names, hash, initial capacity |
| | `SymbolsFound` | `Spec => []WellPlaced` | |
| | `OnlyGrowingLoses` | `Spec => LosesOnlyToGrowing` | |
| | `LookupsFindNearest` | `Spec => []GetsNearest` | |
| | `MapsAreScopes` | `Spec => ImplementsUnlessDropping` | |
| `TokenCursor_proofs` | `CacheCoherent` | `Spec => []LookaheadCoherent` | set of sources and scan that finds their tokens |
| | `OnlyAtTheEnd` | `Spec => []LeavesOnlyAtTheEnd` | |
| | `CursorReads` | `Spec => ImplementsReader` | |

The array's invariant adds that cells the client has not written are cleared, which
is what makes the next set in order fit. A map's strengthens typing by `WellPlaced`:
putting a symbol into the first stop keeps every other symbol the first stop of its
own name, and growing puts each at its home, where nothing can come before it; so what
disappears in a step does so in `Grown`, by another symbol of the same home. From the
same invariant a probe ends at the symbol of its name or at no symbol of that name,
so a lookup through the chain of parents gives what the stack of scopes gives, and a set
that loses nothing changes the one symbol it sets: the refinement of `Scopes`. The
cursor's says that the position is 0 or the start or end of a token, that previous and
lookahead are tokens of the source or unset, and that an unset lookahead is never
served, since at position 0 the cache is not used and the first call sets it. From
it, a scan at the position finds the first token behind it, and each call is the
reader's.

### What stays with TLC

- The compiler, and the agreement of output and meaning (`OutputCorrect`, `RunsCleanly`,
  and that what it emits is balanced, `CompilesBalanced`, on which `EndsClean` rests for
  compiled programs; of those that call `int` or `string` TLC checks `EndsClean` itself):
  its operators recurse over trees, and what a recursive definition computes for every
  input takes an induction over data, whose theorems the installed provers cannot
  instantiate. Where the recursion is over a count
  (the depth of calls, the turns of a loop, the cells of a file), `Iteration` stands in: a
  least counterexample, and the existence of the function.
- `ReadsBack` and `Conserves`, for the same reason: `Grammar` recurses over trees.
- `ServesOneImport`: that each module is in one cell is seen over all memories at once.
- `Terminates` (of the machine and of imports): liveness under fairness. For imports all but the
  fairness is proved (`NoEndlessRun`).

## 5. Not modelled, and the plan

Not modelled:

- Member calls (`TOK_DOT`, OP_SETINBOUND, OP_GETOUTBOUND, `vm_call_function_by_name`
  and its queues, the exported-symbol table): the opcodes are missing from
  `bytecode.h`, so the commit has no such behaviour to be faithful to.
- `disassemble.c`, `vm_dump`, `print_ast`, the wording of diagnostics (`error.c`,
  `token_name`): formatting without state. `dl.c`: the dynamic linker. The token list
  of `scan_input` and the test drivers serve tests only.
- Allocation: objects are never freed while in use, `free` of an unset pointer
  (`compile.c:645`) and the list of locals written one past its end
  (`compile.c:592`) are hazards without a property.
- Bits of floats and characters of strings (see the abstractions above).

What could come next is a checked proof that what `Compiler` emits is balanced, and that
what is parsed conserves the tokens. Both the compiler and `Grammar` recurse over trees, so
this has to wait for a prover that takes an induction over data.
