--------------------------------- MODULE Modules ---------------------------------
(***************************************************************************)
(* OP_IMPORT (vm.c): a module is opened, parsed, compiled and executed by a  *)
(* machine of its own inside the importing instruction, and its name in the  *)
(* importer's memory is replaced by the module.  The C stack holds one       *)
(* vm_execute for each machine that has not come to its end.                 *)
(***************************************************************************)
EXTENDS Naturals, Sequences, FiniteSets

CONSTANTS
  FileSets,     (* [name -> statements], the files there may be               *)
  Main,         (* the file nord is given                                     *)
  Broken,       (* names of files that parse or compile rejects               *)
  StackDepth    (* how many calls of vm_execute fit on the C stack            *)

VARIABLES
  files,
  machines,     (* from the one nord created to the innermost                 *)
  modules,      (* the machines that have come to their end, kept by values   *)
  status

vars == <<files, machines, modules, status>>
-------------------------------------------------------------------------------
(* What a file's code does, as far as imports can tell: it imports, jumps on  *)
(* or back to another place, or does something else.  A jump may be taken or *)
(* not: on over the body of an if, of a loop or of a function, or from a     *)
(* return; back to the head of a loop, or to a function that is called.      *)
ImportOf(name) == [op |-> "import", name |-> name]
JumpTo(place)  == [op |-> "jump", place |-> place]
Other          == [op |-> "other"]
Statements     == [op : {"import"}, name : STRING] \cup [op : {"jump"}, place : Nat] \cup {Other}

(* The files of a program are finitely many, one of them is run, and a jump  *)
(* stays in its code or goes to the end of it.                               *)
ASSUME ModulesAssumption ==
  /\ StackDepth \in Nat \ {0}
  /\ \A fs \in FileSets :
       /\ IsFiniteSet(DOMAIN fs) /\ DOMAIN fs \subseteq STRING /\ Main \in DOMAIN fs \ Broken
       /\ \A name \in DOMAIN fs :
            /\ fs[name] \in Seq(Statements)
            /\ \A i \in DOMAIN fs[name] : fs[name][i].op = "jump" => fs[name][i].place \in 1..Len(fs[name]) + 1

(* compile_module: every import has a cell of its own, which holds the name. *)
String(name)  == [type |-> "string", name |-> name]
Module(name, n) == [type |-> "module", name |-> name, vm |-> n]
Imports(code) == {i \in DOMAIN code : code[i].op = "import"}
Data(code)    == [i \in Imports(code) |-> String(code[i].name)]

(* compile and vm_create.                                                    *)
Machine(name) == [file |-> name, pc |-> 1, memory |-> Data(files[name]), jumped |-> {}, symbols |-> {}]

Init ==
  /\ files \in FileSets
  /\ machines = << Machine(Main) >> /\ modules = <<>> /\ status = "running"

Running   == status = "running"
Innermost == machines[Len(machines)]
Code      == files[Innermost.file]
AtEnd     == Innermost.pc > Len(Code)
Statement == Code[Innermost.pc]
Executes(op) == Running /\ ~ AtEnd /\ Statement.op = op
Becomes(m)   == [machines EXCEPT ![Len(machines)] = m]
-------------------------------------------------------------------------------
Work ==
  /\ Executes("other")
  /\ machines' = Becomes([Innermost EXCEPT !.pc = @ + 1])
  /\ UNCHANGED <<files, modules, status>>

(* Mutant: the jump back is taken for ever.                                  *)
JumpForEver ==
  /\ Executes("jump")
  /\ machines' = Becomes([Innermost EXCEPT !.pc = Statement.place, !.jumped = @ \cup {Innermost.pc}])
  /\ UNCHANGED <<files, modules, status>>

(* OP_JMP behind a test, OP_CALL and OP_RETURN: on or to the place; back only *)
(* once in each machine, which bounds the turns of a loop.                   *)
Back(next) == next <= Innermost.pc
Jump ==
  /\ Executes("jump")
  /\ \E next \in {Statement.place, Innermost.pc + 1} :
       /\ Back(next) => Innermost.pc \notin Innermost.jumped
       /\ machines' = Becomes([Innermost EXCEPT !.pc = next,
                                                !.jumped = IF Back(next) THEN @ \cup {Innermost.pc} ELSE @])
  /\ UNCHANGED <<files, modules, status>>

(* The memory of this import, its string and the file of that name.          *)
Cell   == Innermost.memory[Innermost.pc]
Opened == Cell.name

(* Mutant: as if the C stack had no end.                                     *)
ImportUnbounded ==
  /\ Executes("import") /\ Cell.type = "string" /\ Opened \in DOMAIN files \ Broken
  /\ machines' = Append(Becomes([Innermost EXCEPT !.pc = @ + 1]), Machine(Opened))
  /\ UNCHANGED <<files, modules, status>>
(* Mutant: the module is stored before it has executed.                      *)
ImportEarly ==
  /\ Executes("import") /\ Cell.type = "string" /\ Opened \in DOMAIN files \ Broken
  /\ Len(machines) < StackDepth
  /\ machines' = Append(Becomes([Innermost EXCEPT !.memory[Innermost.pc] = Module(Opened, Len(modules) + 1),
                                                  !.pc = @ + 1]), Machine(Opened))
  /\ UNCHANGED <<files, modules, status>>

Import ==
  /\ Executes("import") /\ Cell.type = "string" /\ Opened \in DOMAIN files \ Broken
  /\ Len(machines) < StackDepth
  /\ machines' = Append(Becomes([Innermost EXCEPT !.pc = @ + 1]), Machine(Opened))
  /\ UNCHANGED <<files, modules, status>>

(* vm_execute returns into the import: module_create, memory_set and a       *)
(* symbol whose address is the instruction's empty first argument.           *)
Importer == machines[Len(machines) - 1]
(* Mutant: the name stays in memory.                                         *)
ImportedUnstored ==
  /\ Running /\ AtEnd /\ Len(machines) > 1
  /\ modules' = Append(modules, Innermost)
  /\ machines' = SubSeq(machines, 1, Len(machines) - 1)
  /\ UNCHANGED <<files, status>>
(* Mutant: the module goes to the memory of the first machine.               *)
ImportedIntoFirst ==
  /\ Running /\ AtEnd /\ Len(machines) > 1
  /\ modules' = Append(modules, Innermost)
  /\ LET stored == [i \in DOMAIN machines[1].memory |->
                       IF i = Importer.pc - 1 THEN Module(Innermost.file, Len(modules) + 1)
                       ELSE machines[1].memory[i]]
     IN  machines' = [SubSeq(machines, 1, Len(machines) - 1) EXCEPT ![1].memory = stored]
  /\ UNCHANGED <<files, status>>
Imported ==
  /\ Running /\ AtEnd /\ Len(machines) > 1
  /\ modules' = Append(modules, Innermost)
  /\ machines' = [SubSeq(machines, 1, Len(machines) - 1) EXCEPT ![Len(machines) - 1] =
                    [Importer EXCEPT !.memory = [@ EXCEPT ![Importer.pc - 1] = Module(Innermost.file, Len(modules) + 1)],
                                     !.symbols = @ \cup {[name |-> Innermost.file, address |-> 0]}]]
  /\ UNCHANGED <<files, status>>

Halt ==
  /\ Running /\ AtEnd /\ Len(machines) = 1
  /\ status' = "halted" /\ UNCHANGED <<files, machines, modules>>

(* Mutant: the C stack one shorter.                                          *)
EndsEarly ==
  IF Cell.type # "string" THEN "aborted"
  ELSE IF Opened \notin DOMAIN files THEN "undefined"
  ELSE IF Opened \in Broken THEN "rejected"
  ELSE IF Len(machines) >= StackDepth - 1 THEN "overflowed" ELSE "running"
(* Mutant: nothing happens when the C stack is full.                         *)
EndsSilently ==
  IF Cell.type # "string" THEN "aborted"
  ELSE IF Opened \notin DOMAIN files THEN "undefined"
  ELSE IF Opened \in Broken THEN "rejected" ELSE "running"
(* assert(ret.type == VAL_STRING); exit in parse or compile; fseek on the    *)
(* NULL of an fopen that failed; a vm_execute that does not fit.             *)
ImportEnds ==
  IF Cell.type # "string" THEN "aborted"
  ELSE IF Opened \notin DOMAIN files THEN "undefined"
  ELSE IF Opened \in Broken THEN "rejected"
  ELSE IF Len(machines) = StackDepth THEN "overflowed" ELSE "running"
Fail ==
  /\ Executes("import") /\ ImportEnds # "running"
  /\ status' = ImportEnds /\ UNCHANGED <<files, machines, modules>>

Next == Work \/ Jump \/ Import \/ Imported \/ Halt \/ Fail
Spec == Init /\ [][Next]_vars /\ WF_vars(Next)
-------------------------------------------------------------------------------
TypeOK ==
  /\ status \in {"running", "halted", "aborted", "rejected", "undefined", "overflowed"}
  /\ Len(machines) \in 1..StackDepth
  /\ \A i \in DOMAIN machines :
       /\ machines[i].pc \in 1..Len(files[machines[i].file]) + 1
       /\ DOMAIN machines[i].memory = Imports(files[machines[i].file])

(* The modules that have been executed before each statement of a code, if   *)
(* those a file executes, and it, are orders[file]; "never" if it does not    *)
(* come to it.                                                               *)
Executed(statement, orders) ==
  IF statement.op # "import" THEN <<>>
  ELSE IF statement.name \in DOMAIN files \ Broken THEN orders[statement.name] ELSE << "never" >>
Before(code, orders) ==
  LET before[i \in 0..Len(code)] == IF i = 0 THEN <<>> ELSE before[i - 1] \o Executed(code[i], orders)
  IN  before

(* The modules a file has executed by its end, innermost first, a module     *)
(* that two files import once for each, where so many calls of vm_execute    *)
(* fit on what is left of the C stack.                                       *)
Orders ==
  LET order[room \in 0..StackDepth] ==
        IF room = 0 THEN [name \in DOMAIN files |-> << "never" >>]
        ELSE [name \in DOMAIN files |-> Append(Before(files[name], order[room - 1])[Len(files[name])], name)]
  IN  order

(* A jump goes on over a statement, or back from behind it.                  *)
Skips(code, i)   == \E j \in DOMAIN code : code[j].op = "jump" /\ j < i /\ i < code[j].place
Repeats(code, i) == \E j \in DOMAIN code : code[j].op = "jump" /\ code[j].place <= i /\ i <= j
Loops(name)      == \E i \in Imports(files[name]) : Repeats(files[name], i)
Unconditional    == \A name \in DOMAIN files : \A i \in Imports(files[name]) : ~ Skips(files[name], i)
Names(s)         == {s[i] : i \in DOMAIN s}

(* A program that halts, and in which no jump skips an import, has executed  *)
(* each module to its end, before the statement behind its import, in the    *)
(* order of the text, a file as often as it is imported; no chain of imports *)
(* comes back to a file (vm.c:562, vm.c:590, vm.c:596).                      *)
ExecutesInOrder ==
  status = "halted" /\ Unconditional =>
    Append([i \in DOMAIN modules |-> modules[i].file], Main) = Orders[StackDepth][Main]

(* Where imports are conditional, or in loops: an import behind a machine    *)
(* that it has not executed is one some jump skips; of two that it has, the  *)
(* later one was executed first only if some jump goes back over it; and a   *)
(* module has executed those it imports before it is done itself (vm.c:323,  *)
(* vm.c:590).                                                                *)
IsDone(m, i) == m.memory[i].type = "module"
InTurn(m, place) ==
  LET code == files[m.file]
  IN  /\ \A i \in Imports(code) : i < place => IsDone(m, i) \/ Skips(code, i)
      /\ \A i, j \in Imports(code) : i < j /\ IsDone(m, i) /\ IsDone(m, j) =>
           m.memory[i].vm < m.memory[j].vm \/ Repeats(code, j)
ImportsInTurn ==
  /\ \A i \in DOMAIN machines : InTurn(machines[i], IF i = Len(machines) THEN machines[i].pc ELSE machines[i].pc - 1)
  /\ \A n \in DOMAIN modules :
       /\ InTurn(modules[n], modules[n].pc)
       /\ \A i \in DOMAIN modules[n].memory : IsDone(modules[n], i) => modules[n].memory[i].vm < n

(* A module serves one import: whatever was executed is in one cell of one   *)
(* memory, a file imported twice in two, and nothing that was executed is    *)
(* lost when the machine above it comes to its end (vm.c:594, vm.c:596).     *)
ServesOneImport ==
  LET all == modules \o machines
  IN  \A n \in DOMAIN modules :
        \E k \in DOMAIN all : \E i \in DOMAIN all[k].memory :
          \A l \in DOMAIN all : \A j \in DOMAIN all[l].memory :
            all[l].memory[j] = Module(modules[n].file, n) <=> l = k /\ j = i

(* The other ways to end each have their one cause: an import executed       *)
(* twice by one machine, or, on a C stack with room for every file, a chain  *)
(* of files that comes back to one of them.                                  *)
FailsForCause ==
  /\ status = "aborted" => Loops(Innermost.file)
  /\ status = "overflowed" /\ Cardinality(DOMAIN files \ Broken) < StackDepth =>
       \E i, j \in DOMAIN machines : i < j /\ machines[i].file = machines[j].file
  /\ status \notin {"running", "halted"} =>
       "never" \in Names(Orders[StackDepth][Main]) \/ \E name \in DOMAIN files : Loops(name)

(* A module in a machine's memory is the machine that executed that file to  *)
(* its end, in the cell whose name it replaced, and is there when its import *)
(* was executed: no machine sees a module before it is done.                 *)
ModulesAreDone ==
  \A m \in Names(machines) \cup Names(modules) : \A i \in DOMAIN m.memory :
    LET value == m.memory[i]
    IN  /\ value.name = files[m.file][i].name
        /\ value.type = "module" =>
             /\ value.vm \in DOMAIN modules
             /\ modules[value.vm].file = value.name
             /\ modules[value.vm].pc = Len(files[value.name]) + 1

(* While a module executes, no memory but its own can change; and a module,  *)
(* once done, keeps its memory for good.                                     *)
OnlyInnermostChanges ==
  [][/\ \A i \in DOMAIN machines \cap DOMAIN machines' :
          machines'[i].memory # machines[i].memory => i = Len(machines') /\ modules' # modules
     /\ SubSeq(modules', 1, Len(modules)) = modules]_vars

(* What a machine has before it: its code once more for each jump it has not *)
(* taken back, and the statements from where it is.                          *)
JumpsLeft(m) == {i \in DOMAIN files[m.file] : files[m.file][i].op = "jump"} \ m.jumped
WorkLeft(m)  == Cardinality(JumpsLeft(m)) * Len(files[m.file]) + Len(files[m.file]) + 1 - m.pc
Agenda       == [i \in DOMAIN machines |-> WorkLeft(machines[i])]

(* The order of words, a word before those that it begins.                   *)
Lower(new, old) ==
  \E i \in DOMAIN old :
    /\ \A j \in 1..i - 1 : j \in DOMAIN new /\ new[j] = old[j]
    /\ i \in DOMAIN new => new[i] < old[i]

(* An import adds work, a whole machine's, inside one instruction; but it is *)
(* behind that instruction for good, so every step brings the machines       *)
(* nearer to their end, the outer ones before the inner ones, and there is   *)
(* none after it (vm.c:590).                                                 *)
NearsItsEnd == [][status = "running" /\ (status' = "running" => Lower(Agenda', Agenda))]_vars

(* Every program comes to an end: circular imports exhaust the C stack.      *)
Terminates == <>(status # "running")
===============================================================================
