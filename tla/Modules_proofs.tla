----------------------------- MODULE Modules_proofs -----------------------------
(***************************************************************************)
(* Imports execute each module once it is there and to its end, in the order *)
(* of the text, for every set of files and every depth of the C stack.       *)
(***************************************************************************)
EXTENDS Modules, Iteration, SequenceTheorems, FiniteSetTheorems

Known    == DOMAIN files \ Broken
Contents == [type : {"string"}, name : STRING] \cup [type : {"module"}, name : STRING, vm : Nat]
Machines == [file : Known, pc : Nat \ {0}, memory : UNION {[Imports(files[name]) -> Contents] : name \in DOMAIN files},
             jumped : SUBSET Nat, symbols : SUBSET [name : STRING, address : {0}]]

(* A machine has a cell for each import of its file, with the name or with   *)
(* a module that has come to its end.                                        *)
Sound(m, done) ==
  /\ m.pc <= Len(files[m.file]) + 1
  /\ m.memory \in [Imports(files[m.file]) -> Contents]
  /\ \A c \in Imports(files[m.file]) :
       LET value == m.memory[c]
       IN  /\ value.name = files[m.file][c].name
           /\ value.type = "module" =>
                /\ value.vm \in DOMAIN done
                /\ done[value.vm].file = value.name
                /\ done[value.vm].pc = Len(files[value.name]) + 1

(* The importing machine stands behind an import that has not returned, of   *)
(* the file the other executes.                                              *)
Calls(m, callee) ==
  /\ m.pc - 1 \in Imports(files[m.file])
  /\ m.memory[m.pc - 1].type = "string"
  /\ files[m.file][m.pc - 1].name = callee.file

Chained ==
  /\ files \in FileSets
  /\ status \in {"running", "halted", "aborted", "rejected", "undefined", "overflowed"}
  /\ machines \in Seq(Machines) /\ Len(machines) \in 1..StackDepth /\ machines[1].file = Main
  /\ modules \in Seq(Machines)
  /\ \A i \in 1..Len(machines) : Sound(machines[i], modules)
  /\ \A i \in 1..Len(modules) : Sound(modules[i], modules)
  /\ \A i \in 1..Len(machines) - 1 : Calls(machines[i], machines[i + 1])
-------------------------------------------------------------------------------
LEMMA FilesAre ==
  ASSUME files \in FileSets, NEW name \in DOMAIN files
  PROVE  /\ files[name] \in Seq(Statements) /\ Len(files[name]) \in Nat /\ DOMAIN files[name] = 1..Len(files[name])
         /\ name \in STRING
         /\ \A i \in 1..Len(files[name]) : files[name][i].op = "jump" => files[name][i].place \in 1..Len(files[name]) + 1
  <1>1. /\ files[name] \in Seq(Statements) /\ name \in STRING
        /\ \A i \in DOMAIN files[name] : files[name][i].op = "jump" => files[name][i].place \in 1..Len(files[name]) + 1
    BY ModulesAssumption, Zenon
  <1> QED BY <1>1, LenProperties

LEMMA MainIsKnown == files \in FileSets => Main \in Known /\ Known \subseteq DOMAIN files /\ Known \subseteq STRING /\ StackDepth \in Nat \ {0}
  <1>1. StackDepth \in Nat \ {0} /\ \A fs \in FileSets : DOMAIN fs \subseteq STRING /\ Main \in DOMAIN fs \ Broken
    BY ModulesAssumption, Zenon
  <1> QED BY <1>1 DEF Known

LEMMA ImportsAre ==
  ASSUME files \in FileSets, NEW name \in DOMAIN files
  PROVE  /\ Imports(files[name]) = {i \in 1..Len(files[name]) : files[name][i].op = "import"}
         /\ \A i \in Imports(files[name]) : files[name][i].name \in STRING
  <1>1. \A i \in 1..Len(files[name]) : files[name][i] \in Statements
    BY FilesAre
  <1>2. \A s \in Statements : s.op = "import" => s.name \in STRING
    BY DEF Statements, Other
  <1> QED BY <1>1, <1>2, FilesAre DEF Imports

(* The machine of a file about to execute its first statement.               *)
LEMMA MachineIs ==
  ASSUME files \in FileSets, NEW name \in Known, NEW done
  PROVE  /\ Machine(name) \in Machines /\ Sound(Machine(name), done)
         /\ Machine(name).file = name /\ Machine(name).pc = 1 /\ Machine(name).jumped = {}
         /\ \A c \in Imports(files[name]) : Machine(name).memory[c].type = "string"
  <1>1. name \in DOMAIN files
    BY MainIsKnown
  <1>2. Data(files[name]) \in [Imports(files[name]) -> Contents]
    BY <1>1, ImportsAre DEF Data, String, Contents
  <1>3. Machine(name) \in Machines
    BY <1>1, <1>2 DEF Machine, Machines
  <1>4. \A c \in Imports(files[name]) :
          Data(files[name])[c].type = "string" /\ Data(files[name])[c].name = files[name][c].name
    BY DEF Data, String
  <1>5. /\ Machine(name).file = name /\ Machine(name).pc = 1 /\ Machine(name).jumped = {}
        /\ Machine(name).memory = Data(files[name])
    BY DEF Machine
  <1>6. Len(files[name]) \in Nat
    BY <1>1, FilesAre
  <1>7. Sound(Machine(name), done)
    BY <1>2, <1>4, <1>5, <1>6 DEF Sound
  <1> QED BY <1>3, <1>4, <1>5, <1>7

LEMMA ChainStarts == Init => Chained
  <1> SUFFICES ASSUME Init PROVE Chained
    OBVIOUS
  <1>1. files \in FileSets /\ machines = << Machine(Main) >> /\ modules = <<>> /\ status = "running"
    BY DEF Init
  <1>2. Main \in Known /\ StackDepth \in Nat \ {0}
    BY <1>1, MainIsKnown
  <1>3. Machine(Main) \in Machines /\ Sound(Machine(Main), modules) /\ Machine(Main).file = Main
    BY <1>1, <1>2, MachineIs
  <1>4. machines \in Seq(Machines) /\ Len(machines) = 1 /\ machines[1] = Machine(Main)
    BY <1>1, <1>3
  <1>5. modules \in Seq(Machines) /\ Len(modules) = 0
    BY <1>1
  <1> QED BY <1>1, <1>2, <1>3, <1>4, <1>5 DEF Chained
-------------------------------------------------------------------------------
(* The innermost machine.                                                    *)
LEMMA InnermostIs ==
  ASSUME Chained
  PROVE  /\ Len(machines) \in Nat \ {0} /\ DOMAIN machines = 1..Len(machines)
         /\ Innermost = machines[Len(machines)] /\ Innermost \in Machines /\ Sound(Innermost, modules)
         /\ Innermost.file \in Known /\ Innermost.file \in DOMAIN files
         /\ Code = files[Innermost.file] /\ Len(Code) \in Nat /\ Innermost.pc \in 1..Len(Code) + 1
         /\ Innermost.memory \in [Imports(Code) -> Contents]
         /\ Imports(Code) = {i \in 1..Len(Code) : Code[i].op = "import"}
  <1>1. Len(machines) \in Nat \ {0} /\ DOMAIN machines = 1..Len(machines)
    BY MainIsKnown, LenProperties DEF Chained
  <1>2. Innermost = machines[Len(machines)] /\ Innermost \in Machines /\ Sound(Innermost, modules)
    BY <1>1 DEF Chained, Innermost
  <1>3. Innermost.file \in Known /\ Innermost.pc \in Nat \ {0}
    BY <1>2 DEF Machines
  <1>4. Innermost.file \in DOMAIN files
    BY <1>3 DEF Known
  <1>5. Len(files[Innermost.file]) \in Nat
    BY <1>4, FilesAre DEF Chained
  <1>6. Imports(files[Innermost.file]) = {i \in 1..Len(files[Innermost.file]) : files[Innermost.file][i].op = "import"}
    BY <1>4, ImportsAre DEF Chained
  <1>7. Innermost.pc <= Len(files[Innermost.file]) + 1 /\ Innermost.memory \in [Imports(files[Innermost.file]) -> Contents]
    BY <1>2 DEF Sound
  <1> QED BY <1>1, <1>2, <1>3, <1>4, <1>5, <1>6, <1>7 DEF Code

(* What a machine is after a statement that is no import.                    *)
Moved(m) ==
  /\ m \in Machines /\ m.file = Innermost.file /\ m.memory = Innermost.memory
  /\ \/ /\ m.pc = Innermost.pc + 1 \/ (Statement.op = "jump" /\ m.pc = Statement.place)
        /\ Innermost.pc < m.pc /\ m.jumped = Innermost.jumped
     \/ /\ Statement.op = "jump" /\ m.pc = Statement.place /\ m.pc <= Innermost.pc
        /\ Innermost.pc \notin Innermost.jumped /\ m.jumped = Innermost.jumped \cup {Innermost.pc}

LEMMA Moves ==
  ASSUME Chained, Work \/ Jump
  PROVE  /\ files' = files /\ modules' = modules /\ status' = status
         /\ Innermost.pc \in 1..Len(Code) /\ Innermost.pc \notin Imports(Code)
         /\ (Statement.op = "jump" => Statement.place \in 1..Len(Code) + 1)
         /\ machines' \in Seq(Machines) /\ Len(machines') = Len(machines)
         /\ \A i \in 1..Len(machines) - 1 : machines'[i] = machines[i]
         /\ Moved(machines'[Len(machines)])
  <1> DEFINE k == Len(machines)
             m == machines'[k]
  <1>1. files' = files /\ modules' = modules /\ status' = status
    BY DEF Work, Jump
  <1>2. Innermost.pc \in 1..Len(Code) /\ Statement.op \in {"other", "jump"} /\ Statement = Code[Innermost.pc]
    BY InnermostIs DEF Work, Jump, Executes, AtEnd, Statement
  <1>3. Statement.op = "jump" => Statement.place \in 1..Len(Code) + 1
    BY <1>2, InnermostIs, FilesAre DEF Chained
  <1>4. Innermost.pc \notin Imports(Code)
    BY <1>2, InnermostIs
  <1>5. Innermost = [file |-> Innermost.file, pc |-> Innermost.pc, memory |-> Innermost.memory,
                     jumped |-> Innermost.jumped, symbols |-> Innermost.symbols]
        /\ Innermost.jumped \in SUBSET Nat
    BY InnermostIs DEF Machines
  <1>6. PICK n : machines' = Becomes(n) /\ Moved(n)
    <2>1. CASE Work
      <3> DEFINE n == [Innermost EXCEPT !.pc = @ + 1]
      <3>1. Innermost.pc + 1 \in Nat \ {0}
        BY <1>2, InnermostIs
      <3>2. n \in Machines
        BY <3>1, InnermostIs DEF Machines
      <3>3. n.file = Innermost.file /\ n.memory = Innermost.memory /\ n.pc = Innermost.pc + 1 /\ n.jumped = Innermost.jumped
        BY <1>5
      <3>4. machines' = Becomes(n)
        BY <2>1 DEF Work
      <3> HIDE DEF n
      <3>5. Innermost.pc < n.pc
        BY <1>2, <3>3, InnermostIs
      <3> QED BY <3>2, <3>3, <3>4, <3>5 DEF Moved
    <2>2. CASE Jump
      <3>1. PICK next \in {Statement.place, Innermost.pc + 1} :
              /\ next <= Innermost.pc => Innermost.pc \notin Innermost.jumped
              /\ machines' = Becomes([Innermost EXCEPT !.pc = next,
                                      !.jumped = IF next <= Innermost.pc THEN @ \cup {Innermost.pc} ELSE @])
        BY <2>2 DEF Jump, Back
      <3> DEFINE jumped == IF next <= Innermost.pc THEN Innermost.jumped \cup {Innermost.pc} ELSE Innermost.jumped
                 n == [Innermost EXCEPT !.pc = next, !.jumped = jumped]
      <3>2. Statement.op = "jump" /\ next \in Nat \ {0} /\ jumped \in SUBSET Nat
        BY <1>2, <1>3, <1>5, <2>2, InnermostIs DEF Jump, Executes
      <3>3. machines' = Becomes(n)
        BY <3>1
      <3> HIDE DEF jumped
      <3>4. n \in Machines
        BY <3>2, InnermostIs DEF Machines
      <3>5. n.file = Innermost.file /\ n.memory = Innermost.memory /\ n.pc = next /\ n.jumped = jumped
        BY <1>5
      <3> HIDE DEF n
      <3>6. CASE next <= Innermost.pc
        <4>1. next = Statement.place
          BY <1>2, <3>6, InnermostIs
        <4> QED BY <3>1, <3>2, <3>3, <3>4, <3>5, <3>6, <4>1 DEF Moved, jumped
      <3>7. CASE ~ (next <= Innermost.pc)
        <4>1. Innermost.pc < next
          BY <1>2, <3>2, <3>7, InnermostIs
        <4> QED BY <3>1, <3>2, <3>3, <3>4, <3>5, <3>7, <4>1 DEF Moved, jumped
      <3> QED BY <3>6, <3>7
    <2> QED BY <2>1, <2>2
  <1>7. machines' = [machines EXCEPT ![k] = n] /\ n \in Machines /\ machines \in Seq(Machines) /\ k \in 1..Len(machines)
    <2>1. machines' = [machines EXCEPT ![k] = n] /\ n \in Machines
      BY <1>6 DEF Becomes, Moved
    <2>2. machines \in Seq(Machines)
      BY DEF Chained
    <2>3. k \in 1..Len(machines)
      BY InnermostIs
    <2> HIDE DEF k
    <2> QED BY <2>1, <2>2, <2>3
  <1>8. machines' \in Seq(Machines) /\ Len(machines') = k /\ m = n /\ \A i \in 1..k - 1 : machines'[i] = machines[i]
    <2>1. /\ machines' \in Seq(Machines) /\ Len(machines') = k
          /\ \A j \in 1..k : machines'[j] = IF j = k THEN n ELSE machines[j]
      BY <1>7, ExceptSeq
    <2>2. k \in Nat /\ k \in 1..k
      BY InnermostIs
    <2> HIDE DEF k
    <2>3. \A j \in 1..k - 1 : j \in 1..k /\ j # k
      BY <2>2
    <2> QED BY <2>1, <2>2, <2>3
  <1> QED BY <1>1, <1>2, <1>3, <1>4, <1>6, <1>8

(* A machine is created, the importing one waits behind the instruction.     *)
LEMMA Opens ==
  ASSUME Chained, Import
  PROVE  /\ files' = files /\ modules' = modules /\ status' = status
         /\ Innermost.pc \in Imports(Code) /\ Innermost.memory[Innermost.pc].type = "string"
         /\ Opened = Code[Innermost.pc].name /\ Opened \in Known
         /\ machines' \in Seq(Machines) /\ Len(machines') = Len(machines) + 1 /\ Len(machines) < StackDepth
         /\ \A i \in 1..Len(machines) - 1 : machines'[i] = machines[i]
         /\ LET m == machines'[Len(machines)]
            IN  /\ m \in Machines /\ m.file = Innermost.file /\ m.memory = Innermost.memory
                /\ m.pc = Innermost.pc + 1 /\ m.jumped = Innermost.jumped
         /\ machines'[Len(machines) + 1] = Machine(Opened)
  <1> DEFINE k == Len(machines)
             n == [Innermost EXCEPT !.pc = @ + 1]
             s == Becomes(n)
  <1>1. /\ files' = files /\ modules' = modules /\ status' = status /\ Len(machines) < StackDepth
        /\ Innermost.memory[Innermost.pc].type = "string" /\ Opened \in Known
        /\ machines' = Append(s, Machine(Opened))
    BY DEF Import, Cell, Opened, Known
  <1>2. Innermost.pc \in 1..Len(Code) /\ Statement.op = "import" /\ Statement = Code[Innermost.pc]
    BY InnermostIs DEF Import, Executes, AtEnd, Statement
  <1>3. Innermost.pc \in Imports(Code)
    BY <1>2, InnermostIs
  <1>4. Opened = Code[Innermost.pc].name
    BY <1>3, InnermostIs DEF Opened, Cell, Sound
  <1>5. n \in Machines
    <2>1. Innermost.pc + 1 \in Nat \ {0}
      BY <1>2, InnermostIs
    <2> QED BY <2>1, InnermostIs DEF Machines
  <1>6. n.file = Innermost.file /\ n.memory = Innermost.memory /\ n.pc = Innermost.pc + 1 /\ n.jumped = Innermost.jumped
    BY InnermostIs DEF Machines
  <1>7. machines \in Seq(Machines) /\ k \in 1..Len(machines) /\ s = [machines EXCEPT ![k] = n]
    BY InnermostIs DEF Becomes, Chained
  <1> HIDE DEF n, s
  <1>8. s \in Seq(Machines) /\ Len(s) = k /\ s[k] = n /\ \A i \in 1..k - 1 : s[i] = machines[i]
    <2>1. /\ s \in Seq(Machines) /\ Len(s) = Len(machines)
          /\ \A j \in 1..Len(machines) : s[j] = IF j = k THEN n ELSE machines[j]
      BY <1>5, <1>7, ExceptSeq
    <2>2. k \in Nat
      BY InnermostIs
    <2>3. \A j \in 1..k - 1 : j \in 1..k /\ j # k
      <3> HIDE DEF k
      <3> QED BY <2>2
    <2> QED BY <1>7, <2>1, <2>3
  <1>9. Machine(Opened) \in Machines
    BY <1>1, MachineIs DEF Chained
  <1>10. /\ machines' \in Seq(Machines) /\ Len(machines') = k + 1 /\ machines'[k + 1] = Machine(Opened)
         /\ \A i \in 1..k : machines'[i] = s[i]
    BY <1>1, <1>8, <1>9, AppendProperties
  <1> QED BY <1>1, <1>3, <1>4, <1>5, <1>6, <1>8, <1>10, InnermostIs

(* A module is done and stored where its name was.                           *)
LEMMA Returns ==
  ASSUME Chained, Imported
  PROVE  /\ files' = files /\ status' = status
         /\ Len(machines) > 1 /\ Innermost.pc = Len(Code) + 1
         /\ Importer = machines[Len(machines) - 1] /\ Importer \in Machines /\ Calls(Importer, Innermost)
         /\ modules' \in Seq(Machines) /\ Len(modules') = Len(modules) + 1
         /\ modules'[Len(modules) + 1] = Innermost /\ \A i \in 1..Len(modules) : modules'[i] = modules[i]
         /\ machines' \in Seq(Machines) /\ Len(machines') = Len(machines) - 1
         /\ \A i \in 1..Len(machines) - 2 : machines'[i] = machines[i]
         /\ LET m == machines'[Len(machines) - 1]
            IN  /\ m \in Machines /\ m.file = Importer.file /\ m.pc = Importer.pc /\ m.jumped = Importer.jumped
                /\ m.memory = [Importer.memory EXCEPT ![Importer.pc - 1] = Module(Innermost.file, Len(modules) + 1)]
  <1> DEFINE k == Len(machines)
             c == Importer.pc - 1
             value == Module(Innermost.file, Len(modules) + 1)
             n == [Importer EXCEPT !.memory = [@ EXCEPT ![Importer.pc - 1] = Module(Innermost.file, Len(modules) + 1)],
                                   !.symbols = @ \cup {[name |-> Innermost.file, address |-> 0]}]
             s == SubSeq(machines, 1, k - 1)
  <1>1. /\ files' = files /\ status' = status /\ k > 1 /\ Innermost.pc > Len(Code)
        /\ modules' = Append(modules, Innermost) /\ machines' = [s EXCEPT ![k - 1] = n]
    BY DEF Imported, AtEnd
  <1>2. k \in Nat /\ k - 1 \in 1..k /\ Innermost.pc = Len(Code) + 1
    BY <1>1, InnermostIs
  <1>3. Importer = machines[k - 1] /\ Importer \in Machines /\ Sound(Importer, modules)
    BY <1>2 DEF Importer, Chained
  <1>4. Calls(Importer, Innermost)
    <2>1. k - 1 \in 1..k - 1 /\ machines[k - 1 + 1] = Innermost
      BY <1>2, InnermostIs
    <2> QED BY <1>3, <2>1 DEF Chained
  <1>5. modules \in Seq(Machines) /\ Len(modules) \in Nat
    BY LenProperties DEF Chained
  <1>6. /\ modules' \in Seq(Machines) /\ Len(modules') = Len(modules) + 1
        /\ modules'[Len(modules) + 1] = Innermost /\ \A i \in 1..Len(modules) : modules'[i] = modules[i]
    BY <1>1, <1>5, InnermostIs, AppendProperties
  <1>7. /\ s \in Seq(Machines) /\ Len(s) = k - 1 /\ \A i \in 1..k - 1 : s[i] = machines[i]
    <2>1. \A i \in 1..k - 1 : machines[i] \in Machines
      BY <1>2 DEF Chained
    <2>2. /\ s \in Seq(Machines) /\ Len(s) = IF 1 <= k - 1 THEN k - 1 - 1 + 1 ELSE 0
          /\ \A i \in 1..k - 1 - 1 + 1 : s[i] = machines[1 + i - 1]
      BY <1>2, <2>1, SubSeqProperties
    <2>3. k - 1 - 1 + 1 = k - 1 /\ 1 <= k - 1 /\ \A i \in 1..k - 1 : 1 + i - 1 = i
      BY <1>2
    <2> HIDE DEF s, k
    <2> QED BY <2>2, <2>3
  <1>8. Innermost.file \in STRING /\ Importer.file \in DOMAIN files
    BY <1>3, InnermostIs, MainIsKnown DEF Chained, Machines, Known
  <1>9. Importer.memory \in [Imports(files[Importer.file]) -> Contents] /\ value \in Contents
    BY <1>3, <1>5, <1>8 DEF Sound, Module, Contents
  <1>10. /\ n.file = Importer.file /\ n.pc = Importer.pc /\ n.jumped = Importer.jumped
         /\ n.memory = [Importer.memory EXCEPT ![c] = value]
    BY <1>3 DEF Machines
  <1>11. n \in Machines
    <2>1. [Importer.memory EXCEPT ![c] = value] \in [Imports(files[Importer.file]) -> Contents]
      BY <1>9
    <2>2. Importer.symbols \cup {[name |-> Innermost.file, address |-> 0]} \in SUBSET [name : STRING, address : {0}]
      BY <1>3, <1>8 DEF Machines
    <2>3. n = [file |-> Importer.file, pc |-> Importer.pc, memory |-> [Importer.memory EXCEPT ![c] = value],
               jumped |-> Importer.jumped, symbols |-> Importer.symbols \cup {[name |-> Innermost.file, address |-> 0]}]
      <3>1. Importer = [file |-> Importer.file, pc |-> Importer.pc, memory |-> Importer.memory,
                        jumped |-> Importer.jumped, symbols |-> Importer.symbols]
        BY <1>3 DEF Machines
      <3> DEFINE memory  == [Importer.memory EXCEPT ![c] = value]
                 symbols == Importer.symbols \cup {[name |-> Innermost.file, address |-> 0]}
      <3>2. n = [Importer EXCEPT !.memory = memory, !.symbols = symbols]
        OBVIOUS
      <3> HIDE DEF memory, symbols, n
      <3>3. n = [file |-> Importer.file, pc |-> Importer.pc, memory |-> memory,
                 jumped |-> Importer.jumped, symbols |-> symbols]
        BY <3>1, <3>2
      <3> QED BY <3>3 DEF memory, symbols
    <2>4. Importer.file \in Known /\ Importer.pc \in Nat \ {0} /\ Importer.jumped \in SUBSET Nat
      BY <1>3 DEF Machines
    <2>5. [Importer.memory EXCEPT ![c] = value] \in UNION {[Imports(files[name]) -> Contents] : name \in DOMAIN files}
      BY <1>8, <2>1
    <2> HIDE DEF n, value, c
    <2> QED BY <2>2, <2>3, <2>4, <2>5 DEF Machines
  <1> HIDE DEF n, s, value
  <1>12. /\ machines' \in Seq(Machines) /\ Len(machines') = k - 1 /\ machines'[k - 1] = n
         /\ \A i \in 1..k - 2 : machines'[i] = machines[i]
    <2>1. k - 1 \in 1..Len(s)
      BY <1>1, <1>2, <1>7
    <2>2. /\ machines' \in Seq(Machines) /\ Len(machines') = Len(s)
          /\ \A i \in 1..Len(s) : machines'[i] = IF i = k - 1 THEN n ELSE s[i]
      BY <1>1, <1>7, <1>11, <2>1, ExceptSeq
    <2>3. ASSUME NEW i \in 1..k - 2 PROVE i \in 1..k - 1 /\ i # k - 1
      BY <1>2
    <2> QED BY <1>7, <2>1, <2>2, <2>3
  <1> QED BY <1>1, <1>2, <1>3, <1>4, <1>6, <1>10, <1>11, <1>12 DEF value
-------------------------------------------------------------------------------
(* The files stay, so a chain is known by its parts.                         *)
LEMMA ChainKept ==
  ASSUME Chained, files' = files,
         status' \in {"running", "halted", "aborted", "rejected", "undefined", "overflowed"},
         machines' \in Seq(Machines), Len(machines') \in 1..StackDepth, machines'[1].file = Main,
         modules' \in Seq(Machines),
         \A i \in 1..Len(machines') : Sound(machines'[i], modules'),
         \A i \in 1..Len(modules') : Sound(modules'[i], modules'),
         \A i \in 1..Len(machines') - 1 : Calls(machines'[i], machines'[i + 1])
  PROVE  Chained'
  <1>1. Machines' = Machines
    BY DEF Machines, Known
  <1>2. (\A i \in 1..Len(machines) : Sound(machines[i], modules))'
    BY DEF Sound
  <1>3. (\A i \in 1..Len(modules) : Sound(modules[i], modules))'
    BY DEF Sound
  <1>4. (\A i \in 1..Len(machines) - 1 : Calls(machines[i], machines[i + 1]))'
    BY DEF Calls
  <1> QED BY <1>1, <1>2, <1>3, <1>4 DEF Chained

LEMMA ChainMoves == Chained /\ (Work \/ Jump) => Chained'
  <1> SUFFICES ASSUME Chained, Work \/ Jump PROVE Chained'
    OBVIOUS
  <1> DEFINE k == Len(machines)
             m == machines'[k]
  <1>1. k \in Nat \ {0} /\ k \in 1..StackDepth
    BY InnermostIs DEF Chained
  <1>2. Moved(m) /\ machines' \in Seq(Machines) /\ Len(machines') = k /\ \A i \in 1..k - 1 : machines'[i] = machines[i]
    BY Moves
  <1>3. files' = files /\ modules' = modules /\ status' = status
    BY Moves
  <1>4. Sound(m, modules)
    <2>1. Innermost.pc \in 1..Len(Code) /\ Len(Code) \in Nat /\ Code = files[Innermost.file]
      BY Moves, InnermostIs
    <2>2. m.pc <= Len(Code) + 1
      BY <1>2, <2>1, Moves DEF Moved
    <2> QED BY <1>2, <2>1, <2>2, InnermostIs DEF Moved, Sound
  <1>5. m.file = machines[k].file
    BY <1>2, InnermostIs DEF Moved
  <1> HIDE DEF m, k
  <1>6. \A i \in 1..k : machines'[i] = IF i = k THEN m ELSE machines[i]
    BY <1>1, <1>2 DEF m
  <1>7. \A i \in 1..k : Sound(machines'[i], modules') /\ machines'[i].file = machines[i].file
    BY <1>3, <1>4, <1>5, <1>6 DEF Chained, k
  <1>8. ASSUME NEW i \in 1..k - 1 PROVE Calls(machines'[i], machines'[i + 1])
    <2>1. i \in 1..k /\ i # k /\ i + 1 \in 1..k
      BY <1>1
    <2>2. machines'[i] = machines[i] /\ machines'[i + 1].file = machines[i + 1].file
      BY <1>6, <1>7, <2>1
    <2>3. Calls(machines[i], machines[i + 1])
      BY DEF Chained, k
    <2> QED BY <2>2, <2>3 DEF Calls
  <1>9. \A i \in 1..Len(modules) : Sound(modules[i], modules)
    BY DEF Chained
  <1>10. 1 \in 1..k /\ machines'[1].file = Main
    BY <1>1, <1>7 DEF Chained
  <1> QED BY <1>1, <1>2, <1>3, <1>7, <1>8, <1>9, <1>10, ChainKept DEF Chained

LEMMA ChainOpens == Chained /\ Import => Chained'
  <1> SUFFICES ASSUME Chained, Import PROVE Chained'
    OBVIOUS
  <1> DEFINE k == Len(machines)
             m == machines'[k]
             callee == machines'[k + 1]
  <1>1. k \in Nat \ {0} /\ k < StackDepth /\ StackDepth \in Nat
    BY InnermostIs, Opens, MainIsKnown DEF Chained
  <1>2. /\ files' = files /\ modules' = modules /\ status' = status
        /\ Innermost.pc \in Imports(Code) /\ Innermost.memory[Innermost.pc].type = "string"
        /\ Opened = Code[Innermost.pc].name /\ Opened \in Known
    BY Opens
  <1>3. /\ machines' \in Seq(Machines) /\ Len(machines') = k + 1 /\ \A i \in 1..k - 1 : machines'[i] = machines[i]
        /\ m.file = Innermost.file /\ m.memory = Innermost.memory /\ m.pc = Innermost.pc + 1
        /\ callee = Machine(Opened)
    BY Opens
  <1>4. Sound(callee, modules) /\ callee.file = Opened
    BY <1>2, <1>3, MachineIs DEF Chained
  <1>5. /\ Innermost.pc \in 1..Len(Code) /\ Len(Code) \in Nat /\ Code = files[Innermost.file]
        /\ Sound(Innermost, modules) /\ Innermost = machines[k]
    BY <1>2, InnermostIs
  <1>6. Sound(m, modules)
    <2>1. m.pc <= Len(Code) + 1
      BY <1>3, <1>5
    <2>2. m.memory = Innermost.memory /\ m.file = Innermost.file
      BY <1>3
    <2>3. m.pc <= Len(files[m.file]) + 1
      BY <1>5, <2>1, <2>2
    <2> HIDE DEF m
    <2> QED BY <1>5, <2>2, <2>3, ZenonT(60) DEF Sound
  <1>7. Calls(m, callee)
    <2>1. m.pc - 1 = Innermost.pc
      BY <1>3, <1>5
    <2> QED BY <1>2, <1>3, <1>4, <1>5, <2>1 DEF Calls
  <1> HIDE DEF m, k, callee
  <1>8. \A i \in 1..k + 1 : machines'[i] = IF i = k THEN m ELSE IF i = k + 1 THEN callee ELSE machines[i]
    BY <1>1, <1>3 DEF m, callee
  <1>9. ASSUME NEW i \in 1..k + 1 PROVE Sound(machines'[i], modules')
    <2>1. i = k \/ i = k + 1 \/ i \in 1..k
      BY <1>1
    <2> QED BY <1>2, <1>4, <1>6, <1>8, <2>1 DEF Chained, k
  <1>10. \A i \in 1..k : machines'[i].file = machines[i].file
    <2>1. ASSUME NEW i \in 1..k PROVE machines'[i].file = machines[i].file
      <3>1. i \in 1..k + 1 /\ i # k + 1
        BY <1>1
      <3> QED BY <1>3, <1>5, <1>8, <3>1
    <2> QED BY <2>1
  <1>11. ASSUME NEW i \in 1..k PROVE Calls(machines'[i], machines'[i + 1])
    <2>1. CASE i = k
      <3>1. k \in 1..k + 1 /\ k + 1 \in 1..k + 1 /\ k + 1 # k
        BY <1>1
      <3>2. machines'[k] = m /\ machines'[k + 1] = callee
        BY <1>8, <3>1
      <3> QED BY <1>7, <2>1, <3>2
    <2>2. CASE i # k
      <3>1. i \in 1..k - 1 /\ i \in 1..k + 1 /\ i # k + 1 /\ i + 1 \in 1..k
        BY <1>1, <2>2
      <3>2. machines'[i] = machines[i] /\ machines'[i + 1].file = machines[i + 1].file
        BY <1>8, <1>10, <2>2, <3>1
      <3>3. Calls(machines[i], machines[i + 1])
        BY <3>1 DEF Chained, k
      <3> QED BY <3>2, <3>3 DEF Calls
    <2> QED BY <2>1, <2>2
  <1>12. \A i \in 1..Len(modules) : Sound(modules[i], modules)
    BY DEF Chained
  <1>13. 1 \in 1..k /\ machines'[1].file = Main
    BY <1>1, <1>10 DEF Chained
  <1>14. k + 1 \in 1..StackDepth
    BY <1>1
  <1>15. \A i \in 1..Len(machines') : Sound(machines'[i], modules')
    BY <1>3, <1>9
  <1>16. \A i \in 1..Len(machines') - 1 : Calls(machines'[i], machines'[i + 1])
    <2>1. Len(machines') - 1 = k
      BY <1>1, <1>3
    <2> QED BY <1>11, <2>1
  <1>17. machines' \in Seq(Machines) /\ Len(machines') \in 1..StackDepth
    BY <1>3, <1>14
  <1> QED BY <1>2, <1>12, <1>13, <1>15, <1>16, <1>17, ChainKept DEF Chained

(* What is sound stays so when another module is done.                       *)
LEMMA SoundLater ==
  ASSUME NEW m, NEW done, NEW later, Sound(m, done), DOMAIN done \subseteq DOMAIN later,
         \A i \in DOMAIN done : later[i] = done[i]
  PROVE  Sound(m, later)
  BY DEF Sound

LEMMA ChainReturns == Chained /\ Imported => Chained'
  <1> SUFFICES ASSUME Chained, Imported PROVE Chained'
    OBVIOUS
  <1> DEFINE k == Len(machines)
             m == machines'[k - 1]
             n == Len(modules) + 1
             c == Importer.pc - 1
  <1>1. k \in Nat /\ k > 1 /\ k \in 1..StackDepth
    BY Returns, InnermostIs DEF Chained
  <1>2. /\ files' = files /\ status' = status /\ Innermost.pc = Len(Code) + 1
        /\ Importer = machines[k - 1] /\ Importer \in Machines /\ Calls(Importer, Innermost)
    BY Returns
  <1>3. /\ modules' \in Seq(Machines) /\ Len(modules') = n
        /\ modules'[n] = Innermost /\ \A i \in 1..Len(modules) : modules'[i] = modules[i]
    BY Returns
  <1>4. /\ machines' \in Seq(Machines) /\ Len(machines') = k - 1 /\ \A i \in 1..k - 2 : machines'[i] = machines[i]
        /\ m.file = Importer.file /\ m.pc = Importer.pc
        /\ m.memory = [Importer.memory EXCEPT ![c] = Module(Innermost.file, n)]
    BY Returns
  <1>5. Len(modules) \in Nat /\ DOMAIN modules = 1..Len(modules) /\ DOMAIN modules' = 1..n
    BY <1>3, LenProperties DEF Chained
  <1>6. DOMAIN modules \subseteq DOMAIN modules' /\ \A i \in DOMAIN modules : modules'[i] = modules[i]
    BY <1>3, <1>5
  <1>7. Sound(Importer, modules)
    BY <1>1, <1>2 DEF Chained
  <1>8. Sound(Importer, modules') /\ Sound(Innermost, modules')
    BY <1>6, <1>7, SoundLater, InnermostIs
  <1>9. Sound(m, modules')
    <2> DEFINE code == files[Importer.file]
               value == Module(Innermost.file, n)
    <2>1. c \in Imports(code) /\ code[c].name = Innermost.file
      BY <1>2 DEF Calls
    <2>2. value.type = "module" /\ value.name = Innermost.file /\ value.vm = n /\ value \in Contents
      <3>1. Innermost.file \in STRING /\ n \in Nat
        BY <1>5, InnermostIs, MainIsKnown DEF Chained
      <3> QED BY <3>1 DEF Module, Contents
    <2>3. n \in DOMAIN modules' /\ modules'[n].file = Innermost.file /\ modules'[n].pc = Len(files[Innermost.file]) + 1
      BY <1>2, <1>3, <1>5, InnermostIs
    <2>4. Importer.memory \in [Imports(code) -> Contents]
      BY <1>8 DEF Sound
    <2> HIDE DEF value, c
    <2>5. m.memory = [Importer.memory EXCEPT ![c] = value]
      BY <1>4 DEF value, c
    <2>6. m.memory \in [Imports(code) -> Contents] /\ m.memory[c] = value
          /\ \A d \in Imports(code) : d # c => m.memory[d] = Importer.memory[d]
      BY <2>1, <2>2, <2>4, <2>5
    <2> HIDE DEF m, n, code
    <2>7. m.file = Importer.file /\ m.pc = Importer.pc
      BY <1>4 DEF m
    <2> DEFINE Good(d) == LET w == m.memory[d]
                          IN  /\ w.name = code[d].name
                              /\ w.type = "module" => /\ w.vm \in DOMAIN modules' /\ modules'[w.vm].file = w.name
                                                      /\ modules'[w.vm].pc = Len(files[w.name]) + 1
    <2>8. Good(c)
      BY <2>1, <2>2, <2>3, <2>6
    <2>9. ASSUME NEW d \in Imports(code), d # c PROVE Good(d)
      BY <1>8, <2>6, <2>9 DEF Sound, code
    <2>10. \A d \in Imports(code) : Good(d)
      BY <2>8, <2>9
    <2>11. m.pc <= Len(code) + 1
      BY <1>8, <2>7 DEF Sound, code
    <2> QED BY <2>6, <2>7, <2>10, <2>11 DEF Sound, code
  <1> HIDE DEF m, k, n, c
  <1>10. \A i \in 1..k - 1 : machines'[i] = IF i = k - 1 THEN m ELSE machines[i]
    BY <1>1, <1>4 DEF m
  <1>11. ASSUME NEW i \in 1..k - 1 PROVE Sound(machines'[i], modules') /\ machines'[i].file = machines[i].file
    <2>1. i \in 1..k
      BY <1>1
    <2>2. Sound(machines[i], modules')
      BY <1>6, <2>1, SoundLater DEF Chained, k
    <2> QED BY <1>2, <1>4, <1>9, <1>10, <2>2
  <1>12. ASSUME NEW i \in 1..k - 2 PROVE Calls(machines'[i], machines'[i + 1])
    <2>1. i \in 1..k - 1 /\ i # k - 1 /\ i + 1 \in 1..k - 1
      BY <1>1
    <2>2. machines'[i] = machines[i] /\ machines'[i + 1].file = machines[i + 1].file
      BY <1>10, <1>11, <2>1
    <2>3. Calls(machines[i], machines[i + 1])
      BY <2>1 DEF Chained, k
    <2> QED BY <2>2, <2>3 DEF Calls
  <1>13. ASSUME NEW i \in 1..n PROVE Sound(modules'[i], modules')
    <2>1. CASE i = n
      BY <1>3, <1>8, <2>1
    <2>2. CASE i # n
      <3>1. i \in 1..Len(modules)
        BY <1>5, <2>2 DEF n
      <3>2. Sound(modules[i], modules)
        BY <3>1 DEF Chained
      <3> QED BY <1>3, <1>6, <3>1, <3>2, SoundLater
    <2> QED BY <2>1, <2>2
  <1>14. 1 \in 1..k - 1 /\ machines'[1].file = Main
    BY <1>1, <1>11 DEF Chained
  <1>15. \A i \in 1..Len(machines') : Sound(machines'[i], modules')
    BY <1>4, <1>11
  <1>16. \A i \in 1..Len(machines') - 1 : Calls(machines'[i], machines'[i + 1])
    <2>1. Len(machines') - 1 = k - 2
      BY <1>1, <1>4
    <2> QED BY <1>12, <2>1
  <1>17. machines' \in Seq(Machines) /\ Len(machines') \in 1..StackDepth
    <2>1. StackDepth \in Nat
      BY MainIsKnown DEF Chained
    <2> QED BY <1>1, <1>4, <2>1
  <1>18. \A i \in 1..Len(modules') : Sound(modules'[i], modules')
    BY <1>3, <1>13
  <1> QED BY <1>2, <1>3, <1>14, <1>15, <1>16, <1>17, <1>18, ChainKept DEF Chained

LEMMA ChainStep == Chained /\ [Next]_vars => Chained'
  <1>1. ASSUME Chained, Halt \/ Fail \/ UNCHANGED vars PROVE Chained'
    <2>1. files' = files /\ machines' = machines /\ modules' = modules
      BY <1>1 DEF Halt, Fail, vars
    <2>2. status' \in {"running", "halted", "aborted", "rejected", "undefined", "overflowed"}
      BY <1>1 DEF Halt, Fail, vars, ImportEnds, Chained
    <2> QED BY <1>1, <2>1, <2>2, ChainKept DEF Chained
  <1> QED BY <1>1, ChainMoves, ChainOpens, ChainReturns DEF Next

(* Every machine waits behind an import of the file the next one executes,   *)
(* and what is in a memory as a module has been executed (vm.c:558).         *)
THEOREM ChainInvariant == Spec => []Chained
  BY ChainStarts, ChainStep, PTL DEF Spec
-------------------------------------------------------------------------------
(* The shape of the machines: never more of them than calls fit on the C     *)
(* stack, each with its counter in its own code.                             *)
THEOREM ModulesTyped == Spec => []TypeOK
  <1>1. Chained => TypeOK
    <2> SUFFICES ASSUME Chained PROVE TypeOK
      OBVIOUS
    <2>1. ASSUME NEW i \in DOMAIN machines
          PROVE  /\ machines[i].pc \in 1..Len(files[machines[i].file]) + 1
                 /\ DOMAIN machines[i].memory = Imports(files[machines[i].file])
      <3>1. i \in 1..Len(machines)
        BY InnermostIs
      <3>2. machines[i] \in Machines /\ Sound(machines[i], modules)
        BY <3>1 DEF Chained
      <3>3. machines[i].file \in DOMAIN files /\ machines[i].pc \in Nat \ {0}
        BY <3>2 DEF Machines, Known
      <3>4. Len(files[machines[i].file]) \in Nat
        BY <3>3, FilesAre DEF Chained
      <3> QED BY <3>2, <3>3, <3>4 DEF Sound
    <2> QED BY <2>1 DEF TypeOK, Chained
  <1> QED BY <1>1, ChainInvariant, PTL

(* No machine sees a module before it is done: a cell holds a module only    *)
(* once a machine of its own has executed the file to its end (vm.c:590).    *)
THEOREM ModulesDone == Spec => []ModulesAreDone
  <1>1. Chained => ModulesAreDone
    <2> SUFFICES ASSUME Chained, NEW m \in Names(machines) \cup Names(modules), NEW i \in DOMAIN m.memory
                 PROVE  LET value == m.memory[i]
                        IN  /\ value.name = files[m.file][i].name
                            /\ value.type = "module" =>
                                 /\ value.vm \in DOMAIN modules
                                 /\ modules[value.vm].file = value.name
                                 /\ modules[value.vm].pc = Len(files[value.name]) + 1
      BY DEF ModulesAreDone
    <2>1. Sound(m, modules)
      <3>1. DOMAIN machines = 1..Len(machines) /\ DOMAIN modules = 1..Len(modules)
        BY LenProperties DEF Chained
      <3> QED BY <3>1 DEF Names, Chained
    <2>2. i \in Imports(files[m.file])
      BY <2>1 DEF Sound
    <2> QED BY <2>1, <2>2 DEF Sound
  <1> QED BY <1>1, ChainInvariant, PTL

(* While a module executes its importers wait: no other machine's memory     *)
(* changes, and what a module has become stays (vm.c:583).                   *)
THEOREM ImportersWait == Spec => OnlyInnermostChanges
  <1> DEFINE Step == /\ \A i \in DOMAIN machines \cap DOMAIN machines' :
                          machines'[i].memory # machines[i].memory => i = Len(machines') /\ modules' # modules
                     /\ SubSeq(modules', 1, Len(modules)) = modules
  <1>1. ASSUME Chained, Work \/ Jump \/ Import, NEW i \in DOMAIN machines \cap DOMAIN machines'
        PROVE  machines'[i].memory = machines[i].memory /\ modules' = modules
    <2>1. i \in 1..Len(machines)
      BY <1>1, InnermostIs
    <2>2. CASE i = Len(machines)
      BY <1>1, <2>2, Moves, Opens, InnermostIs DEF Moved
    <2>3. CASE i # Len(machines)
      <3>1. i \in 1..Len(machines) - 1
        BY <1>1, <2>1, <2>3, InnermostIs
      <3> QED BY <1>1, <3>1, Moves, Opens
    <2> QED BY <2>2, <2>3
  <1>2. ASSUME Chained PROVE SubSeq(modules, 1, Len(modules)) = modules
    BY <1>2, SubSeqFull DEF Chained
  <1>3. ASSUME Chained, Imported PROVE Step
    <2>1. /\ modules \in Seq(Machines) /\ Len(modules) \in Nat
          /\ modules' \in Seq(Machines) /\ Len(modules') = Len(modules) + 1
          /\ \A i \in 1..Len(modules) : modules'[i] = modules[i]
      BY <1>3, Returns, LenProperties DEF Chained
    <2>2. /\ SubSeq(modules', 1, Len(modules)) \in Seq(Machines)
          /\ Len(SubSeq(modules', 1, Len(modules))) = Len(modules)
          /\ \A i \in 1..Len(modules) : SubSeq(modules', 1, Len(modules))[i] = modules'[i]
      BY <2>1
    <2>3. SubSeq(modules', 1, Len(modules)) = modules
      BY <2>1, <2>2, SeqEqual
    <2>4. modules' # modules
      BY <2>1
    <2>5. ASSUME NEW i \in DOMAIN machines \cap DOMAIN machines', i # Len(machines')
          PROVE  machines'[i] = machines[i]
      <3>1. Len(machines') = Len(machines) - 1 /\ DOMAIN machines' = 1..Len(machines') /\ Len(machines) \in Nat
        BY <1>3, Returns, InnermostIs, LenProperties
      <3>2. i \in 1..Len(machines) - 2
        BY <2>5, <3>1
      <3> QED BY <1>3, <3>2, Returns
    <2> QED BY <2>3, <2>4, <2>5
  <1>4. ASSUME Chained, Halt \/ Fail PROVE Step
    BY <1>2, <1>4 DEF Halt, Fail
  <1>5. Chained /\ [Next]_vars => [Step]_vars
    <2>1. ASSUME Chained, Work \/ Jump \/ Import PROVE Step
      <3>1. modules' = modules
        BY <2>1, Moves, Opens
      <3> QED BY <1>1, <1>2, <2>1, <3>1
    <2> HIDE DEF Step
    <2> QED BY <1>3, <1>4, <2>1 DEF Next
  <1> QED BY <1>5, ChainInvariant, PTL DEF Spec, OnlyInnermostChanges
-------------------------------------------------------------------------------
(* The orders of modules, as their recursions read.                          *)
Texts     == Seq(DOMAIN files \cup {"never"})
OrderMaps == [DOMAIN files -> Texts]

LEMMA ExecutedIs ==
  ASSUME NEW statement, NEW orders \in OrderMaps
  PROVE  Executed(statement, orders) \in Texts
  <1>1. << "never" >> \in Texts /\ <<>> \in Texts
    BY DEF Texts
  <1> QED BY <1>1 DEF Executed, OrderMaps

LEMMA BeforeIs ==
  ASSUME files \in FileSets, NEW name \in DOMAIN files, NEW orders \in OrderMaps
  PROVE  LET code   == files[name]
             before == Before(code, orders)
         IN  /\ before \in [0..Len(code) -> Texts] /\ before[0] = <<>>
             /\ \A i \in 1..Len(code) : before[i] = before[i - 1] \o Executed(code[i], orders)
  <1> DEFINE code == files[name]
             n == Len(code)
             step == [i \in 1..n |-> [x \in Texts |-> x \o Executed(code[i], orders)]]
             Recursion(f) == f = [i \in 0..n |-> IF i = 0 THEN <<>> ELSE f[i - 1] \o Executed(code[i], orders)]
             before == CHOOSE g : Recursion(g)
  <1>1. n \in Nat /\ <<>> \in Texts
    BY FilesAre DEF Texts
  <1>2. \A i \in 1..n : Executed(code[i], orders) \in Texts
    BY ExecutedIs
  <1>3. step \in Steps(Texts, n)
    <2>1. \A i \in 1..n : \A x \in Texts : x \o Executed(code[i], orders) \in Texts
      BY <1>2, ConcatProperties DEF Texts
    <2> QED BY <2>1 DEF Steps
  <1>4. \A i \in 1..n : \A x \in Texts : step[i][x] = x \o Executed(code[i], orders)
    OBVIOUS
  <1> HIDE DEF step, n, code
  <1>5. PICK f : IsIteration(f, Texts, n, <<>>, step)
    BY <1>1, <1>3, SomeIterates
  <1>6. Recursion(f)
    <2>1. f \in [0..n -> Texts] /\ f[0] = <<>> /\ \A i \in 1..n : f[i] = step[i][f[i - 1]]
      BY <1>5 DEF IsIteration
    <2>2. \A i \in 1..n : i - 1 \in 0..n
      BY <1>1
    <2>3. \A i \in 1..n : f[i] = f[i - 1] \o Executed(code[i], orders)
      BY <1>4, <2>1, <2>2
    <2>4. ASSUME NEW i \in 0..n PROVE f[i] = IF i = 0 THEN <<>> ELSE f[i - 1] \o Executed(code[i], orders)
      <3>1. i = 0 \/ (i \in 1..n /\ i # 0)
        BY <1>1
      <3> QED BY <2>1, <2>3, <3>1
    <2> QED BY <2>1, <2>4
  <1>7. Recursion(before)
    BY <1>6
  <1>8. Before(code, orders) = before
    BY DEF Before, n
  <1> HIDE DEF before
  <1>9. /\ before = [i \in 0..n |-> before[i]] /\ before[0] = <<>>
        /\ \A i \in 1..n : before[i] = before[i - 1] \o Executed(code[i], orders)
    <2>1. /\ before = [i \in 0..n |-> before[i]]
          /\ \A i \in 0..n : before[i] = IF i = 0 THEN <<>> ELSE before[i - 1] \o Executed(code[i], orders)
      BY <1>7
    <2>2. 0 \in 0..n /\ \A i \in 1..n : i \in 0..n /\ i # 0
      BY <1>1
    <2> QED BY <2>1, <2>2
  <1>10. IsIteration(before, Texts, n, <<>>, step)
    <2>1. \A i \in 1..n : before[i - 1] \in Texts => before[i] = step[i][before[i - 1]]
      BY <1>4, <1>9
    <2> QED BY <1>1, <1>3, <1>9, <2>1, RecursionIterates
  <1> QED BY <1>8, <1>9, <1>10 DEF IsIteration, n, code

LEMMA OrdersAre ==
  ASSUME files \in FileSets
  PROVE  /\ \A room \in 0..StackDepth : Orders[room] \in OrderMaps
         /\ \A name \in DOMAIN files : Orders[0][name] = << "never" >>
         /\ \A room \in 1..StackDepth : \A name \in DOMAIN files :
              Orders[room][name] = Append(Before(files[name], Orders[room - 1])[Len(files[name])], name)
  <1> DEFINE n == StackDepth
             Next1(o) == [name \in DOMAIN files |-> Append(Before(files[name], o)[Len(files[name])], name)]
             start == [name \in DOMAIN files |-> << "never" >>]
             step == [i \in 1..n |-> [o \in OrderMaps |-> Next1(o)]]
             Recursion(f) == f = [room \in 0..n |-> IF room = 0 THEN start ELSE Next1(f[room - 1])]
             order == CHOOSE g : Recursion(g)
  <1>1. n \in Nat
    BY MainIsKnown
  <1>2. start \in OrderMaps
    <2>1. << "never" >> \in Texts
      BY DEF Texts
    <2> QED BY <2>1 DEF OrderMaps
  <1>3. ASSUME NEW o \in OrderMaps PROVE Next1(o) \in OrderMaps
    <2>1. ASSUME NEW name \in DOMAIN files PROVE Append(Before(files[name], o)[Len(files[name])], name) \in Texts
      <3>1. Len(files[name]) \in 0..Len(files[name])
        BY FilesAre
      <3>2. Before(files[name], o)[Len(files[name])] \in Texts
        BY <3>1, BeforeIs
      <3> QED BY <3>2, AppendProperties DEF Texts
    <2> QED BY <2>1 DEF OrderMaps
  <1>4. step \in Steps(OrderMaps, n)
    <2> HIDE DEF Next1
    <2> QED BY <1>3 DEF Steps
  <1>5. \A i \in 1..n : \A o \in OrderMaps : step[i][o] = Next1(o)
    OBVIOUS
  <1> HIDE DEF step, n, start
  <1>6. PICK f : IsIteration(f, OrderMaps, n, start, step)
    BY <1>1, <1>2, <1>4, SomeIterates
  <1>7. Recursion(f)
    <2>1. f \in [0..n -> OrderMaps] /\ f[0] = start /\ \A i \in 1..n : f[i] = step[i][f[i - 1]]
      BY <1>6 DEF IsIteration
    <2>2. \A i \in 1..n : i - 1 \in 0..n
      BY <1>1
    <2>3. \A i \in 1..n : f[i] = Next1(f[i - 1])
      <3> HIDE DEF Next1
      <3> QED BY <1>5, <2>1, <2>2
    <2>4. ASSUME NEW i \in 0..n PROVE f[i] = IF i = 0 THEN start ELSE Next1(f[i - 1])
      <3>1. CASE i = 0
        BY <2>1, <3>1
      <3>2. CASE i # 0
        <4>1. i \in 1..n
          BY <1>1, <3>2
        <4> HIDE DEF Next1
        <4> QED BY <2>3, <3>2, <4>1
      <3> QED BY <3>1, <3>2
    <2> HIDE DEF Next1
    <2> QED BY <2>1, <2>4
  <1>8. Recursion(order)
    BY <1>7
  <1>9. Orders = order
    BY DEF Orders, n, start
  <1> HIDE DEF order
  <1>10. /\ order = [room \in 0..n |-> order[room]] /\ order[0] = start
         /\ \A i \in 1..n : order[i] = Next1(order[i - 1])
    <2> HIDE DEF Next1
    <2>1. order = [room \in 0..n |-> order[room]] /\ \A i \in 0..n : order[i] = IF i = 0 THEN start ELSE Next1(order[i - 1])
      BY <1>8
    <2>2. 0 \in 0..n /\ \A i \in 1..n : i \in 0..n /\ i # 0
      BY <1>1
    <2> QED BY <2>1, <2>2
  <1>11. IsIteration(order, OrderMaps, n, start, step)
    <2>1. \A i \in 1..n : order[i - 1] \in OrderMaps => order[i] = step[i][order[i - 1]]
      <3> HIDE DEF Next1
      <3> QED BY <1>5, <1>10
    <2> QED BY <1>1, <1>2, <1>4, <1>10, <2>1, RecursionIterates
  <1>12. \A room \in 0..n : order[room] \in OrderMaps
    BY <1>11 DEF IsIteration
  <1> QED BY <1>9, <1>10, <1>12 DEF start, n
-------------------------------------------------------------------------------
(* The course of a machine through its code.  The imports behind it are done  *)
(* or were skipped, and so are those before one that is done; where it comes *)
(* before an import that is done, it has gone astray: a jump went back over  *)
(* it, and there the machine can abort.                                      *)
Astray(m) == \E c \in Imports(files[m.file]) : IsDone(m, c) /\ m.pc <= c
Course(m) == \A c \in Imports(files[m.file]) : IsDone(m, c) /\ m.pc <= c => Repeats(files[m.file], c)
Closed(m) == \A c, d \in Imports(files[m.file]) : d < c /\ IsDone(m, c) => IsDone(m, d) \/ Skips(files[m.file], d)

Active(m)    == InTurn(m, m.pc) /\ Closed(m)
Suspended(m) == InTurn(m, m.pc - 1) /\ Closed(m)
Finished(m, n) ==
  /\ InTurn(m, m.pc)
  /\ \A c \in DOMAIN m.memory : IsDone(m, c) => m.memory[c].vm < n

OnCourse ==
  /\ \A i \in 1..Len(machines) : Course(machines[i])
  /\ \A i \in 1..Len(machines) - 1 : Suspended(machines[i])
  /\ Active(machines[Len(machines)])
  /\ \A n \in 1..Len(modules) : Finished(modules[n], n)

LEMMA CourseStarts ==
  ASSUME files \in FileSets, NEW name \in Known
  PROVE  Course(Machine(name)) /\ Active(Machine(name)) /\ ~ Astray(Machine(name))
  <1> DEFINE m == Machine(name)
  <1>1. /\ m.file = name /\ m.pc = 1
        /\ \A c \in Imports(files[name]) : m.memory[c].type = "string"
    BY MachineIs
  <1>2. name \in DOMAIN files
    BY MainIsKnown
  <1>3. \A c \in Imports(files[name]) : c \in 1..Len(files[name])
    BY <1>2, ImportsAre
  <1> HIDE DEF m
  <1>4. \A c \in Imports(files[name]) : ~ IsDone(m, c)
    BY <1>1 DEF IsDone
  <1>5. InTurn(m, m.pc)
    BY <1>1, <1>2, <1>3, <1>4, FilesAre DEF InTurn
  <1> QED BY <1>1, <1>4, <1>5 DEF Astray, Course, Active, Closed, m

(* A machine at its end has no import before it.                             *)
LEMMA CourseEnds ==
  ASSUME files \in FileSets, NEW m, m.file \in DOMAIN files, m.pc = Len(files[m.file]) + 1
  PROVE  ~ Astray(m)
  <1>1. Imports(files[m.file]) \subseteq 1..Len(files[m.file]) /\ Len(files[m.file]) \in Nat
    BY ImportsAre, FilesAre
  <1> QED BY <1>1 DEF Astray

LEMMA CourseMoves ==
  ASSUME Chained, Work \/ Jump, NEW m, Moved(m), Course(Innermost), Active(Innermost)
  PROVE  Course(m) /\ Active(m)
  <1> DEFINE x == Innermost
             pc == x.pc
  <1>1. /\ pc \in 1..Len(Code) /\ pc \notin Imports(Code) /\ Len(Code) \in Nat
        /\ (Statement.op = "jump" => Statement.place \in 1..Len(Code) + 1)
        /\ Imports(Code) = {i \in 1..Len(Code) : Code[i].op = "import"} /\ DOMAIN Code = 1..Len(Code)
        /\ Code = files[x.file] /\ Statement = Code[pc]
    BY Moves, InnermostIs, FilesAre DEF Chained, Statement
  <1>2. m.file = x.file /\ m.memory = x.memory /\ \A c : IsDone(m, c) <=> IsDone(x, c)
    BY DEF Moved, IsDone
  <1>3. /\ m.pc = pc + 1 \/ (Statement.op = "jump" /\ m.pc = Statement.place)
        /\ m.pc \in Nat
    BY <1>1 DEF Moved
  <1> HIDE DEF x
  <1>4. InTurn(x, pc) /\ Closed(x) /\ Course(x)
    BY DEF x, Active
  <1>5. Closed(m)
    BY <1>2, <1>4 DEF Closed
  <1>6. ASSUME NEW c \in Imports(Code), c < m.pc PROVE IsDone(m, c) \/ Skips(Code, c)
    <2>1. CASE c < pc
      BY <1>1, <1>2, <1>4, <2>1 DEF InTurn
    <2>2. CASE ~ (c < pc)
      <3>1. pc < c /\ c \in Nat
        BY <1>1, <2>2
      <3>2. Statement.op = "jump" /\ c < Statement.place
        BY <1>1, <1>3, <1>6, <3>1
      <3> QED BY <1>1, <3>1, <3>2 DEF Skips
    <2> QED BY <2>1, <2>2
  <1>7. InTurn(m, m.pc)
    BY <1>1, <1>2, <1>4, <1>6 DEF InTurn
  <1>8. ASSUME NEW c \in Imports(Code), IsDone(m, c), m.pc <= c PROVE Repeats(Code, c)
    <2>1. CASE pc <= c
      BY <1>1, <1>2, <1>4, <1>8, <2>1 DEF Course
    <2>2. CASE ~ (pc <= c)
      <3>1. c < pc /\ c \in Nat
        BY <1>1, <2>2
      <3>2. Statement.op = "jump" /\ Statement.place <= c
        BY <1>1, <1>3, <1>8, <3>1
      <3> QED BY <1>1, <3>1, <3>2 DEF Repeats
    <2> QED BY <2>1, <2>2
  <1> QED BY <1>1, <1>2, <1>5, <1>7, <1>8 DEF Course, Active

(* Where no jump skips an import, none comes past an import that is done.    *)
LEMMA StaysAstray ==
  ASSUME Chained, Work \/ Jump, NEW m, Moved(m), Unconditional, Astray(Innermost)
  PROVE  Astray(m)
  <1> DEFINE x == Innermost
             pc == x.pc
  <1>1. /\ pc \in 1..Len(Code) /\ pc \notin Imports(Code) /\ Len(Code) \in Nat
        /\ (Statement.op = "jump" => Statement.place \in 1..Len(Code) + 1)
        /\ Imports(Code) = {i \in 1..Len(Code) : Code[i].op = "import"} /\ DOMAIN Code = 1..Len(Code)
        /\ Code = files[x.file] /\ Statement = Code[pc] /\ x.file \in DOMAIN files
    BY Moves, InnermostIs, FilesAre DEF Chained, Statement
  <1>2. m.file = x.file /\ \A c : IsDone(m, c) <=> IsDone(x, c)
    BY DEF Moved, IsDone
  <1>3. m.pc = pc + 1 \/ (Statement.op = "jump" /\ m.pc = Statement.place)
    BY DEF Moved
  <1>4. PICK c \in Imports(files[x.file]) : IsDone(x, c) /\ pc <= c
    BY DEF Astray
  <1> HIDE DEF x
  <1>5. c \in 1..Len(Code) /\ pc < c /\ ~ Skips(Code, c)
    BY <1>1, <1>4 DEF Unconditional
  <1>6. m.pc <= c
    <2>1. CASE m.pc = pc + 1
      BY <1>1, <1>5, <2>1
    <2>2. CASE Statement.op = "jump" /\ m.pc = Statement.place
      <3>1. ~ (c < Statement.place)
        BY <1>1, <1>5, <2>2 DEF Skips
      <3> QED BY <1>1, <1>5, <2>2, <3>1
    <2> QED BY <1>3, <2>1, <2>2
  <1> QED BY <1>2, <1>4, <1>6 DEF Astray

LEMMA CourseOpens ==
  ASSUME Chained, Import, NEW m, m.file = Innermost.file, m.memory = Innermost.memory, m.pc = Innermost.pc + 1,
         Course(Innermost), Active(Innermost)
  PROVE  Course(m) /\ Suspended(m) /\ (Unconditional => ~ Astray(Innermost))
  <1> DEFINE x == Innermost
             pc == x.pc
  <1>1. /\ pc \in Imports(Code) /\ x.memory[pc].type = "string" /\ Len(Code) \in Nat /\ x.file \in DOMAIN files
        /\ Imports(Code) = {i \in 1..Len(Code) : Code[i].op = "import"} /\ Code = files[x.file]
    BY Opens, InnermostIs
  <1>2. m.file = x.file /\ m.memory = x.memory /\ m.pc = pc + 1 /\ \A c : IsDone(m, c) <=> IsDone(x, c)
    BY DEF IsDone
  <1>3. InTurn(x, pc) /\ Closed(x) /\ Course(x) /\ ~ IsDone(x, pc)
    BY <1>1 DEF IsDone, Active
  <1> HIDE DEF x
  <1>4. m.pc - 1 = pc
    BY <1>1, <1>2
  <1>5. Suspended(m)
    BY <1>2, <1>3, <1>4 DEF Suspended, InTurn, Closed
  <1>6. Course(m)
    BY <1>1, <1>2, <1>3 DEF Course
  <1>7. ASSUME Unconditional, NEW c \in Imports(Code), IsDone(x, c), pc <= c PROVE FALSE
    <2>1. pc < c
      BY <1>1, <1>3, <1>7
    <2>2. ~ Skips(Code, pc)
      BY <1>1, <1>7 DEF Unconditional
    <2> QED BY <1>1, <1>3, <1>7, <2>1, <2>2 DEF Closed
  <1> QED BY <1>1, <1>5, <1>6, <1>7 DEF Astray, x

LEMMA CourseReturns ==
  ASSUME Chained, NEW x, x \in Machines, Course(x), Suspended(x), x.pc - 1 \in Imports(files[x.file]),
         Sound(x, modules), NEW v, v.type = "module", v.vm = Len(modules) + 1,
         NEW m, m.file = x.file, m.pc = x.pc, m.memory = [x.memory EXCEPT ![x.pc - 1] = v]
  PROVE  Course(m) /\ Active(m)
  <1> DEFINE code == files[x.file]
             call == x.pc - 1
  <1>1. x.file \in DOMAIN files /\ x.pc \in Nat /\ Len(modules) \in Nat
    BY LenProperties DEF Machines, Known, Chained
  <1>2. /\ Imports(code) = {i \in 1..Len(code) : code[i].op = "import"} /\ Len(code) \in Nat
        /\ DOMAIN x.memory = Imports(code) /\ call \in Imports(code) /\ call \in Nat /\ x.pc = call + 1
    <2>1. Imports(code) = {i \in 1..Len(code) : code[i].op = "import"} /\ Len(code) \in Nat
      BY <1>1, ImportsAre, FilesAre DEF Chained
    <2>2. DOMAIN x.memory = Imports(code)
      BY DEF Sound
    <2>3. call \in Nat
      BY <2>1
    <2> QED BY <1>1, <2>1, <2>2, <2>3
  <1>3. ASSUME NEW c \in Imports(code), IsDone(x, c) PROVE x.memory[c].vm < Len(modules) + 1
    <2>1. x.memory[c].vm \in DOMAIN modules
      BY <1>3 DEF Sound, IsDone
    <2> QED BY <1>1, <2>1, LenProperties DEF Chained
  <1> HIDE DEF code, call
  <1>4. InTurn(x, call) /\ Closed(x) /\ Course(x)
    BY DEF Suspended, call
  <1>5. /\ m.memory[call] = v /\ IsDone(m, call) /\ m.file = x.file /\ m.pc = call + 1
        /\ \A c \in Imports(code) : c # call => m.memory[c] = x.memory[c] /\ (IsDone(m, c) <=> IsDone(x, c))
    BY <1>2 DEF IsDone, call
  <1>6. ASSUME NEW c \in Imports(code), IsDone(m, c), m.pc <= c PROVE Repeats(code, c)
    BY <1>2, <1>4, <1>5, <1>6 DEF Course, code
  <1>7. ASSUME NEW c \in Imports(code), NEW d \in Imports(code), d < c, IsDone(m, c) PROVE IsDone(m, d) \/ Skips(code, d)
    <2>1. CASE c = call
      BY <1>4, <1>5, <1>7, <2>1 DEF InTurn, code
    <2>2. CASE c # call
      BY <1>4, <1>5, <1>7, <2>2 DEF Closed, code
    <2> QED BY <2>1, <2>2
  <1>8. ASSUME NEW c \in Imports(code), c < m.pc PROVE IsDone(m, c) \/ Skips(code, c)
    <2>1. c = call \/ c < call
      BY <1>2, <1>5, <1>8
    <2> QED BY <1>2, <1>4, <1>5, <2>1 DEF InTurn, code
  <1>9. ASSUME NEW i \in Imports(code), NEW j \in Imports(code), i < j, IsDone(m, i), IsDone(m, j)
        PROVE  m.memory[i].vm < m.memory[j].vm \/ Repeats(code, j)
    <2>1. CASE j = call
      BY <1>2, <1>3, <1>5, <1>9, <2>1
    <2>2. CASE i = call
      <3>1. m.pc <= j
        BY <1>2, <1>5, <1>9, <2>2
      <3> QED BY <1>6, <1>9, <3>1
    <2>3. CASE i # call /\ j # call
      <3>1. IsDone(x, i) /\ IsDone(x, j) /\ m.memory[i] = x.memory[i] /\ m.memory[j] = x.memory[j]
        BY <1>5, <1>9, <2>3
      <3> QED BY <1>4, <1>9, <3>1 DEF InTurn, code
    <2> QED BY <2>1, <2>2, <2>3
  <1>10. Course(m)
    BY <1>5, <1>6 DEF Course, code
  <1>11. Closed(m)
    BY <1>5, <1>7 DEF Closed, code
  <1>12. InTurn(m, m.pc)
    BY <1>5, <1>8, <1>9 DEF InTurn, code
  <1> QED BY <1>10, <1>11, <1>12 DEF Active

LEMMA CourseFinishes ==
  ASSUME Chained, Active(Innermost)
  PROVE  Finished(Innermost, Len(modules) + 1)
  <1>1. DOMAIN Innermost.memory = Imports(files[Innermost.file]) /\ Sound(Innermost, modules)
    BY InnermostIs
  <1>2. DOMAIN modules = 1..Len(modules) /\ Len(modules) \in Nat
    BY LenProperties DEF Chained
  <1>3. ASSUME NEW c \in DOMAIN Innermost.memory, IsDone(Innermost, c) PROVE Innermost.memory[c].vm < Len(modules) + 1
    <2>1. Innermost.memory[c].vm \in DOMAIN modules
      BY <1>1, <1>3 DEF Sound, IsDone
    <2> QED BY <1>2, <2>1
  <1> QED BY <1>3 DEF Finished, Active

LEMMA CourseKept ==
  ASSUME files' = files,
         \A i \in 1..Len(machines') : Course(machines'[i]),
         \A i \in 1..Len(machines') - 1 : Suspended(machines'[i]),
         Active(machines'[Len(machines')]),
         \A n \in 1..Len(modules') : Finished(modules'[n], n)
  PROVE  OnCourse'
  <1>1. (\A i \in 1..Len(machines) : Course(machines[i]))'
    BY DEF Course, Repeats, IsDone
  <1>2. (\A i \in 1..Len(machines) - 1 : Suspended(machines[i]))'
    BY DEF Suspended, InTurn, Closed, IsDone, Skips, Repeats
  <1>3. Active(machines[Len(machines)])'
    BY DEF Active, InTurn, Closed, IsDone, Skips, Repeats
  <1>4. (\A n \in 1..Len(modules) : Finished(modules[n], n))'
    BY DEF Finished, InTurn, IsDone, Skips, Repeats
  <1> QED BY <1>1, <1>2, <1>3, <1>4 DEF OnCourse

LEMMA OnCourseStarts == Init => OnCourse
  <1> SUFFICES ASSUME Init PROVE OnCourse
    OBVIOUS
  <1>1. files \in FileSets /\ machines = << Machine(Main) >> /\ modules = <<>> /\ Main \in Known
    BY MainIsKnown DEF Init
  <1>2. Course(Machine(Main)) /\ Active(Machine(Main))
    BY <1>1, CourseStarts
  <1>3. Len(machines) = 1 /\ machines[1] = Machine(Main) /\ Len(modules) = 0
    BY <1>1
  <1> QED BY <1>2, <1>3 DEF OnCourse

LEMMA OnCourseStep == Chained /\ OnCourse /\ [Next]_vars => OnCourse'
  <1> SUFFICES ASSUME Chained, OnCourse, [Next]_vars PROVE OnCourse'
    OBVIOUS
  <1> DEFINE k == Len(machines)
  <1>1. k \in Nat \ {0} /\ Innermost = machines[k] /\ Innermost.file \in DOMAIN files /\ Code = files[Innermost.file]
    BY InnermostIs
  <1>2. Course(Innermost) /\ Active(Innermost)
    BY <1>1 DEF OnCourse
  <1>3. CASE Work \/ Jump
    <2> DEFINE m == machines'[k]
    <2>1. /\ files' = files /\ modules' = modules /\ Len(machines') = k /\ Moved(m)
          /\ \A i \in 1..k - 1 : machines'[i] = machines[i]
      BY <1>3, Moves
    <2>2. Course(m) /\ Active(m)
      BY <1>2, <1>3, <2>1, CourseMoves
    <2> HIDE DEF k
    <2>3. \A i \in 1..k : Course(machines'[i])
      BY <1>1, <2>1, <2>2 DEF OnCourse, k
    <2>4. \A i \in 1..k - 1 : Suspended(machines'[i])
      BY <1>1, <2>1 DEF OnCourse, k
    <2> QED BY <2>1, <2>2, <2>3, <2>4, CourseKept DEF OnCourse
  <1>4. CASE Import
    <2> DEFINE m == machines'[k]
               callee == machines'[k + 1]
    <2>1. /\ files' = files /\ modules' = modules /\ Len(machines') = k + 1
          /\ \A i \in 1..k - 1 : machines'[i] = machines[i]
          /\ m.file = Innermost.file /\ m.memory = Innermost.memory /\ m.pc = Innermost.pc + 1
          /\ m.jumped = Innermost.jumped /\ callee = Machine(Opened) /\ Opened \in Known
      BY <1>4, Opens
    <2>2. Course(m) /\ Suspended(m)
      BY <1>2, <1>4, <2>1, CourseOpens
    <2>3. Course(callee) /\ Active(callee)
      BY <2>1, CourseStarts DEF Chained
    <2> HIDE DEF k
    <2>4. ASSUME NEW i \in 1..k + 1 PROVE Course(machines'[i])
      <3>1. i = k + 1 \/ i = k \/ i \in 1..k - 1
        BY <1>1
      <3>2. \A j \in 1..k - 1 : j \in 1..k
        BY <1>1
      <3> QED BY <2>1, <2>2, <2>3, <3>1, <3>2 DEF OnCourse, k
    <2>5. ASSUME NEW i \in 1..k PROVE Suspended(machines'[i])
      <3>1. i = k \/ i \in 1..k - 1
        BY <1>1
      <3> QED BY <2>1, <2>2, <3>1 DEF OnCourse, k
    <2>6. Len(machines') - 1 = k
      BY <1>1, <2>1
    <2> QED BY <2>1, <2>3, <2>4, <2>5, <2>6, CourseKept DEF OnCourse
  <1>5. CASE Imported
    <2> DEFINE m == machines'[k - 1]
               v == Module(Innermost.file, Len(modules) + 1)
    <2>1. /\ files' = files /\ k > 1 /\ Innermost.pc = Len(Code) + 1
          /\ Importer = machines[k - 1] /\ Importer \in Machines /\ Calls(Importer, Innermost)
          /\ Len(modules') = Len(modules) + 1 /\ modules'[Len(modules) + 1] = Innermost
          /\ \A i \in 1..Len(modules) : modules'[i] = modules[i]
      BY <1>5, Returns
    <2>2. /\ Len(machines') = k - 1 /\ \A i \in 1..k - 2 : machines'[i] = machines[i]
          /\ m.file = Importer.file /\ m.pc = Importer.pc /\ m.jumped = Importer.jumped
          /\ m.memory = [Importer.memory EXCEPT ![Importer.pc - 1] = v]
      BY <1>5, Returns
    <2>3. v.type = "module" /\ v.vm = Len(modules) + 1
      BY DEF Module
    <2>4. k - 1 \in 1..k - 1 /\ k - 1 \in 1..k
      BY <1>1, <2>1
    <2>5. Course(Importer) /\ Suspended(Importer) /\ Sound(Importer, modules)
      BY <2>1, <2>4 DEF OnCourse, Chained
    <2>6. Course(m) /\ Active(m)
      <3> HIDE DEF m, v
      <3> QED BY <2>1, <2>2, <2>3, <2>5, CourseReturns DEF Calls
    <2>7. Finished(Innermost, Len(modules) + 1)
      BY <1>2, CourseFinishes
    <2> HIDE DEF k, v
    <2>8. ASSUME NEW i \in 1..k - 1 PROVE Course(machines'[i])
      <3>1. i = k - 1 \/ (i \in 1..k - 2 /\ i \in 1..k)
        BY <1>1
      <3> QED BY <2>2, <2>6, <3>1 DEF OnCourse, k
    <2>9. ASSUME NEW i \in 1..k - 2 PROVE Suspended(machines'[i])
      <3>1. i \in 1..k - 1
        BY <1>1
      <3> QED BY <2>2, <3>1 DEF OnCourse, k
    <2>10. ASSUME NEW i \in 1..Len(modules) + 1 PROVE Finished(modules'[i], i)
      <3>1. i = Len(modules) + 1 \/ i \in 1..Len(modules)
        BY LenProperties DEF Chained
      <3> QED BY <2>1, <2>7, <3>1 DEF OnCourse
    <2>11. Len(machines') - 1 = k - 2
      BY <1>1, <2>2
    <2> QED BY <2>1, <2>2, <2>6, <2>8, <2>9, <2>10, <2>11, CourseKept
  <1>6. CASE Halt \/ Fail \/ UNCHANGED vars
    <2>1. files' = files /\ machines' = machines /\ modules' = modules
      BY <1>6 DEF Halt, Fail, vars
    <2> QED BY <2>1, CourseKept DEF OnCourse
  <1> QED BY <1>3, <1>4, <1>5, <1>6 DEF Next
-------------------------------------------------------------------------------
(* Reading the orders: where there is no import, and where there is one.     *)
LEMMA BeforeSame ==
  ASSUME files \in FileSets, NEW name \in DOMAIN files, NEW orders \in OrderMaps,
         NEW p \in 0..Len(files[name]), NEW q \in 0..Len(files[name]), p <= q,
         \A c \in Imports(files[name]) : ~ (p < c /\ c <= q)
  PROVE  Before(files[name], orders)[p] = Before(files[name], orders)[q]
  <1> DEFINE code   == files[name]
             n      == Len(code)
             before == Before(code, orders)
             T      == {i \in 0..n : p <= i /\ i <= q /\ before[i] # before[p]}
  <1>1. n \in Nat /\ Imports(code) = {i \in 1..n : code[i].op = "import"}
    BY FilesAre, ImportsAre
  <1>2. before \in [0..n -> Texts] /\ \A i \in 1..n : before[i] = before[i - 1] \o Executed(code[i], orders)
    BY BeforeIs
  <1> HIDE DEF before, code, n
  <1>3. p \in 0..n /\ q \in 0..n /\ \A c \in Imports(code) : ~ (p < c /\ c <= q)
    BY DEF code, n
  <1>4. ASSUME T # {} PROVE FALSE
    <2>1. PICK i \in T : \A j \in T : i <= j
      <3>1. T \in SUBSET Nat
        BY <1>1
      <3> HIDE DEF T
      <3> QED BY <1>4, <3>1, Least
    <2>2. i \in 1..n /\ p < i /\ i <= q /\ i - 1 \in 0..n /\ i - 1 \notin T
      BY <1>1, <1>3, <2>1
    <2>3. before[i - 1] = before[p]
      BY <1>1, <1>3, <2>2
    <2>4. Executed(code[i], orders) = <<>>
      BY <1>1, <1>3, <2>2 DEF Executed
    <2>5. before[i] = before[i - 1] \o <<>>
      BY <1>2, <2>2, <2>4
    <2>6. before[i - 1] \o <<>> = before[i - 1]
      BY <1>2, <2>2, ConcatEmptySeq DEF Texts
    <2> QED BY <2>1, <2>3, <2>5, <2>6
  <1>5. q \notin T
    BY <1>4
  <1> QED BY <1>3, <1>5 DEF before, code

LEMMA NamesGrow ==
  ASSUME NEW S, NEW a \in Seq(S), NEW b \in Seq(S), NEW x, x \in Names(a) \/ x \in Names(b)
  PROVE  x \in Names(a \o b)
  <1>1. /\ Len(a) \in Nat /\ DOMAIN a = 1..Len(a) /\ Len(b) \in Nat /\ DOMAIN b = 1..Len(b)
        /\ a \o b \in Seq(S) /\ Len(a \o b) = Len(a) + Len(b)
        /\ \A i \in 1..Len(a) + Len(b) : (a \o b)[i] = IF i <= Len(a) THEN a[i] ELSE b[i - Len(a)]
    BY LenProperties, ConcatProperties
  <1>2. DOMAIN (a \o b) = 1..Len(a) + Len(b)
    BY <1>1, LenProperties
  <1>3. CASE x \in Names(a)
    <2>1. PICK i \in 1..Len(a) : x = a[i]
      BY <1>1, <1>3 DEF Names
    <2>2. i \in 1..Len(a) + Len(b) /\ (a \o b)[i] = x
      BY <1>1, <2>1
    <2> QED BY <1>2, <2>2 DEF Names
  <1>4. CASE x \in Names(b)
    <2>1. PICK i \in 1..Len(b) : x = b[i]
      BY <1>1, <1>4 DEF Names
    <2>2. i + Len(a) \in 1..Len(a) + Len(b) /\ ~ (i + Len(a) <= Len(a)) /\ i + Len(a) - Len(a) = i
      BY <1>1, <2>1
    <2>3. (a \o b)[i + Len(a)] = x
      BY <1>1, <2>1, <2>2
    <2> QED BY <1>2, <2>2, <2>3 DEF Names
  <1> QED BY <1>3, <1>4

(* What an import adds is in the order of every longer chain.                *)
LEMMA NamesCarried ==
  ASSUME files \in FileSets, NEW room \in 1..StackDepth, NEW name \in DOMAIN files, NEW c \in 1..Len(files[name]),
         NEW x, x \in Names(Executed(files[name][c], Orders[room - 1]))
  PROVE  x \in Names(Orders[room][name])
  <1> DEFINE code   == files[name]
             n      == Len(code)
             orders == Orders[room - 1]
             before == Before(code, orders)
             T      == {i \in 0..n : c <= i /\ x \notin Names(before[i])}
  <1>1. n \in Nat /\ StackDepth \in Nat
    BY FilesAre, MainIsKnown
  <1>2. orders \in OrderMaps /\ Orders[room][name] = Append(before[n], name)
    BY OrdersAre, <1>1
  <1>3. before \in [0..n -> Texts] /\ \A i \in 1..n : before[i] = before[i - 1] \o Executed(code[i], orders)
    BY <1>2, BeforeIs
  <1>4. \A i \in 1..n : Executed(code[i], orders) \in Texts
    BY <1>2, ExecutedIs
  <1>5. x \in Names(Executed(code[c], orders)) /\ c \in 1..n
    OBVIOUS
  <1> HIDE DEF before, code, n, orders
  <1>6. ASSUME T # {} PROVE FALSE
    <2>1. PICK i \in T : \A j \in T : i <= j
      <3>1. T \in SUBSET Nat
        BY <1>1
      <3> HIDE DEF T
      <3> QED BY <1>6, <3>1, Least
    <2>2. i \in 1..n /\ i - 1 \in 0..n /\ i - 1 \notin T /\ c <= i
      BY <1>1, <1>5, <2>1
    <2>3. x \in Names(before[i - 1]) \/ x \in Names(Executed(code[i], orders))
      BY <1>1, <1>5, <2>2
    <2>4. before[i - 1] \in Texts /\ Executed(code[i], orders) \in Texts
      BY <1>3, <1>4, <2>2
    <2>5. x \in Names(before[i])
      BY <1>3, <2>2, <2>3, <2>4, NamesGrow DEF Texts
    <2> QED BY <2>1, <2>5
  <1>7. n \in 0..n /\ c <= n
    BY <1>1, <1>5
  <1>8. x \in Names(before[n])
    BY <1>6, <1>7
  <1>9. before[n] \in Texts /\ << name >> \in Texts
    BY <1>3, <1>7 DEF Texts
  <1>10. Append(before[n], name) = before[n] \o << name >>
    BY <1>9, AppendIsConcat DEF Texts
  <1> QED BY <1>2, <1>8, <1>9, <1>10, NamesGrow DEF Texts
-------------------------------------------------------------------------------
(* Where no jump skips an import, the modules done so far are, from the first *)
(* machine to the innermost, what each has executed before its statement: a  *)
(* machine that waits, before the import it waits for.                       *)
FilesOf(ms)     == [i \in DOMAIN ms |-> ms[i].file]
Position(ms, i) == IF i = Len(ms) THEN ms[i].pc - 1 ELSE ms[i].pc - 2
Part(ms, i)     == Before(files[ms[i].file], Orders[StackDepth - i])[Position(ms, i)]
Collects(acc, ms) ==
  acc \in [0..Len(ms) -> Texts] /\ acc[0] = <<>> /\ \A i \in 1..Len(ms) : acc[i] = acc[i - 1] \o Part(ms, i)

InStep == Unconditional /\ ~ Astray(Innermost) => \E acc : Collects(acc, machines) /\ FilesOf(modules) = acc[Len(machines)]

LEMMA InStepKept ==
  ASSUME files' = files, Unconditional /\ ~ Astray(machines'[Len(machines')]) =>
                           \E acc : Collects(acc, machines') /\ FilesOf(modules') = acc[Len(machines')]
  PROVE  InStep'
  <1>1. Orders' = Orders
    BY DEF Orders, Before, Executed
  <1>2. ASSUME NEW code, NEW orders PROVE Before(code, orders)' = Before(code, orders)
    BY DEF Before, Executed
  <1>3. \A i : Part(machines, i)' = Part(machines', i)
    BY <1>1, <1>2 DEF Part, Position
  <1>4. \A acc : Collects(acc, machines)' <=> Collects(acc, machines')
    BY <1>3 DEF Collects, Texts
  <1>5. Astray(Innermost)' <=> Astray(machines'[Len(machines')])
    BY DEF Astray, Innermost, IsDone
  <1>6. Unconditional' <=> Unconditional
    BY DEF Unconditional, Skips
  <1> QED BY <1>4, <1>5, <1>6 DEF InStep, FilesOf

(* What a part reads: the orders of the files that fit behind it.            *)
LEMMA PartReads ==
  ASSUME files \in FileSets, NEW i \in 1..StackDepth
  PROVE  /\ StackDepth - i \in 0..StackDepth /\ Orders[StackDepth - i] \in OrderMaps
         /\ \A name \in DOMAIN files : Before(files[name], Orders[StackDepth - i]) \in [0..Len(files[name]) -> Texts]
  <1>1. StackDepth - i \in 0..StackDepth
    BY MainIsKnown
  <1>2. Orders[StackDepth - i] \in OrderMaps
    BY <1>1, OrdersAre
  <1> QED BY <1>1, <1>2, BeforeIs

LEMMA InStepStarts == Init => InStep
  <1> SUFFICES ASSUME Init PROVE InStep
    OBVIOUS
  <1> DEFINE acc == [i \in 0..1 |-> <<>>]
  <1>1. files \in FileSets /\ machines = << Machine(Main) >> /\ modules = <<>> /\ Main \in Known /\ Main \in DOMAIN files
    BY MainIsKnown DEF Init
  <1>2. Machine(Main).file = Main /\ Machine(Main).pc = 1 /\ StackDepth \in Nat \ {0}
    BY <1>1, MainIsKnown, MachineIs
  <1>3. Len(machines) = 1 /\ machines[1] = Machine(Main)
    BY <1>1
  <1>4. Position(machines, 1) = 0
    BY <1>2, <1>3 DEF Position
  <1>5. Part(machines, 1) = <<>>
    <2>1. 1 \in 1..StackDepth
      BY <1>2
    <2>2. Orders[StackDepth - 1] \in OrderMaps
      BY <1>1, <2>1, PartReads
    <2>3. Before(files[Main], Orders[StackDepth - 1])[0] = <<>>
      BY <1>1, <2>2, BeforeIs
    <2> QED BY <1>2, <1>3, <1>4, <2>3 DEF Part
  <1>6. acc \in [0..1 -> Texts] /\ acc[0] = <<>> /\ acc[1] = <<>>
    BY DEF Texts
  <1> HIDE DEF acc
  <1>7. <<>> = <<>> \o <<>>
    OBVIOUS
  <1>8. ASSUME NEW i \in 1..1 PROVE acc[i] = acc[i - 1] \o Part(machines, i)
    <2>1. i = 1 /\ i - 1 = 0
      OBVIOUS
    <2> QED BY <1>5, <1>6, <1>7, <2>1
  <1>9. Collects(acc, machines)
    BY <1>3, <1>6, <1>8 DEF Collects
  <1>10. FilesOf(modules) = <<>>
    BY <1>1 DEF FilesOf
  <1> QED BY <1>3, <1>6, <1>9, <1>10 DEF InStep

(* A statement that is no import leaves what is behind the counter as it was. *)
LEMMA InStepMoves == Chained /\ OnCourse /\ InStep /\ (Work \/ Jump) => InStep'
  <1> SUFFICES ASSUME Chained, OnCourse, InStep, Work \/ Jump PROVE InStep'
    OBVIOUS
  <1> DEFINE k == Len(machines)
             m == machines'[k]
             x == Innermost
  <1>1. /\ k \in Nat \ {0} /\ x = machines[k] /\ x.file \in DOMAIN files /\ Code = files[x.file]
        /\ Len(Code) \in Nat /\ k \in 1..StackDepth
    BY InnermostIs DEF Chained
  <1>2. /\ files' = files /\ modules' = modules /\ Len(machines') = k /\ Moved(m)
        /\ \A i \in 1..k - 1 : machines'[i] = machines[i]
        /\ x.pc \in 1..Len(Code) /\ x.pc \notin Imports(Code)
        /\ (Statement.op = "jump" => Statement.place \in 1..Len(Code) + 1) /\ Statement = Code[x.pc]
    BY Moves DEF Statement
  <1>3. InTurn(x, x.pc)
    BY <1>1 DEF OnCourse, Active
  <1>4. Unconditional /\ ~ Astray(m) => ~ Astray(x)
    BY <1>2, StaysAstray
  <1>5. /\ m.file = x.file /\ m.memory = x.memory
        /\ m.pc = x.pc + 1 \/ (Statement.op = "jump" /\ m.pc = Statement.place)
        /\ m.pc \in x.pc + 1..Len(Code) + 1 \/ m.pc \in 1..x.pc
    BY <1>1, <1>2 DEF Moved
  <1> HIDE DEF m, x, k
  <1>6. ASSUME Unconditional, ~ Astray(m) PROVE Part(machines', k) = Part(machines, k)
    <2> DEFINE orders == Orders[StackDepth - k]
    <2>1. orders \in OrderMaps
      BY <1>1, PartReads DEF Chained
    <2>2. files \in FileSets
      BY DEF Chained
    <2>3. Part(machines, k) = Before(files[x.file], orders)[x.pc - 1]
      BY <1>1 DEF Part, Position, k
    <2>4. Part(machines', k) = Before(files[x.file], orders)[m.pc - 1]
      BY <1>2, <1>5 DEF Part, Position, k, m
    <2> HIDE DEF orders
    <2>5. CASE m.pc \in x.pc + 1..Len(Code) + 1
      <3>1. x.pc - 1 \in 0..Len(Code) /\ m.pc - 1 \in 0..Len(Code) /\ x.pc - 1 <= m.pc - 1
        <4>1. ASSUME NEW l \in Nat, NEW p \in 1..l, NEW q \in p + 1..l + 1
              PROVE  p - 1 \in 0..l /\ q - 1 \in 0..l /\ p - 1 <= q - 1
          OBVIOUS
        <4> QED BY <1>1, <1>2, <2>5, <4>1
      <3>2. ASSUME NEW c \in Imports(Code), x.pc - 1 < c, c <= m.pc - 1 PROVE FALSE
        <4>1. c \in 1..Len(Code) /\ DOMAIN Code = 1..Len(Code) /\ ~ Skips(Code, c)
          BY <1>1, <1>6, ImportsAre, FilesAre DEF Chained, Unconditional
        <4>2. x.pc < c /\ c < m.pc
          BY <1>2, <2>5, <3>2, <4>1
        <4>3. Statement.op = "jump" /\ m.pc = Statement.place
          BY <1>2, <1>5, <4>1, <4>2
        <4> QED BY <1>2, <4>1, <4>2, <4>3 DEF Skips
      <3>3. Before(files[x.file], orders)[x.pc - 1] = Before(files[x.file], orders)[m.pc - 1]
        <4> DEFINE p == x.pc - 1
                   q == m.pc - 1
        <4>1. p \in 0..Len(files[x.file]) /\ q \in 0..Len(files[x.file]) /\ p <= q
              /\ \A c \in Imports(files[x.file]) : ~ (p < c /\ c <= q)
          BY <1>1, <3>1, <3>2
        <4> HIDE DEF p, q
        <4>2. Before(files[x.file], orders)[p] = Before(files[x.file], orders)[q]
          BY <1>1, <2>2, <2>1, <4>1, BeforeSame
        <4> QED BY <4>2 DEF p, q
      <3> QED BY <2>3, <2>4, <3>3
    <2>6. CASE m.pc \in 1..x.pc
      <3>1. x.pc - 1 \in 0..Len(Code) /\ m.pc - 1 \in 0..Len(Code) /\ m.pc - 1 <= x.pc - 1
        BY <1>1, <1>2, <2>6, SMTT(30)
      <3>2. ASSUME NEW c \in Imports(Code), m.pc - 1 < c, c <= x.pc - 1 PROVE FALSE
        <4>1. c \in 1..Len(Code)
          BY <1>1, ImportsAre DEF Chained
        <4>2. c < x.pc /\ m.pc <= c
          BY <1>1, <1>2, <2>6, <3>2, <4>1
        <4>3. IsDone(m, c)
          <5>1. IsDone(x, c) \/ Skips(Code, c)
            BY <1>1, <1>3, <3>2, <4>2 DEF InTurn
          <5>2. ~ Skips(Code, c)
            BY <1>1, <1>6, <3>2 DEF Unconditional
          <5> QED BY <1>5, <5>1, <5>2 DEF IsDone
        <4> QED BY <1>1, <1>5, <1>6, <4>2, <4>3 DEF Astray
      <3>3. Before(files[x.file], orders)[m.pc - 1] = Before(files[x.file], orders)[x.pc - 1]
        <4> DEFINE p == m.pc - 1
                   q == x.pc - 1
        <4>1. p \in 0..Len(files[x.file]) /\ q \in 0..Len(files[x.file]) /\ p <= q
              /\ \A c \in Imports(files[x.file]) : ~ (p < c /\ c <= q)
          BY <1>1, <3>1, <3>2
        <4> HIDE DEF p, q
        <4>2. Before(files[x.file], orders)[p] = Before(files[x.file], orders)[q]
          BY <1>1, <2>2, <2>1, <4>1, BeforeSame
        <4> QED BY <4>2 DEF p, q
      <3> QED BY <2>3, <2>4, <3>3
    <2> QED BY <1>5, <2>5, <2>6
  <1>7. ASSUME NEW i \in 1..k - 1 PROVE Part(machines', i) = Part(machines, i)
    <2>1. i # k
      BY <1>1
    <2> QED BY <1>2, <2>1 DEF Part, Position, k
  <1>8. ASSUME Unconditional, ~ Astray(m) PROVE \E acc : Collects(acc, machines') /\ FilesOf(modules') = acc[Len(machines')]
    <2>1. ~ Astray(Innermost)
      BY <1>4, <1>8 DEF x
    <2>2. PICK acc : Collects(acc, machines) /\ FilesOf(modules) = acc[k]
      BY <1>8, <2>1 DEF InStep, k
    <2>3. \A i \in 1..k : i = k \/ i \in 1..k - 1
      BY <1>1
    <2>4. Collects(acc, machines')
      BY <1>2, <1>6, <1>7, <1>8, <2>2, <2>3 DEF Collects, k
    <2> QED BY <1>2, <2>2, <2>4
  <1> QED BY <1>2, <1>8, InStepKept DEF m

(* The machine of a module has nothing behind it.                            *)
LEMMA InStepOpens == Chained /\ OnCourse /\ InStep /\ Import => InStep'
  <1> SUFFICES ASSUME Chained, OnCourse, InStep, Import, Unconditional PROVE InStep'
    BY Opens, InStepKept
  <1> DEFINE k == Len(machines)
             m == machines'[k]
             callee == machines'[k + 1]
  <1>1. k \in Nat \ {0} /\ Innermost = machines[k] /\ Innermost.pc \in Nat /\ files \in FileSets
    BY InnermostIs DEF Chained
  <1>2. /\ files' = files /\ modules' = modules /\ Len(machines') = k + 1 /\ k < StackDepth
        /\ \A i \in 1..k - 1 : machines'[i] = machines[i]
        /\ m.file = Innermost.file /\ m.memory = Innermost.memory /\ m.pc = Innermost.pc + 1
        /\ m.jumped = Innermost.jumped /\ callee = Machine(Opened) /\ Opened \in Known
    BY Opens
  <1>3. ~ Astray(Innermost)
    BY <1>1, <1>2, CourseOpens DEF OnCourse
  <1>4. PICK acc : Collects(acc, machines) /\ FilesOf(modules) = acc[k]
    BY <1>3 DEF InStep
  <1>5. callee.file = Opened /\ callee.pc = 1 /\ Opened \in DOMAIN files
    <2>1. Opened \in Known /\ Known \subseteq DOMAIN files
      BY <1>1, <1>2, MainIsKnown, Zenon
    <2>2. Machine(Opened).file = Opened /\ Machine(Opened).pc = 1
      BY <1>1, <2>1, MachineIs, Zenon
    <2> QED BY <1>2, <2>1, <2>2, Zenon
  <1> DEFINE longer == [i \in 0..k + 1 |-> IF i = k + 1 THEN acc[k] ELSE acc[i]]
  <1> HIDE DEF m, callee, k
  <1>6. ASSUME NEW i \in 1..k PROVE Part(machines', i) = Part(machines, i)
    <2>1. i # k + 1
      BY <1>1
    <2>2. CASE i = k
      <3>1. Position(machines', k) = m.pc - 2 /\ Position(machines, k) = Innermost.pc - 1
        BY <1>1, <1>2, <2>1, <2>2 DEF Position, k, m
      <3>2. m.pc - 2 = Innermost.pc - 1
        BY <1>1, <1>2
      <3> QED BY <1>1, <1>2, <2>2, <3>1, <3>2 DEF Part, m
    <2>3. CASE i # k
      <3>1. i \in 1..k - 1
        BY <1>1, <2>3
      <3> QED BY <1>2, <2>1, <2>3, <3>1 DEF Part, Position, k
    <2> QED BY <2>2, <2>3
  <1>7. Part(machines', k + 1) = <<>>
    <2>1. k + 1 \in 1..StackDepth
      BY <1>1, <1>2, MainIsKnown
    <2>2. Orders[StackDepth - (k + 1)] \in OrderMaps
      BY <1>1, <2>1, PartReads
    <2>3. Before(files[Opened], Orders[StackDepth - (k + 1)])[0] = <<>>
      BY <1>1, <1>5, <2>2, BeforeIs
    <2>4. Position(machines', k + 1) = 0
      BY <1>2, <1>5 DEF Position, callee
    <2> QED BY <1>5, <2>3, <2>4 DEF Part, callee
  <1>8. acc \in [0..k -> Texts] /\ acc[0] = <<>> /\ \A i \in 1..k : acc[i] = acc[i - 1] \o Part(machines, i)
    BY <1>4 DEF Collects, k
  <1>9. longer \in [0..k + 1 -> Texts] /\ longer[k + 1] = acc[k] /\ \A i \in 0..k : longer[i] = acc[i]
    BY <1>1, <1>8
  <1> HIDE DEF longer
  <1>10. ASSUME NEW i \in 1..k + 1 PROVE longer[i] = longer[i - 1] \o Part(machines', i)
    <2>1. CASE i = k + 1
      <3>1. k + 1 - 1 = k /\ k \in 0..k
        BY <1>1
      <3>2. acc[k] \o <<>> = acc[k]
        BY <1>8, <3>1, ConcatEmptySeq DEF Texts
      <3> QED BY <1>7, <1>9, <2>1, <3>1, <3>2
    <2>2. CASE i # k + 1
      <3>1. i \in 1..k /\ i \in 0..k /\ i - 1 \in 0..k
        BY <1>1, <2>2
      <3> QED BY <1>6, <1>8, <1>9, <3>1
    <2> QED BY <2>1, <2>2
  <1>11. longer[0] = <<>>
    BY <1>1, <1>8, <1>9
  <1>12. Collects(longer, machines')
    BY <1>2, <1>9, <1>10, <1>11 DEF Collects
  <1>13. FilesOf(modules') = longer[Len(machines')]
    BY <1>2, <1>4, <1>9
  <1> QED BY <1>2, <1>12, <1>13, InStepKept

(* A module that is done completes what its import adds.                     *)
LEMMA InStepReturns == Chained /\ OnCourse /\ InStep /\ Imported => InStep'
  <1> SUFFICES ASSUME Chained, OnCourse, InStep, Imported, Unconditional PROVE InStep'
    BY Returns, InStepKept
  <1> DEFINE k == Len(machines)
             m == machines'[k - 1]
             name == Innermost.file
             caller == Importer.file
             c == Importer.pc - 1
  <1>1. /\ k \in Nat /\ k > 1 /\ Innermost = machines[k] /\ files \in FileSets /\ name \in Known /\ name \in DOMAIN files
        /\ k \in 1..StackDepth /\ k - 1 \in 1..StackDepth /\ StackDepth \in Nat
    BY InnermostIs, Returns, MainIsKnown DEF Chained
  <1>2. /\ files' = files /\ Innermost.pc = Len(files[name]) + 1
        /\ Importer = machines[k - 1] /\ Importer \in Machines /\ Calls(Importer, Innermost)
        /\ modules' \in Seq(Machines) /\ Len(modules') = Len(modules) + 1
        /\ modules'[Len(modules) + 1] = Innermost /\ \A i \in 1..Len(modules) : modules'[i] = modules[i]
        /\ Len(machines') = k - 1 /\ \A i \in 1..k - 2 : machines'[i] = machines[i]
        /\ m.file = caller /\ m.pc = Importer.pc
    BY Returns, InnermostIs
  <1>3. ~ Astray(Innermost)
    BY <1>1, <1>2, CourseEnds
  <1>4. PICK acc : Collects(acc, machines) /\ FilesOf(modules) = acc[k]
    BY <1>3 DEF InStep
  <1> HIDE DEF k
  <1>5. /\ caller \in DOMAIN files /\ c \in Imports(files[caller]) /\ files[caller][c].name = name
        /\ c \in 1..Len(files[caller]) /\ files[caller][c].op = "import" /\ Importer.pc \in Nat
        /\ Len(files[name]) \in Nat
    <2>1. caller \in DOMAIN files /\ Importer.pc \in Nat
      BY <1>2 DEF Machines, Known
    <2>2. c \in Imports(files[caller]) /\ files[caller][c].name = name
      BY <1>2 DEF Calls
    <2> QED BY <1>1, <2>1, <2>2, ImportsAre, FilesAre
  <1> DEFINE order == Orders[StackDepth - (k - 1)]
             inner == Orders[StackDepth - k]
             before == Before(files[caller], order)
             done   == Before(files[name], inner)
             shorter == [i \in 0..k - 1 |-> IF i = k - 1 THEN acc[k - 2] \o before[c] ELSE acc[i]]
  <1>6. /\ order \in OrderMaps /\ inner \in OrderMaps /\ order[name] = Append(done[Len(files[name])], name)
    <2>1. StackDepth - (k - 1) \in 1..StackDepth /\ StackDepth - (k - 1) - 1 = StackDepth - k
      BY <1>1
    <2>2. Orders[StackDepth - (k - 1)] \in OrderMaps /\ Orders[StackDepth - k] \in OrderMaps
      BY <1>1, PartReads
    <2> DEFINE r == StackDepth - (k - 1)
    <2>3. Orders[r][name] = Append(Before(files[name], Orders[r - 1])[Len(files[name])], name)
      <3> HIDE DEF r
      <3>1. r \in 1..StackDepth
        BY <2>1 DEF r
      <3> QED BY <1>1, <3>1, OrdersAre
    <2> QED BY <2>1, <2>2, <2>3
  <1>7. before \in [0..Len(files[caller]) -> Texts] /\ before[c] = before[c - 1] \o order[name]
    <2>1. /\ before \in [0..Len(files[caller]) -> Texts]
          /\ \A i \in 1..Len(files[caller]) : before[i] = before[i - 1] \o Executed(files[caller][i], order)
      BY <1>1, <1>5, <1>6, BeforeIs
    <2>2. Executed(files[caller][c], order) = order[name]
      BY <1>1, <1>5 DEF Executed, Known
    <2> QED BY <1>5, <2>1, <2>2
  <1>8. done \in [0..Len(files[name]) -> Texts]
    BY <1>1, <1>6, BeforeIs
  <1> HIDE DEF m, order, inner, before, done, c
  <1>9. Part(machines, k) = done[Len(files[name])]
    <2>1. Position(machines, k) = Len(files[name])
      BY <1>1, <1>2, <1>5 DEF Position, k
    <2> QED BY <1>1, <2>1 DEF Part, done, inner
  <1>10. Part(machines, k - 1) = before[c - 1] /\ Part(machines', k - 1) = before[c]
    <2>1. k - 1 # k /\ Importer.pc - 2 = c - 1 /\ Importer.pc - 1 = c
      BY <1>1, <1>5 DEF c
    <2>2. Position(machines, k - 1) = c - 1
      BY <1>2, <2>1 DEF Position, k
    <2>3. Position(machines', k - 1) = c
      BY <1>2, <2>1 DEF Position, m
    <2> QED BY <1>2, <2>2, <2>3 DEF Part, before, order, m
  <1>11. ASSUME NEW i \in 1..k - 2 PROVE Part(machines', i) = Part(machines, i)
    <2>1. i # k /\ i # k - 1
      BY <1>1
    <2> QED BY <1>2, <2>1 DEF Part, Position, k
  <1>12. acc \in [0..k -> Texts] /\ acc[0] = <<>> /\ \A i \in 1..k : acc[i] = acc[i - 1] \o Part(machines, i)
    BY <1>4 DEF Collects, k
  <1>13. /\ acc[k - 1] = acc[k - 2] \o before[c - 1] /\ acc[k] = acc[k - 1] \o done[Len(files[name])]
         /\ acc[k - 2] \in Texts /\ acc[k - 1] \in Texts /\ acc[k] \in Texts
         /\ before[c - 1] \in Texts /\ before[c] \in Texts /\ done[Len(files[name])] \in Texts
    <2>1. k \in 1..k /\ k - 1 \in 1..k /\ k - 1 - 1 = k - 2 /\ k - 2 \in 0..k /\ k - 1 \in 0..k /\ k \in 0..k
      BY <1>1
    <2>2. c - 1 \in 0..Len(files[caller]) /\ c \in 0..Len(files[caller]) /\ Len(files[name]) \in 0..Len(files[name])
      BY <1>5
    <2> QED BY <1>7, <1>8, <1>9, <1>10, <1>12, <2>1, <2>2
  <1>14. acc[k - 2] \o before[c] = Append(acc[k], name)
    <2> DEFINE a == acc[k - 2]
               b == before[c - 1]
               d == done[Len(files[name])]
               e == << name >>
    <2>1. a \in Texts /\ b \in Texts /\ d \in Texts /\ e \in Texts
      BY <1>1, <1>13 DEF Texts
    <2>2. acc[k] = (a \o b) \o d /\ order[name] = Append(d, name) /\ before[c] = b \o order[name]
      BY <1>6, <1>7, <1>13
    <2> HIDE DEF a, b, d, e
    <2>3. a \o b \in Texts /\ d \o e \in Texts /\ (a \o b) \o d \in Texts
      BY <2>1, ConcatProperties DEF Texts
    <2>4. Append(d, name) = d \o e
      BY <1>1, <2>1, AppendIsConcat DEF Texts, e
    <2>5. Append((a \o b) \o d, name) = ((a \o b) \o d) \o e
      BY <1>1, <2>3, AppendIsConcat DEF Texts, e
    <2>6. a \o (b \o (d \o e)) = ((a \o b) \o d) \o e
      <3> DEFINE S == DOMAIN files \cup {"never"}
      <3>1. a \in Seq(S) /\ b \in Seq(S) /\ d \in Seq(S) /\ e \in Seq(S)
        BY <2>1 DEF Texts
      <3> HIDE DEF S
      <3>2. PICK ab : ab \in Seq(S) /\ a \o b = ab
        BY <3>1, ConcatProperties
      <3>3. PICK de : de \in Seq(S) /\ d \o e = de
        BY <3>1, ConcatProperties
      <3>4. (a \o b) \o de = a \o (b \o de)
        BY <3>1, <3>3, SMTT(30)
      <3>5. (ab \o d) \o e = ab \o (d \o e)
        BY <3>1, <3>2, SMTT(30)
      <3> QED BY <3>2, <3>3, <3>4, <3>5
    <2> QED BY <2>2, <2>4, <2>5, <2>6 DEF a
  <1>15. acc[k - 2] \o before[c] \in Texts
    BY <1>13, ConcatProperties DEF Texts
  <1>16. /\ shorter \in [0..k - 1 -> Texts] /\ shorter[k - 1] = acc[k - 2] \o before[c]
         /\ \A i \in 0..k - 2 : shorter[i] = acc[i]
    <2> DEFINE last == acc[k - 2] \o before[c]
    <2>1. last \in Texts /\ shorter = [i \in 0..k - 1 |-> IF i = k - 1 THEN last ELSE acc[i]]
      BY <1>15
    <2> HIDE DEF last, shorter
    <2>2. /\ \A i \in 0..k - 1 : i \in 0..k /\ (i # k - 1 => acc[i] \in Texts)
          /\ k - 1 \in 0..k - 1 /\ \A i \in 0..k - 2 : i \in 0..k - 1 /\ i # k - 1
      BY <1>1, <1>12
    <2> QED BY <2>1, <2>2 DEF last
  <1> HIDE DEF shorter
  <1>17. ASSUME NEW i \in 1..k - 1 PROVE shorter[i] = shorter[i - 1] \o Part(machines', i)
    <2>1. CASE i = k - 1
      <3>1. k - 1 - 1 = k - 2 /\ k - 2 \in 0..k - 2
        BY <1>1
      <3> QED BY <1>10, <1>16, <2>1, <3>1
    <2>2. CASE i # k - 1
      <3>1. i \in 1..k - 2 /\ i \in 0..k - 2 /\ i - 1 \in 0..k - 2 /\ i \in 1..k
        BY <1>1, <2>2
      <3> QED BY <1>11, <1>12, <1>16, <3>1
    <2> QED BY <2>1, <2>2
  <1>18. shorter[0] = <<>>
    <2>1. 0 \in 0..k - 2
      BY <1>1
    <2> QED BY <1>12, <1>16, <2>1
  <1>19. Collects(shorter, machines')
    BY <1>2, <1>16, <1>17, <1>18 DEF Collects
  <1>20. FilesOf(modules') = Append(FilesOf(modules), name)
    <2> DEFINE n == Len(modules)
               f == FilesOf(modules)
    <2>1. n \in Nat /\ DOMAIN modules = 1..n /\ DOMAIN modules' = 1..n + 1
      BY <1>2, LenProperties DEF Chained
    <2>2. f = [i \in 1..n |-> modules[i].file] /\ FilesOf(modules') = [i \in 1..n + 1 |-> modules'[i].file]
      BY <2>1 DEF FilesOf
    <2> HIDE DEF n
    <2>3. Len(f) = n /\ f \in Seq({modules[i].file : i \in 1..n})
      BY <2>1, <2>2
    <2> HIDE DEF f
    <2>4. Append(f, name) = [i \in 1..n + 1 |-> IF i = n + 1 THEN name ELSE f[i]]
      BY <2>1, <2>3
    <2>5. ASSUME NEW i \in 1..n + 1 PROVE modules'[i].file = IF i = n + 1 THEN name ELSE f[i]
      BY <1>2, <2>1, <2>2 DEF n
    <2> QED BY <2>2, <2>4, <2>5 DEF f
  <1>21. FilesOf(modules') = shorter[Len(machines')]
    BY <1>2, <1>4, <1>14, <1>16, <1>20 DEF k
  <1> QED BY <1>2, <1>19, <1>21, InStepKept

LEMMA InStepStep == Chained /\ OnCourse /\ InStep /\ [Next]_vars => InStep'
  <1>1. ASSUME InStep, Halt \/ Fail \/ UNCHANGED vars PROVE InStep'
    <2>1. files' = files /\ machines' = machines /\ modules' = modules
      BY <1>1 DEF Halt, Fail, vars
    <2> QED BY <1>1, <2>1, InStepKept DEF InStep, Innermost
  <1> QED BY <1>1, InStepMoves, InStepOpens, InStepReturns DEF Next
-------------------------------------------------------------------------------
(* How a program has ended: at the end of its file, or at an import.         *)
Ended ==
  /\ status = "halted" => Len(machines) = 1 /\ AtEnd
  /\ status \notin {"running", "halted"} => ~ AtEnd /\ Statement.op = "import" /\ status = ImportEnds

LEMMA EndedStep == Ended /\ [Next]_vars => Ended'
  <1>1. ASSUME Ended, UNCHANGED vars PROVE Ended'
    <2>1. files' = files /\ machines' = machines /\ modules' = modules /\ status' = status
      BY <1>1 DEF vars
    <2> QED BY <1>1, <2>1 DEF Ended, AtEnd, Statement, ImportEnds, Cell, Opened, Innermost, Code
  <1>2. ASSUME Work \/ Jump \/ Import \/ Imported PROVE Ended'
    <2>1. status' = "running"
      BY <1>2 DEF Work, Jump, Import, Imported, Executes, Running
    <2> QED BY <2>1 DEF Ended
  <1>3. ASSUME Halt PROVE Ended'
    BY <1>3 DEF Halt, Ended, AtEnd, Innermost, Code
  <1>4. ASSUME Fail PROVE Ended'
    <2>1. /\ files' = files /\ machines' = machines /\ status' = ImportEnds
          /\ ~ AtEnd /\ Statement.op = "import" /\ ImportEnds # "running"
      BY <1>4 DEF Fail, Executes
    <2>2. AtEnd' = AtEnd /\ Statement' = Statement /\ ImportEnds' = ImportEnds
      BY <2>1 DEF AtEnd, Statement, ImportEnds, Cell, Opened, Innermost, Code
    <2>3. status' # "halted"
      BY <2>1 DEF ImportEnds
    <2> QED BY <2>1, <2>2, <2>3 DEF Ended
  <1> QED BY <1>1, <1>2, <1>3, <1>4 DEF Next

(* Every import behind a machine is done or was skipped, and what is done is  *)
(* in turn but for what jumps went back over; where no jump skips an import, *)
(* the modules executed so far are those the texts put before the imports    *)
(* that wait, until a machine comes back to an import (vm.c:323, vm.c:590).  *)
THEOREM CourseInvariant == Spec => [](Chained /\ OnCourse /\ InStep /\ Ended)
  <1>1. Init => Chained /\ OnCourse /\ InStep /\ Ended
    <2>1. Init => Ended
      BY DEF Init, Ended
    <2> QED BY <2>1, ChainStarts, OnCourseStarts, InStepStarts
  <1>2. Chained /\ OnCourse /\ InStep /\ Ended /\ [Next]_vars => (Chained /\ OnCourse /\ InStep /\ Ended)'
    BY ChainStep, OnCourseStep, InStepStep, EndedStep
  <1> QED BY <1>1, <1>2, PTL DEF Spec

(* Imports under conditions and in loops: no import is passed by but where a  *)
(* jump skips it, none is executed out of turn but where a jump goes back    *)
(* over it, and a module is done after those it imports (vm.c:323, vm.c:590). *)
THEOREM ImportsTakeTurns == Spec => []ImportsInTurn
  <1>1. Chained /\ OnCourse => ImportsInTurn
    <2> SUFFICES ASSUME Chained, OnCourse PROVE ImportsInTurn
      OBVIOUS
    <2>1. DOMAIN machines = 1..Len(machines) /\ Len(machines) \in Nat \ {0} /\ DOMAIN modules = 1..Len(modules)
      BY InnermostIs, LenProperties DEF Chained
    <2>2. ASSUME NEW i \in DOMAIN machines
          PROVE  InTurn(machines[i], IF i = Len(machines) THEN machines[i].pc ELSE machines[i].pc - 1)
      <3>1. i = Len(machines) \/ i \in 1..Len(machines) - 1
        BY <2>1
      <3> QED BY <2>1, <3>1 DEF OnCourse, Active, Suspended
    <2>3. ASSUME NEW n \in DOMAIN modules PROVE Finished(modules[n], n)
      BY <2>1 DEF OnCourse
    <2> QED BY <2>2, <2>3 DEF ImportsInTurn, Finished
  <1> QED BY <1>1, CourseInvariant, PTL

(* A program that halts, and in which no jump skips an import, has executed  *)
(* each module to its end, before the statement behind its import, in the    *)
(* order of the text (vm.c:562, vm.c:590, vm.c:596).                         *)
THEOREM ModulesInOrder == Spec => []ExecutesInOrder
  <1>1. Chained /\ OnCourse /\ InStep /\ Ended => ExecutesInOrder
    <2> SUFFICES ASSUME Chained, OnCourse, InStep, Ended, status = "halted", Unconditional
                 PROVE  Append([i \in DOMAIN modules |-> modules[i].file], Main) = Orders[StackDepth][Main]
      BY DEF ExecutesInOrder
    <2> DEFINE n == Len(files[Main])
               text == Before(files[Main], Orders[StackDepth - 1])[n]
    <2>1. /\ Len(machines) = 1 /\ Innermost = machines[1] /\ Innermost.file = Main
          /\ Innermost.pc = n + 1 /\ n \in Nat /\ Main \in DOMAIN files /\ files \in FileSets
          /\ StackDepth \in Nat \ {0}
      <3>1. Len(machines) = 1 /\ AtEnd
        BY DEF Ended
      <3>2. Innermost = machines[1] /\ Innermost.file = Main /\ Code = files[Main]
        BY <3>1, InnermostIs DEF Chained
      <3> QED BY <3>1, <3>2, InnermostIs, MainIsKnown DEF Chained, AtEnd
    <2>3. ~ Astray(Innermost)
      BY <2>1, CourseEnds
    <2>4. PICK acc : Collects(acc, machines) /\ FilesOf(modules) = acc[1]
      BY <2>1, <2>3 DEF InStep
    <2>5. text \in Texts
      <3>1. 1 \in 1..StackDepth /\ n \in 0..n
        BY <2>1
      <3> QED BY <2>1, <3>1, PartReads
    <2>6. FilesOf(modules) = text
      <3>1. Position(machines, 1) = n
        BY <2>1 DEF Position
      <3>2. Part(machines, 1) = text
        BY <2>1, <3>1 DEF Part
      <3> HIDE DEF text
      <3>3. acc[0] = <<>> /\ acc[1] = acc[1 - 1] \o text
        BY <2>1, <2>4, <3>2 DEF Collects
      <3>4. acc[1] = <<>> \o text
        <4>1. 1 - 1 = 0
          OBVIOUS
        <4> QED BY <3>3, <4>1
      <3>5. <<>> \o text = text
        BY <2>5, ConcatEmptySeq DEF Texts
      <3> QED BY <2>4, <3>4, <3>5
    <2>7. Orders[StackDepth][Main] = Append(text, Main)
      <3>1. StackDepth \in 1..StackDepth
        BY <2>1
      <3> QED BY <2>1, <3>1, OrdersAre
    <2> QED BY <2>6, <2>7 DEF FilesOf
  <1> QED BY <1>1, CourseInvariant, PTL

(* An import the innermost machine cannot execute for want of its file or of *)
(* room makes the order of the first machine say "never".                    *)
LEMMA NeverReached ==
  ASSUME Chained, "never" \in Names(Executed(Statement, Orders[StackDepth - Len(machines)])),
         Innermost.pc \in 1..Len(Code)
  PROVE  "never" \in Names(Orders[StackDepth][Main])
  <1> DEFINE k == Len(machines)
             Room(i) == StackDepth - i + 1
             Says(i) == "never" \in Names(Orders[Room(i)][machines[i].file])
             T == {j \in 0..k - 1 : ~ Says(k - j)}
  <1>1. /\ k \in Nat \ {0} /\ k \in 1..StackDepth /\ StackDepth \in Nat \ {0} /\ files \in FileSets
        /\ Innermost = machines[k] /\ Code = files[Innermost.file] /\ Innermost.file \in DOMAIN files
        /\ Statement = Code[Innermost.pc]
    BY InnermostIs, MainIsKnown DEF Chained, Statement
  <1> HIDE DEF k
  <1>2. ASSUME NEW i \in 1..k PROVE Room(i) \in 1..StackDepth /\ Room(i) - 1 = StackDepth - i
    BY <1>1
  <1> HIDE DEF Room
  <1>3. Says(k)
    <2>1. k \in 1..k
      BY <1>1
    <2>2. "never" \in Names(Executed(files[Innermost.file][Innermost.pc], Orders[Room(k) - 1]))
      BY <1>1, <1>2, <2>1 DEF k
    <2> QED BY <1>1, <1>2, <2>1, <2>2, NamesCarried
  <1>4. ASSUME NEW i \in 1..k - 1, Says(i + 1) PROVE Says(i)
    <2> DEFINE m == machines[i]
               callee == machines[i + 1]
    <2>1. i \in 1..k /\ i + 1 \in 1..k /\ Room(i + 1) = Room(i) - 1
      BY <1>1 DEF Room
    <2>2. Calls(m, callee) /\ m \in Machines /\ callee \in Machines
      BY <2>1 DEF Chained, k
    <2>3. /\ m.file \in DOMAIN files /\ callee.file \in DOMAIN files \ Broken
          /\ m.pc - 1 \in Imports(files[m.file]) /\ files[m.file][m.pc - 1].name = callee.file
      BY <2>2 DEF Machines, Known, Calls
    <2> HIDE DEF m, callee
    <2>4. m.pc - 1 \in 1..Len(files[m.file]) /\ files[m.file][m.pc - 1].op = "import"
      BY <1>1, <2>3, ImportsAre
    <2>5. Executed(files[m.file][m.pc - 1], Orders[Room(i) - 1]) = Orders[Room(i + 1)][callee.file]
      BY <2>1, <2>3, <2>4 DEF Executed
    <2>6. "never" \in Names(Executed(files[m.file][m.pc - 1], Orders[Room(i) - 1]))
      BY <1>4, <2>5 DEF callee
    <2>7. Room(i) \in 1..StackDepth
      BY <1>2, <2>1
    <2> DEFINE c == m.pc - 1
    <2>8. c \in 1..Len(files[m.file]) /\ "never" \in Names(Executed(files[m.file][c], Orders[Room(i) - 1]))
      BY <2>4, <2>6
    <2> HIDE DEF c
    <2>9. "never" \in Names(Orders[Room(i)][m.file])
      BY <1>1, <2>3, <2>7, <2>8, NamesCarried
    <2> QED BY <2>9 DEF m
  <1> HIDE DEF Says
  <1>5. ASSUME T # {} PROVE FALSE
    <2>1. PICK j \in T : \A l \in T : j <= l
      <3>1. T \in SUBSET Nat
        BY <1>1
      <3> HIDE DEF T
      <3> QED BY <1>5, <3>1, Least
    <2>2. j # 0
      <3>1. k - 0 = k
        BY <1>1
      <3> QED BY <1>3, <2>1, <3>1
    <2>3. j - 1 \in 0..k - 1 /\ j - 1 \notin T /\ k - j \in 1..k - 1 /\ k - (j - 1) = k - j + 1
      BY <1>1, <2>1, <2>2
    <2>4. Says(k - j + 1)
      BY <2>3
    <2>5. Says(k - j)
      BY <1>4, <2>3, <2>4
    <2> QED BY <2>1, <2>5
  <1>6. k - 1 \in 0..k - 1 /\ k - (k - 1) = 1 /\ Room(1) = StackDepth
    BY <1>1 DEF Room
  <1>7. Says(1)
    BY <1>5, <1>6
  <1> QED BY <1>6, <1>7 DEF Says, Chained

(* The other ways to end each have their one cause: an import executed twice *)
(* by one machine, or, where the C stack has room for every file, a chain of *)
(* files that comes back to one of them (vm.c:567, vm.c:580, vm.c:585).      *)
THEOREM FailuresHaveCauses == Spec => []FailsForCause
  <1>1. ASSUME Chained, OnCourse, Ended PROVE FailsForCause
    <2> DEFINE k == Len(machines)
               pc == Innermost.pc
    <2>1. /\ k \in Nat \ {0} /\ k \in 1..StackDepth /\ StackDepth \in Nat /\ files \in FileSets
          /\ Innermost = machines[k] /\ Innermost.file \in DOMAIN files /\ Code = files[Innermost.file]
          /\ Innermost.memory \in [Imports(Code) -> Contents] /\ Len(Code) \in Nat /\ pc \in 1..Len(Code) + 1
          /\ Imports(Code) = {i \in 1..Len(Code) : Code[i].op = "import"}
          /\ Statement = Code[pc] /\ Cell = Innermost.memory[pc] /\ Sound(Innermost, modules)
      BY <1>1, InnermostIs, MainIsKnown DEF Chained, Statement, Cell
    <2>2. status \notin {"running", "halted"} => pc \in Imports(Code) /\ status = ImportEnds
      BY <1>1, <2>1 DEF Ended, AtEnd
    <2>3. ASSUME status = "aborted" PROVE Loops(Innermost.file)
      <3>1. pc \in Imports(Code) /\ Cell.type # "string"
        BY <2>2, <2>3 DEF ImportEnds
      <3>2. IsDone(Innermost, pc)
        BY <2>1, <3>1 DEF IsDone, Contents
      <3>3. Course(Innermost)
        BY <1>1, <2>1 DEF OnCourse
      <3>4. Repeats(Code, pc)
        BY <2>1, <3>1, <3>2, <3>3 DEF Course
      <3> QED BY <2>1, <3>1, <3>4 DEF Loops
    <2>4. ASSUME status = "overflowed", Cardinality(DOMAIN files \ Broken) < StackDepth
          PROVE  \E i, j \in DOMAIN machines : i < j /\ machines[i].file = machines[j].file
      <3> DEFINE S == 1..k
                 f == [i \in S |-> machines[i].file]
      <3>1. k = StackDepth
        BY <2>2, <2>4 DEF ImportEnds
      <3>2. IsFiniteSet(S) /\ Cardinality(S) = StackDepth
        BY <2>1, <3>1, FS_Interval
      <3>3. IsFiniteSet(Known)
        <4>1. IsFiniteSet(DOMAIN files)
          BY <2>1, ModulesAssumption, Zenon
        <4> QED BY <4>1, FS_Subset DEF Known
      <3>4. f \in [S -> Known]
        <4>1. \A i \in 1..k : machines[i] \in Machines
          BY <1>1 DEF Chained
        <4>2. \A m \in Machines : m.file \in Known
          BY DEF Machines
        <4> QED BY <4>1, <4>2
      <3>5. Cardinality(Known) < Cardinality(S)
        BY <2>4, <3>2 DEF Known
      <3>6. DOMAIN machines = S /\ S \subseteq Nat
        BY <1>1, InnermostIs
      <3>7. \A i \in S : f[i] = machines[i].file
        OBVIOUS
      <3> HIDE DEF f, S
      <3>8. PICK x, y \in S : x # y /\ f[x] = f[y]
        BY <3>2, <3>3, <3>4, <3>5, FS_PigeonHole
      <3>9. (x < y \/ y < x) /\ machines[x].file = machines[y].file
        BY <3>6, <3>7, <3>8
      <3> QED BY <3>6, <3>9
    <2>5. ASSUME status \notin {"running", "halted"}
          PROVE  "never" \in Names(Orders[StackDepth][Main]) \/ \E name \in DOMAIN files : Loops(name)
      <3>1. CASE status = "aborted"
        BY <2>1, <2>3, <3>1
      <3>2. CASE status # "aborted"
        <4> DEFINE executed == Executed(Statement, Orders[StackDepth - k])
        <4>1. pc \in 1..Len(Code) /\ Statement.op = "import" /\ status = ImportEnds /\ Cell.type = "string"
          BY <2>1, <2>2, <2>5, <3>2 DEF ImportEnds
        <4>2. Opened = Statement.name
          BY <2>1, <4>1 DEF Sound, Opened
        <4>3. executed = << "never" >>
          <5>1. CASE Opened \notin DOMAIN files \ Broken
            BY <4>1, <4>2, <5>1 DEF Executed
          <5>2. CASE Opened \in DOMAIN files \ Broken
            <6>1. k = StackDepth
              BY <2>5, <4>1, <5>2 DEF ImportEnds
            <6>2. StackDepth - k = 0
              BY <2>1, <6>1
            <6>3. Orders[0][Opened] = << "never" >>
              BY <2>1, <5>2, OrdersAre
            <6> QED BY <4>1, <4>2, <5>2, <6>2, <6>3 DEF Executed
          <5> QED BY <5>1, <5>2
        <4> HIDE DEF executed
        <4>4. "never" \in Names(executed)
          BY <4>3 DEF Names
        <4> QED BY <1>1, <4>1, <4>4, NeverReached DEF executed
      <3> QED BY <3>1, <3>2
    <2> QED BY <2>3, <2>4, <2>5 DEF FailsForCause
  <1> QED BY <1>1, CourseInvariant, PTL
-------------------------------------------------------------------------------
(* The end of every program: what is left to do.                             *)
LEMMA JumpsAre ==
  ASSUME files \in FileSets, NEW m, m.file \in DOMAIN files
  PROVE  /\ IsFiniteSet(JumpsLeft(m)) /\ Cardinality(JumpsLeft(m)) \in Nat /\ Len(files[m.file]) \in Nat
         /\ m.pc \in 1..Len(files[m.file]) + 1 => WorkLeft(m) \in Nat
  <1> DEFINE l == Len(files[m.file])
             c == Cardinality(JumpsLeft(m))
  <1>1. l \in Nat /\ DOMAIN files[m.file] = 1..l
    BY FilesAre
  <1>2. IsFiniteSet(1..l) /\ JumpsLeft(m) \subseteq 1..l
    BY <1>1, FS_Interval DEF JumpsLeft
  <1>3. IsFiniteSet(JumpsLeft(m)) /\ c \in Nat
    BY <1>2, FS_Subset, FS_CardinalityType
  <1>4. WorkLeft(m) = c * l + l + 1 - m.pc
    BY DEF WorkLeft
  <1> HIDE DEF l, c
  <1>5. c * l \in Nat
    BY <1>1, <1>3
  <1>6. m.pc \in 1..l + 1 => c * l + l + 1 - m.pc \in Nat
    BY <1>1, <1>5
  <1> QED BY <1>1, <1>3, <1>4, <1>6 DEF l, c

(* How many machines there can be, and what they have left.                  *)
Agendas(n) == {c \in Seq(Nat) : Len(c) <= n}

LEMMA AgendaIs ==
  ASSUME Chained
  PROVE  /\ Agenda \in Agendas(StackDepth) /\ DOMAIN Agenda = 1..Len(machines)
         /\ \A i \in 1..Len(machines) : Agenda[i] = WorkLeft(machines[i])
  <1>1. Len(machines) \in Nat /\ DOMAIN machines = 1..Len(machines) /\ Len(machines) <= StackDepth
    BY InnermostIs, MainIsKnown DEF Chained
  <1>2. ASSUME NEW i \in 1..Len(machines) PROVE WorkLeft(machines[i]) \in Nat
    <2>1. machines[i] \in Machines /\ Sound(machines[i], modules) /\ files \in FileSets
      BY DEF Chained
    <2>2. machines[i].file \in DOMAIN files /\ machines[i].pc \in Nat \ {0}
      BY <2>1 DEF Machines, Known
    <2>3. Len(files[machines[i].file]) \in Nat /\ machines[i].pc <= Len(files[machines[i].file]) + 1
      BY <2>1, <2>2, FilesAre DEF Sound
    <2> QED BY <2>1, <2>2, <2>3, JumpsAre
  <1>3. Agenda = [i \in 1..Len(machines) |-> WorkLeft(machines[i])]
    BY <1>1 DEF Agenda
  <1>4. Agenda \in Seq(Nat) /\ Len(Agenda) = Len(machines)
    BY <1>1, <1>2, <1>3, IsASeq
  <1> QED BY <1>1, <1>3, <1>4 DEF Agendas

(* A machine that goes on has less left; a jump it takes back is paid for    *)
(* with the code once more that it then no longer has.                       *)
LEMMA AdvancesLess ==
  ASSUME files \in FileSets, NEW m, NEW n, m.file \in DOMAIN files, n.file = m.file, n.jumped = m.jumped,
         m.pc \in Nat, n.pc \in Nat, m.pc < n.pc
  PROVE  WorkLeft(n) < WorkLeft(m)
  <1> DEFINE l == Len(files[m.file])
             c == Cardinality(JumpsLeft(m))
  <1>1. l \in Nat /\ c \in Nat
    BY JumpsAre
  <1>2. JumpsLeft(n) = JumpsLeft(m)
    BY DEF JumpsLeft
  <1>3. WorkLeft(m) = c * l + l + 1 - m.pc /\ WorkLeft(n) = c * l + l + 1 - n.pc
    BY <1>1, <1>2 DEF WorkLeft
  <1> HIDE DEF l, c
  <1>4. c * l \in Nat
    BY <1>1
  <1> QED BY <1>1, <1>3, <1>4

LEMMA JumpsBackLess ==
  ASSUME files \in FileSets, NEW m, NEW n, m.file \in DOMAIN files, n.file = m.file,
         m.pc \in 1..Len(files[m.file]), files[m.file][m.pc].op = "jump", m.pc \notin m.jumped,
         n.jumped = m.jumped \cup {m.pc}, n.pc \in 1..m.pc
  PROVE  WorkLeft(n) < WorkLeft(m)
  <1> DEFINE l == Len(files[m.file])
             c == Cardinality(JumpsLeft(m))
             d == Cardinality(JumpsLeft(n))
  <1>1. l \in Nat /\ c \in Nat /\ d \in Nat /\ IsFiniteSet(JumpsLeft(m))
    BY JumpsAre
  <1>2. m.pc \in JumpsLeft(m) /\ JumpsLeft(n) = JumpsLeft(m) \ {m.pc}
    BY FilesAre DEF JumpsLeft
  <1>3. c = d + 1
    <2>1. Cardinality(JumpsLeft(m) \ {m.pc}) = c - 1
      BY <1>1, <1>2, FS_RemoveElement
    <2> QED BY <1>1, <1>2, <2>1
  <1>4. WorkLeft(m) = c * l + l + 1 - m.pc /\ WorkLeft(n) = d * l + l + 1 - n.pc
    BY DEF WorkLeft
  <1>5. m.pc \in 1..l /\ n.pc \in 1..m.pc
    OBVIOUS
  <1> HIDE DEF l, c, d
  <1> DEFINE x == c * l
             y == d * l
  <1>6. x = y + l /\ y \in Nat
    BY <1>1, <1>3
  <1> DEFINE here  == m.pc
             there == n.pc
  <1>7. WorkLeft(m) = x + l + 1 - here /\ WorkLeft(n) = y + l + 1 - there
    BY <1>4
  <1>8. here \in 1..l /\ there \in 1..here
    BY <1>5
  <1> HIDE DEF x, y, here, there
  <1>9. y + l + 1 - there < x + l + 1 - here
    BY <1>1, <1>6, <1>8
  <1> QED BY <1>7, <1>9

(* Where the first machine that changes has less left.                       *)
LEMMA LowersAt ==
  ASSUME Chained, Chained', files' = files, NEW k \in 1..Len(machines),
         \A j \in 1..k - 1 : j \in 1..Len(machines') /\ WorkLeft(machines'[j]) = WorkLeft(machines[j]),
         k \in 1..Len(machines') => WorkLeft(machines'[k]) < WorkLeft(machines[k])
  PROVE  Lower(Agenda', Agenda)
  <1>1. DOMAIN Agenda = 1..Len(machines) /\ \A i \in 1..Len(machines) : Agenda[i] = WorkLeft(machines[i])
    BY AgendaIs
  <1>2. (DOMAIN Agenda = 1..Len(machines) /\ \A i \in 1..Len(machines) : Agenda[i] = WorkLeft(machines[i]))'
    BY AgendaIs, PTL
  <1>3. \A m : WorkLeft(m)' = WorkLeft(m)
    BY DEF WorkLeft, JumpsLeft
  <1>4. DOMAIN Agenda' = 1..Len(machines') /\ \A i \in 1..Len(machines') : Agenda'[i] = WorkLeft(machines'[i])
    BY <1>2, <1>3 DEF WorkLeft, JumpsLeft
  <1>5. Len(machines) \in Nat
    BY InnermostIs
  <1>6. \A j \in 1..k - 1 : j \in 1..Len(machines)
    BY <1>5
  <1> QED BY <1>1, <1>4, <1>6 DEF Lower

LEMMA StepLowers ==
  ASSUME Chained, Next
  PROVE  status = "running" /\ (status' = "running" => Lower(Agenda', Agenda))
  <1> DEFINE k == Len(machines)
  <1>1. status = "running"
    BY DEF Next, Work, Jump, Import, Imported, Halt, Fail, Executes, Running
  <1>2. Chained'
    BY ChainStep
  <1>3. k \in Nat \ {0} /\ k \in 1..k /\ Innermost = machines[k] /\ files \in FileSets /\ Innermost.file \in DOMAIN files
        /\ Code = files[Innermost.file]
    BY InnermostIs DEF Chained
  <1>4. ASSUME Work \/ Jump PROVE Lower(Agenda', Agenda)
    <2> DEFINE m == machines'[k]
    <2>1. Moved(m) /\ Innermost.pc \in 1..Len(Code) /\ files' = files /\ Len(machines') = k
          /\ \A i \in 1..k - 1 : machines'[i] = machines[i]
      BY <1>4, Moves
    <2>2. Statement.op = "jump" => Statement.place \in 1..Len(Code) + 1
      BY <1>4, Moves
    <2>3. Statement = files[Innermost.file][Innermost.pc]
      BY <1>3 DEF Statement
    <2>4. WorkLeft(m) < WorkLeft(Innermost)
      <3> HIDE DEF m
      <3>1. CASE Innermost.pc < m.pc /\ m.jumped = Innermost.jumped
        <4>1. m.pc \in Nat /\ Innermost.pc \in Nat
          BY <2>1 DEF Moved, Machines
        <4> QED BY <1>3, <2>1, <3>1, <4>1, AdvancesLess DEF Moved
      <3>2. CASE Statement.op = "jump" /\ Innermost.pc \notin Innermost.jumped /\ m.pc = Statement.place
                 /\ m.pc <= Innermost.pc /\ m.jumped = Innermost.jumped \cup {Innermost.pc}
        <4>1. m.pc \in 1..Innermost.pc
          BY <1>3, <2>1, <2>2, <3>2, InnermostIs
        <4> QED BY <1>3, <2>1, <2>3, <3>2, <4>1, JumpsBackLess DEF Moved
      <3> QED BY <2>1, <3>1, <3>2 DEF Moved
    <2>5. \A j \in 1..k - 1 : j \in 1..k /\ WorkLeft(machines'[j]) = WorkLeft(machines[j])
      BY <1>3, <2>1
    <2> QED BY <1>2, <1>3, <2>1, <2>4, <2>5, LowersAt
  <1>5. ASSUME Import PROVE Lower(Agenda', Agenda)
    <2> DEFINE m == machines'[k]
    <2>1. /\ files' = files /\ Innermost.pc \in Imports(Code) /\ Len(machines') = k + 1
          /\ \A i \in 1..k - 1 : machines'[i] = machines[i]
          /\ m.file = Innermost.file /\ m.pc = Innermost.pc + 1 /\ m.jumped = Innermost.jumped
      BY <1>5, Opens
    <2>2. Innermost.pc \in Nat
      BY <2>1, InnermostIs
    <2>3. WorkLeft(m) < WorkLeft(Innermost)
      <3> HIDE DEF m
      <3>1. m.pc \in Nat /\ Innermost.pc < m.pc
        BY <2>1, <2>2
      <3> QED BY <1>3, <2>1, <2>2, <3>1, AdvancesLess
    <2>4. \A j \in 1..k - 1 : j \in 1..k + 1 /\ WorkLeft(machines'[j]) = WorkLeft(machines[j])
      BY <1>3, <2>1
    <2> QED BY <1>2, <1>3, <2>1, <2>3, <2>4, LowersAt
  <1>6. ASSUME Imported PROVE Lower(Agenda', Agenda)
    <2> DEFINE m == machines'[k - 1]
    <2>1. /\ files' = files /\ k > 1 /\ Len(machines') = k - 1 /\ \A i \in 1..k - 2 : machines'[i] = machines[i]
          /\ m.file = machines[k - 1].file /\ m.pc = machines[k - 1].pc /\ m.jumped = machines[k - 1].jumped
      BY <1>6, Returns
    <2>2. WorkLeft(m) = WorkLeft(machines[k - 1])
      <3> HIDE DEF m
      <3> QED BY <2>1 DEF WorkLeft, JumpsLeft
    <2>3. ASSUME NEW j \in 1..k - 1 PROVE j \in 1..k - 1 /\ WorkLeft(machines'[j]) = WorkLeft(machines[j])
      <3>1. j = k - 1 \/ j \in 1..k - 2
        BY <1>3
      <3> QED BY <2>1, <2>2, <3>1
    <2>4. ~ (k \in 1..k - 1)
      BY <1>3
    <2> QED BY <1>2, <1>3, <2>1, <2>3, <2>4, LowersAt
  <1>7. ASSUME Halt \/ Fail PROVE status' # "running"
    BY <1>7 DEF Halt, Fail
  <1> HIDE DEF k
  <1> QED BY <1>1, <1>4, <1>5, <1>6, <1>7 DEF Next

(* Every step of a program, its imports' included, leaves less to do, and a  *)
(* program that has ended takes none (vm.c:590).                             *)
THEOREM ProgramsNearTheirEnd == Spec => NearsItsEnd
  <1>1. Chained /\ [Next]_vars => [status = "running" /\ (status' = "running" => Lower(Agenda', Agenda))]_vars
    BY StepLowers
  <1> QED BY <1>1, ChainInvariant, PTL DEF Spec, NearsItsEnd
-------------------------------------------------------------------------------
(* Some agenda of each set of them has none of the set below it: the first    *)
(* machine with the least left, then, among those, the second, as often as    *)
(* there can be machines.                                                    *)
HasLowest(T) == \E c \in T : \A d \in T : ~ Lower(d, c)

LEMMA EmptyIsLowest ==
  ASSUME NEW T, NEW c \in T, c \in Seq(Nat), Len(c) = 0
  PROVE  HasLowest(T)
  <1>1. DOMAIN c = {}
    BY LenProperties
  <1> QED BY <1>1 DEF HasLowest, Lower

(* The order of words: by the first, then by the rest.                       *)
LEMMA LowerByFirst ==
  ASSUME NEW l \in Nat \ {0}, NEW m \in Nat \ {0}, NEW c, NEW d, NEW t, NEW u,
         DOMAIN c = 1..l, DOMAIN t = 1..l - 1, \A j \in 1..l - 1 : t[j] = c[j + 1],
         DOMAIN d = 1..m, DOMAIN u = 1..m - 1, \A j \in 1..m - 1 : u[j] = d[j + 1],
         Lower(d, c)
  PROVE  d[1] < c[1] \/ (d[1] = c[1] /\ Lower(u, t))
  <1>1. PICK i \in 1..l : (\A j \in 1..i - 1 : j \in 1..m /\ d[j] = c[j]) /\ (i \in 1..m => d[i] < c[i])
    BY Zenon DEF Lower
  <1>2. CASE i = 1
    <2>1. i \in 1..m
      BY <1>2
    <2> QED BY <1>1, <1>2, <2>1
  <1>3. CASE i # 1
    <2> DEFINE k == i - 1
    <2>1. 1 \in 1..i - 1 /\ k \in 1..l - 1 /\ k + 1 = i
      BY <1>3
    <2>2. d[1] = c[1]
      BY <1>1, <2>1
    <2>3. ASSUME NEW j \in 1..k - 1 PROVE j \in 1..m - 1 /\ u[j] = t[j]
      <3>1. j + 1 \in 1..i - 1 /\ j \in 1..l - 1
        OBVIOUS
      <3>2. j + 1 \in 1..m /\ d[j + 1] = c[j + 1]
        BY <1>1, <3>1
      <3>3. j \in 1..m - 1
        BY <3>2
      <3> QED BY <3>1, <3>2, <3>3
    <2>4. ASSUME k \in 1..m - 1 PROVE u[k] < t[k]
      <3>1. i \in 1..m
        BY <2>1, <2>4
      <3>2. u[k] = d[i] /\ t[k] = c[i]
        BY <2>1, <2>4
      <3>3. d[i] < c[i]
        BY <1>1, <3>1
      <3> HIDE DEF k
      <3> QED BY <3>2, <3>3
    <2> HIDE DEF k
    <2>5. Lower(u, t)
      BY <2>1, <2>3, <2>4, Zenon DEF Lower
    <2> QED BY <2>2, <2>5
  <1> QED BY <1>2, <1>3

LEMMA LowestOfLonger ==
  ASSUME NEW n \in Nat, \A T \in SUBSET Agendas(n) : T # {} => HasLowest(T)
  PROVE  \A T \in SUBSET Agendas(n + 1) : T # {} => HasLowest(T)
  <1> SUFFICES ASSUME NEW T \in SUBSET Agendas(n + 1), T # {}, \A c \in T : Len(c) # 0
               PROVE  HasLowest(T)
    BY EmptyIsLowest DEF Agendas
  <1> DEFINE tail(c) == Tail(c)
             size(c) == Len(c)
  <1>1. ASSUME NEW c \in T
        PROVE  /\ DOMAIN c = 1..size(c) /\ size(c) \in Nat \ {0} /\ size(c) <= n + 1 /\ 1 \in DOMAIN c /\ c[1] \in Nat
               /\ tail(c) \in Agendas(n) /\ DOMAIN tail(c) = 1..size(c) - 1
               /\ \A j \in 1..size(c) - 1 : tail(c)[j] = c[j + 1]
    <2>1. c \in Seq(Nat) /\ Len(c) <= n + 1 /\ c # <<>>
      BY DEF Agendas
    <2>2. DOMAIN c = 1..Len(c) /\ Len(c) \in Nat \ {0}
      BY <2>1, LenProperties
    <2>3. c[1] \in Nat /\ 1 \in DOMAIN c
      BY <2>1, <2>2
    <2>4. /\ Tail(c) \in Seq(Nat) /\ Len(Tail(c)) = Len(c) - 1
          /\ \A j \in 1..Len(c) - 1 : Tail(c)[j] = c[j + 1]
      BY <2>1, <2>2, HeadTailProperties
    <2>5. DOMAIN Tail(c) = 1..Len(c) - 1
      BY <2>4, LenProperties
    <2> QED BY <2>1, <2>2, <2>3, <2>4, <2>5 DEF Agendas
  <1> HIDE DEF tail, size
  <1> DEFINE Firsts == {c[1] : c \in T}
  <1>2. PICK a \in Firsts : \A b \in Firsts : a <= b
    <2>1. Firsts \in SUBSET Nat /\ Firsts # {}
      BY <1>1
    <2> HIDE DEF Firsts
    <2> QED BY <2>1, Least
  <1> DEFINE Rest == {tail(e) : e \in {d \in T : d[1] = a}}
  <1>3. PICK t \in Rest : \A u \in Rest : ~ Lower(u, t)
    <2>1. Rest \in SUBSET Agendas(n) /\ Rest # {}
      BY <1>1, <1>2
    <2> HIDE DEF Rest
    <2> QED BY <2>1 DEF HasLowest
  <1>4. PICK c \in T : c[1] = a /\ t = tail(c)
    BY <1>3
  <1>5. ASSUME NEW d \in T, Lower(d, c) PROVE FALSE
    <2> DEFINE l == size(c)
               m == size(d)
               u == tail(d)
    <2>1. /\ l \in Nat \ {0} /\ DOMAIN c = 1..l /\ c[1] \in Nat
          /\ DOMAIN t = 1..l - 1 /\ \A j \in 1..l - 1 : t[j] = c[j + 1]
      BY <1>1, <1>4
    <2>2. /\ m \in Nat \ {0} /\ DOMAIN d = 1..m /\ d[1] \in Nat
          /\ DOMAIN u = 1..m - 1 /\ \A j \in 1..m - 1 : u[j] = d[j + 1]
      BY <1>1
    <2>3. a <= d[1] /\ c[1] = a
      BY <1>2, <1>4
    <2>4. d[1] = a => ~ Lower(u, t)
      BY <1>3
    <2> HIDE DEF l, m, u, Firsts, Rest
    <2>5. d[1] < c[1] \/ (d[1] = c[1] /\ Lower(u, t))
      BY <1>5, <2>1, <2>2, LowerByFirst
    <2> QED BY <2>1, <2>2, <2>3, <2>4, <2>5
  <1> QED BY <1>5 DEF HasLowest

LEMMA SomeIsLowest ==
  ASSUME NEW n \in Nat
  PROVE  \A T \in SUBSET Agendas(n) : T # {} => HasLowest(T)
  <1> DEFINE Has(k) == \A T \in SUBSET Agendas(k) : T # {} => HasLowest(T)
             U == {k \in Nat : ~ Has(k)}
  <1>1. Has(0)
    <2> SUFFICES ASSUME NEW T \in SUBSET Agendas(0), NEW c \in T PROVE HasLowest(T)
      OBVIOUS
    <2>1. c \in Seq(Nat) /\ Len(c) <= 0
      BY DEF Agendas
    <2>2. Len(c) = 0
      BY <2>1, LenProperties
    <2> QED BY <2>1, <2>2, EmptyIsLowest
  <1>2. ASSUME NEW k \in Nat, Has(k) PROVE Has(k + 1)
    BY <1>2, LowestOfLonger
  <1> HIDE DEF Has
  <1>3. ASSUME U # {} PROVE FALSE
    <2>1. PICK k \in U : \A m \in U : k <= m
      <3> HIDE DEF U
      <3>1. U \in SUBSET Nat
        BY DEF U
      <3> QED BY <1>3, <3>1, Least
    <2>2. k # 0
      BY <1>1, <2>1
    <2>3. k - 1 \in Nat /\ k - 1 \notin U /\ (k - 1) + 1 = k
      BY <2>1, <2>2
    <2>4. Has(k - 1)
      BY <2>3
    <2>5. Has(k)
      <3> DEFINE j == k - 1
      <3>1. j \in Nat /\ Has(j) /\ j + 1 = k
        BY <2>3, <2>4
      <3> HIDE DEF j
      <3> QED BY <1>2, <3>1
    <2> QED BY <2>1, <2>5
  <1> QED BY <1>3 DEF Has

(* And this comes to an end: no run of the machines, however files import     *)
(* each other, goes on leaving less to do for ever.  With the fairness of     *)
(* vm_execute's loop it is why programs terminate.                           *)
THEOREM NoEndlessRun ==
  /\ Spec => [](Agenda \in Agendas(StackDepth))
  /\ \A run \in [Nat -> Agendas(StackDepth)] : \E n \in Nat : ~ Lower(run[n + 1], run[n])
  <1>1. Spec => [](Agenda \in Agendas(StackDepth))
    <2>1. Chained => Agenda \in Agendas(StackDepth)
      BY AgendaIs
    <2> QED BY <2>1, ChainInvariant, PTL
  <1>2. ASSUME NEW run \in [Nat -> Agendas(StackDepth)] PROVE \E n \in Nat : ~ Lower(run[n + 1], run[n])
    <2> DEFINE T == {run[n] : n \in Nat}
    <2>1. T \in SUBSET Agendas(StackDepth) /\ T # {}
      OBVIOUS
    <2>2. StackDepth \in Nat
      BY ModulesAssumption
    <2> HIDE DEF T
    <2>3. PICK c \in T : \A d \in T : ~ Lower(d, c)
      BY <2>1, <2>2, SomeIsLowest DEF HasLowest
    <2>4. PICK n \in Nat : c = run[n]
      BY <2>3 DEF T
    <2>5. run[n + 1] \in T
      BY DEF T
    <2> QED BY <2>3, <2>4, <2>5
  <1> QED BY <1>1, <1>2
===============================================================================
