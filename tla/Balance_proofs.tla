----------------------------- MODULE Balance_proofs -----------------------------
(***************************************************************************)
(* Proofs about balanced programs, for every set of well-formed binaries:    *)
(* wherever one is, whatever it called, its stack is as deep as its text     *)
(* says.                                                                     *)
(*                                                                           *)
(* BInv is the inductive invariant, next to the machine's IInv.  The depth   *)
(* alone is not inductive: how many arguments a builtin pops and how far a   *)
(* jump goes is read from registers, so what the text says of them has to    *)
(* hold of the registers (Held), and what a call leads to is read from       *)
(* memory, which has to be what was loaded (DataKept).                       *)
(***************************************************************************)
EXTENDS Balance, VM_proofs, Iteration

(* The memory a balanced program loaded is never changed, nor its texts.     *)
DataKept ==
  LET b == Binaries[program]
  IN  /\ memory = b.data
      /\ \A s \in DOMAIN b.strings : s \in DOMAIN strings /\ strings[s] = b.strings[s]

(* Between a load and the use that counts on it, the register holds what was *)
(* loaded.                                                                   *)
Held ==
  \A k \in DOMAIN Block : \A j \in 1..k - 1 :
    Loads(Block, j, k, Block[j].a) /\ NotEntered(Block, j, k) /\ pc \in j..k - 1
      => registers[Block[j].a] = Int32(Block[j].b)

(* A function is left by a return only, never at its end.                    *)
InText == pc \in 0..Len(Block) /\ (region > 0 => pc < Len(Block))

Here == [region |-> region, offset |-> pc]
Counted == sp = Bottom + Depth(Here) /\ 0..sp - 1 \subseteq DOMAIN stack

Steady ==
  /\ DataKept /\ Held /\ InText /\ Counted
  /\ status = "halted" => ~Fetchable

BInv == (frame.kind = "none" => callStack = <<>>) /\ (IsBalanced => Steady)
-------------------------------------------------------------------------------
(* What a balanced text guarantees.                                          *)

Counts(b, text, d) ==
  /\ d \in [0..Len(text) -> Int] /\ d[0] = 0
  /\ \A k \in DOMAIN text : /\ Takes(b, text, k) \in Nat
                            /\ d[k] = d[k - 1] - Takes(b, text, k) + Gives(text[k])

(* An instruction of a balanced region pops a natural number of values.      *)
LEMMA TakesNat ==
  ASSUME NEW b, NEW text \in Seq(Instructions), NEW k \in DOMAIN text,
         text[k].op = "CALL_DYNAMIC" => CallsBuiltin(b, text, k)
  PROVE  Takes(b, text, k) \in Nat
  <1>1. CASE text[k].op = "CALL_DYNAMIC"
    <2>1. k - 1 \in DOMAIN text /\ text[k - 1] \in Instructions /\ text[k - 1].b >= 0
      BY <1>1 DEF CallsBuiltin
    <2>2. Count(text, k) \in Nat
      BY <2>1 DEF Count, Instructions
    <2> QED BY <1>1, <2>2 DEF Takes
  <1>2. CASE text[k].op # "CALL_DYNAMIC"
    BY <1>2 DEF Takes
  <1> QED BY <1>1, <1>2

(* The depths of a balanced region are numbers, each made of the one before. *)
LEMMA DepthsCount ==
  ASSUME NEW b, NEW text \in Seq(Instructions),
         \A k \in DOMAIN text : text[k].op = "CALL_DYNAMIC" => CallsBuiltin(b, text, k)
  PROVE  Counts(b, text, Depths(b, text))
  <1> DEFINE n == Len(text)
             step == [k \in 1..n |-> [x \in Int |-> x - Takes(b, text, k) + Gives(text[k])]]
             Rule(d) == d = [k \in 0..n |-> IF k = 0 THEN 0
                                            ELSE d[k - 1] - Takes(b, text, k) + Gives(text[k])]
  <1>1. \A k \in 1..n : Takes(b, text, k) \in Nat /\ Gives(text[k]) \in Nat
    BY TakesNat DEF Gives
  <1>2. n \in Nat /\ DOMAIN text = 1..n /\ 0 \in Int /\ step \in Steps(Int, n)
    BY <1>1 DEF Steps
  <1>3. \A k \in 1..n : \A x \in Int : step[k][x] = x - Takes(b, text, k) + Gives(text[k])
    OBVIOUS
  <1>4. Depths(b, text) = CHOOSE d : Rule(d)
    BY DEF Depths
  <1> HIDE DEF step, n
  <1>5. PICK f : IsIteration(f, Int, n, 0, step)
    BY <1>2, SomeIterates
  <1>6. Rule(f)
    <2>1. f \in [0..n -> Int] /\ f[0] = 0 /\ \A k \in 1..n : f[k] = step[k][f[k - 1]]
      BY <1>5 DEF IsIteration
    <2>2. \A k \in 1..n : k - 1 \in 0..n
      BY <1>2
    <2>3. \A k \in 1..n : f[k] = f[k - 1] - Takes(b, text, k) + Gives(text[k])
      BY <1>3, <2>1, <2>2
    <2>4. ASSUME NEW k \in 0..n
          PROVE  f[k] = IF k = 0 THEN 0 ELSE f[k - 1] - Takes(b, text, k) + Gives(text[k])
      <3>1. k = 0 \/ k \in 1..n
        BY <1>2
      <3> QED BY <2>1, <2>3, <3>1
    <2> QED BY <2>1, <2>4
  <1>7. PICK d : d = Depths(b, text)
    OBVIOUS
  <1>8. Rule(d)
    <2> HIDE DEF Rule
    <2> QED BY <1>4, <1>6, <1>7
  <1>9. d = [k \in 0..n |-> d[k]] /\ d[0] = 0
        /\ \A k \in 1..n : d[k] = d[k - 1] - Takes(b, text, k) + Gives(text[k])
    BY <1>2, <1>8
  <1>10. \A k \in 1..n : d[k - 1] \in Int => d[k] = step[k][d[k - 1]]
    BY <1>3, <1>9
  <1>11. IsIteration(d, Int, n, 0, step)
    BY <1>2, <1>9, <1>10, RecursionIterates
  <1>12. d \in [0..n -> Int]
    BY <1>11 DEF IsIteration
  <1> QED BY <1>1, <1>2, <1>7, <1>9, <1>12 DEF Counts, n

(* A balanced program's regions are balanced, and DepthsOf counts them.      *)
LEMMA BalancedText ==
  ASSUME NEW p \in BalancedPrograms, NEW r \in DOMAIN Binaries[p].code
  PROVE  /\ Binaries[p].code[r] \in Seq(Instructions)
         /\ BalancedRegion(Binaries[p], r)
         /\ DepthsOf[p][r] = Depths(Binaries[p], Binaries[p].code[r])
         /\ Counts(Binaries[p], Binaries[p].code[r], DepthsOf[p][r])
  <1>1. p \in DOMAIN Binaries /\ Balanced(Binaries[p])
    BY DEF BalancedPrograms
  <1>2. Binaries[p].code \in Seq(Seq(Instructions)) /\ WellFormedBinary(Binaries[p])
    BY <1>1, MachineAssumption DEF WellFormedBinary
  <1>3. Binaries[p].code[r] \in Seq(Instructions)
    BY <1>2
  <1>4. BalancedRegion(Binaries[p], r)
    BY <1>1 DEF Balanced
  <1>5. DepthsOf[p][r] = Depths(Binaries[p], Binaries[p].code[r])
    BY DEF DepthsOf
  <1>6. \A k \in DOMAIN Binaries[p].code[r] :
          Binaries[p].code[r][k].op = "CALL_DYNAMIC"
            => CallsBuiltin(Binaries[p], Binaries[p].code[r], k)
    BY <1>4 DEF BalancedRegion
  <1> QED BY <1>3, <1>4, <1>5, <1>6, DepthsCount
-------------------------------------------------------------------------------
(* The parts of the stack.                                                   *)

Sums(depths, frames, g) ==
  /\ g \in [0..Len(frames) -> Nat] /\ g[0] = 0
  /\ \A i \in 1..Len(frames) : g[i] = g[i - 1] + Below(depths, frames[i])

AllBelow(depths, frames) == \A i \in DOMAIN frames : Below(depths, frames[i]) \in Nat

(* Where each frame's part begins is a number, made of the one before.       *)
LEMMA BottomsSum ==
  ASSUME NEW depths, NEW frames \in Seq(Frame), AllBelow(depths, frames)
  PROVE  Sums(depths, frames, Bottoms(depths, frames))
  <1> DEFINE n == Len(frames)
             step == [i \in 1..n |-> [x \in Nat |-> x + Below(depths, frames[i])]]
             Rule(g) == g = [i \in 0..n |-> IF i = 0 THEN 0 ELSE g[i - 1] + Below(depths, frames[i])]
  <1>1. DOMAIN frames = 1..n /\ \A i \in 1..n : Below(depths, frames[i]) \in Nat
    BY DEF AllBelow
  <1>2. n \in Nat /\ 0 \in Nat /\ step \in Steps(Nat, n)
    BY <1>1 DEF Steps
  <1>3. \A i \in 1..n : \A x \in Nat : step[i][x] = x + Below(depths, frames[i])
    OBVIOUS
  <1>4. Bottoms(depths, frames) = CHOOSE g : Rule(g)
    BY DEF Bottoms
  <1> HIDE DEF step, n
  <1>5. PICK f : IsIteration(f, Nat, n, 0, step)
    BY <1>2, SomeIterates
  <1>6. Rule(f)
    <2>1. f \in [0..n -> Nat] /\ f[0] = 0 /\ \A i \in 1..n : f[i] = step[i][f[i - 1]]
      BY <1>5 DEF IsIteration
    <2>2. \A i \in 1..n : i - 1 \in 0..n
      BY <1>2
    <2>3. \A i \in 1..n : f[i] = f[i - 1] + Below(depths, frames[i])
      BY <1>3, <2>1, <2>2
    <2>4. ASSUME NEW i \in 0..n
          PROVE  f[i] = IF i = 0 THEN 0 ELSE f[i - 1] + Below(depths, frames[i])
      <3>1. i = 0 \/ i \in 1..n
        BY <1>2
      <3> QED BY <2>1, <2>3, <3>1
    <2> QED BY <2>1, <2>4
  <1>7. PICK g : g = Bottoms(depths, frames)
    OBVIOUS
  <1>8. Rule(g)
    <2> HIDE DEF Rule
    <2> QED BY <1>4, <1>6, <1>7
  <1>9. g = [i \in 0..n |-> g[i]] /\ g[0] = 0
        /\ \A i \in 1..n : g[i] = g[i - 1] + Below(depths, frames[i])
    BY <1>2, <1>8
  <1>10. \A i \in 1..n : g[i - 1] \in Nat => g[i] = step[i][g[i - 1]]
    BY <1>3, <1>9
  <1>11. IsIteration(g, Nat, n, 0, step)
    BY <1>2, <1>9, <1>10, RecursionIterates
  <1>12. g \in [0..n -> Nat]
    BY <1>11 DEF IsIteration
  <1> QED BY <1>7, <1>9, <1>12 DEF Sums, n

(* A new frame's part begins where its caller's ends.                        *)
LEMMA BottomPushed ==
  ASSUME NEW depths, NEW frames \in Seq(Frame), NEW f \in Frame,
         AllBelow(depths, Append(frames, f))
  PROVE  /\ Bottoms(depths, frames)[Len(frames)] \in Nat
         /\ Bottoms(depths, Append(frames, f))[Len(Append(frames, f))]
               = Bottoms(depths, frames)[Len(frames)] + Below(depths, f)
  <1>1. PICK more, n : more = Append(frames, f) /\ n = Len(frames)
    OBVIOUS
  <1>2. /\ n \in Nat /\ more \in Seq(Frame) /\ Len(more) = n + 1
        /\ DOMAIN frames = 1..n /\ DOMAIN more = 1..n + 1 /\ more[n + 1] = f
        /\ \A i \in 1..n : more[i] = frames[i]
    BY <1>1
  <1>3. AllBelow(depths, frames) /\ AllBelow(depths, more)
    BY <1>1, <1>2 DEF AllBelow
  <1>4. PICK g, h : g = Bottoms(depths, frames) /\ h = Bottoms(depths, more)
    OBVIOUS
  <1>5. Sums(depths, frames, g) /\ Sums(depths, more, h)
    BY <1>2, <1>3, <1>4, BottomsSum
  <1>6. /\ g \in [0..n -> Nat] /\ h \in [0..n + 1 -> Nat] /\ g[0] = 0 /\ h[0] = 0
        /\ \A i \in 1..n : g[i] = g[i - 1] + Below(depths, frames[i])
        /\ \A i \in 1..n + 1 : h[i] = h[i - 1] + Below(depths, more[i])
    BY <1>1, <1>2, <1>5 DEF Sums
  <1>7. h[n] = g[n]
    <2> DEFINE T == {i \in 0..n : h[i] # g[i]}
    <2>1. ASSUME T # {} PROVE FALSE
      <3>1. PICK k \in T : \A m \in T : k <= m
        <4>1. T \in SUBSET Nat
          BY <1>2
        <4> HIDE DEF T
        <4> QED BY <2>1, <4>1, Least
      <3>2. k \in 1..n /\ k - 1 \in 0..n /\ k - 1 \notin T
        BY <1>2, <1>6, <3>1
      <3>3. h[k - 1] = g[k - 1] /\ more[k] = frames[k] /\ k \in 1..n + 1
        BY <1>2, <3>2
      <3>4. h[k] = g[k]
        BY <1>6, <3>2, <3>3
      <3> QED BY <3>1, <3>4
    <2> QED BY <1>2, <2>1
  <1>8. n + 1 \in 1..n + 1 /\ (n + 1) - 1 = n /\ g[n] \in Nat
    BY <1>2, <1>6
  <1>9. h[n + 1] = g[n] + Below(depths, f)
    BY <1>2, <1>6, <1>7, <1>8
  <1> QED BY <1>1, <1>2, <1>4, <1>8, <1>9
-------------------------------------------------------------------------------
(* What is known where a balanced program is.                                *)

(* Each region a balanced program loaded is balanced.                        *)
LEMMA RegionText ==
  ASSUME IInv, IsBalanced, NEW q \in 0..Len(code) - 1
  PROVE  /\ q + 1 \in DOMAIN code /\ code = Binaries[program].code
         /\ code[q + 1] \in Seq(Instructions)
         /\ BalancedRegion(Binaries[program], q + 1)
         /\ DepthsOf[program][q + 1] = Depths(Binaries[program], code[q + 1])
         /\ Counts(Binaries[program], code[q + 1], DepthsOf[program][q + 1])
  <1>1. code = Binaries[program].code /\ code \in Seq(Seq(Instructions)) /\ q + 1 \in DOMAIN code
    BY LoadedBinary DEF IInv, Loading
  <1>2. program \in BalancedPrograms
    BY DEF IsBalanced
  <1> QED BY <1>1, <1>2, BalancedText

(* An instruction of a balanced text, with the depth before and behind it.   *)
Fits(b, r, text, d, k) ==
  /\ Takes(b, text, k) \in Nat /\ d[k - 1] \in Nat /\ d[k - 1] >= Takes(b, text, k)
  /\ d[k] \in Nat /\ d[k] = d[k - 1] - Takes(b, text, k) + Gives(text[k])
  /\ text[k].op # "STORE"
  /\ text[k].op = "CALL" => CallsFunction(b, text[k])
  /\ text[k].op = "CALL_DYNAMIC" => CallsBuiltin(b, text, k) /\ NotEntered(text, k - 1, k)
  /\ text[k].op = "JMP" =>
       \E j \in 1..k - 1 : Loads(text, j, k, text[k].b) /\ NotEntered(text, j, k)
  /\ text[k].op = "RETURN" => r > 1 /\ d[k - 1] = 0
  /\ \A t \in Successors(text, k) :
       (t \in DOMAIN text \/ (r = 1 /\ t = Len(text) + 1)) /\ d[t - 1] = d[k]

(* Behind an instruction of a balanced region the depth is the one its       *)
(* successors begin with.                                                    *)
LEMMA RegionCounts ==
  ASSUME NEW b, NEW r \in DOMAIN b.code, BalancedRegion(b, r), NEW text, NEW d,
         text = b.code[r], d = Depths(b, text), text \in Seq(Instructions), Counts(b, text, d),
         NEW k \in DOMAIN text
  PROVE  Fits(b, r, text, d, k)
  <1>1. /\ d \in [0..Len(text) -> Int] /\ Takes(b, text, k) \in Nat
        /\ d[k] = d[k - 1] - Takes(b, text, k) + Gives(text[k])
        /\ k - 1 \in 0..Len(text) /\ k \in 0..Len(text)
    BY DEF Counts
  <1>2. /\ d[k - 1] >= Takes(b, text, k)
        /\ text[k].op # "STORE"
        /\ text[k].op = "CALL" => CallsFunction(b, text[k])
        /\ text[k].op = "CALL_DYNAMIC" => CallsBuiltin(b, text, k) /\ NotEntered(text, k - 1, k)
        /\ text[k].op = "JMP" =>
              \E j \in 1..k - 1 : Loads(text, j, k, text[k].b) /\ NotEntered(text, j, k)
        /\ text[k].op = "RETURN" => r > 1 /\ d[k - 1] = 0
        /\ \A t \in Successors(text, k) :
              (t \in DOMAIN text \/ (r = 1 /\ t = Len(text) + 1)) /\ d[t - 1] = d[k]
    BY DEF BalancedRegion
  <1>3. Gives(text[k]) \in Nat
    BY DEF Gives
  <1>4. d[k - 1] \in Int /\ d[k] \in Int
    BY <1>1
  <1>5. d[k - 1] \in Nat /\ d[k] \in Nat
    BY <1>1, <1>2, <1>3, <1>4
  <1> QED BY <1>1, <1>2, <1>5 DEF Fits

(* Behind a call there is one value more than before it.                     *)
LEMMA BelowNat ==
  ASSUME IInv, IsBalanced
  PROVE  AllBelow(DepthsOf[program], Frames) /\ Bottom \in Nat
  <1>1. ASSUME NEW i \in DOMAIN Frames PROVE Below(DepthsOf[program], Frames[i]) \in Nat
    <2>1. CASE Frames[i].kind = "call"
      <3>1. PICK q, c : q = CallerRegion(i) /\ c = Frames[i].return.offset
        OBVIOUS
      <3>2. /\ Frames[i].return.region = q /\ c \in DOMAIN code[q + 1]
            /\ code[q + 1][c].op = "CALL"
        BY <2>1, <3>1 DEF IInv, ControlOK, CallChain
      <3>3. q \in 0..Len(code) - 1
        <4>1. Frames \in Seq(Frame)
          BY FramesInUse
        <4>2. i # 1 => i - 1 \in DOMAIN Frames
          BY <4>1
        <4>3. i # 1 => FrameOK(Frames[i - 1])
          BY <4>2, FramesInUse
        <4>4. i # 1 => RegionOf(Frames[i - 1]) \in 0..Len(code) - 1
          BY <4>3, RegionExists
        <4>5. 0 \in 0..Len(code) - 1
          BY LoadedBinary DEF IInv
        <4> QED BY <3>1, <4>4, <4>5 DEF CallerRegion
      <3>4. PICK b, text, d : b = Binaries[program] /\ text = code[q + 1]
                              /\ d = DepthsOf[program][q + 1]
        OBVIOUS
      <3>5. /\ q + 1 \in DOMAIN b.code /\ BalancedRegion(b, q + 1) /\ text = b.code[q + 1]
            /\ d = Depths(b, text) /\ text \in Seq(Instructions) /\ Counts(b, text, d)
        BY <3>3, <3>4, RegionText
      <3>6. c \in DOMAIN text /\ text[c].op = "CALL"
        BY <3>2, <3>4
      <3>7. d[c - 1] \in Nat /\ d[c] = d[c - 1] - Takes(b, text, c) + Gives(text[c])
        BY <3>5, <3>6, RegionCounts DEF Fits
      <3>8. Takes(b, text, c) = 0 /\ Gives(text[c]) = 1
        BY <3>6 DEF Takes, Gives
      <3>9. d[c] - 1 \in Nat
        BY <3>7, <3>8
      <3> QED BY <2>1, <3>1, <3>2, <3>4, <3>9 DEF Below
    <2>2. CASE Frames[i].kind # "call"
      BY <2>2 DEF Below
    <2> QED BY <2>1, <2>2
  <1>2. AllBelow(DepthsOf[program], Frames)
    BY <1>1 DEF AllBelow
  <1>3. Sums(DepthsOf[program], Frames, Bottoms(DepthsOf[program], Frames))
    BY <1>2, FramesInUse, BottomsSum
  <1>4. Len(Frames) \in 0..Len(Frames)
    BY FramesInUse
  <1> QED BY <1>2, <1>3, <1>4 DEF Bottom, Sums

Taken == Takes(Binaries[program], Block, pc + 1)
Level == DepthsOf[program][region + 1]

(* Where a balanced program is about to execute an instruction, the stack    *)
(* has what it takes.                                                        *)
LEMMA AtInstruction ==
  ASSUME IInv, IsBalanced, Steady, Fetchable
  PROVE  /\ pc \in Nat /\ pc + 1 \in DOMAIN Block /\ Block \in Seq(Instructions)
         /\ Instruction \in Instructions
         /\ Bottom \in Nat /\ sp = Bottom + Level[pc] /\ 0..sp - 1 \subseteq DOMAIN stack
         /\ Taken \in Nat /\ Level[pc] \in Nat /\ Level[pc] >= Taken
         /\ Level[pc + 1] \in Nat
         /\ Level[pc + 1] = Level[pc] - Taken + Gives(Instruction)
         /\ Instruction.op # "STORE"
         /\ Instruction.op = "CALL" => CallsFunction(Binaries[program], Instruction)
         /\ Instruction.op = "CALL_DYNAMIC" =>
              CallsBuiltin(Binaries[program], Block, pc + 1) /\ NotEntered(Block, pc, pc + 1)
         /\ Instruction.op = "JMP" =>
              \E j \in 1..pc : Loads(Block, j, pc + 1, Instruction.b)
                                /\ NotEntered(Block, j, pc + 1)
         /\ Instruction.op = "RETURN" => region > 0 /\ Level[pc] = 0
         /\ \A t \in Successors(Block, pc + 1) :
              /\ t \in DOMAIN Block \/ (region = 0 /\ t = Len(Block) + 1)
              /\ Level[t - 1] = Level[pc + 1]
  <1>1. PICK b, q, r, text, d, k : /\ b = Binaries[program] /\ q = region /\ r = q + 1
                                   /\ text = Block /\ d = Level /\ k = pc + 1
    OBVIOUS
  <1>2. q \in 0..Len(code) - 1
    BY <1>1 DEF IInv, ControlOK
  <1>3. /\ r \in DOMAIN b.code /\ BalancedRegion(b, r) /\ text = b.code[r]
        /\ d = Depths(b, text) /\ text \in Seq(Instructions) /\ Counts(b, text, d)
    BY <1>1, <1>2, RegionText DEF Block, Level
  <1>4. pc \in Nat /\ k \in DOMAIN text /\ k - 1 = pc /\ text[k] = Instruction
    BY <1>1, <1>3 DEF Fetchable, Instruction
  <1>5. Fits(b, r, text, d, k)
    BY <1>3, <1>4, RegionCounts
  <1>6. sp = Bottom + d[k - 1] /\ 0..sp - 1 \subseteq DOMAIN stack
    BY <1>1, <1>4 DEF Steady, Counted, Depth, Here, Level
  <1>7. text[k] \in Instructions
    BY <1>3, <1>4
  <1>8. (r > 1 => q > 0) /\ (r = 1 => q = 0)
    BY <1>1, <1>2
  <1> QED BY <1>1, <1>3, <1>4, <1>5, <1>6, <1>7, <1>8, BelowNat DEF Fits, Taken
-------------------------------------------------------------------------------
(* Steps within a region.                                                    *)

Kept == /\ UNCHANGED <<loaded, control, memory>> /\ status = "running" /\ status' = "running"
        /\ \A s \in DOMAIN strings : s \in DOMAIN strings' /\ strings'[s] = strings[s]

(* The callers' part of the stack is not written.                            *)
Spared == \A a \in 0..Bottom - 1 : stack'[a] = stack[a]

(* What most instructions do: go on to the next with their values on the     *)
(* stack, having written no register but theirs.                             *)
Advances ==
  /\ Kept /\ Spared
  /\ Instruction.op \notin {"JMP", "RETURN", "CALL"}
  /\ pc' = pc + 1
  /\ sp' = sp - Taken + Gives(Instruction) /\ 0..sp' - 1 \subseteq DOMAIN stack'
  /\ \A r \in Registers \ Written(Instruction) : registers'[r] = registers[r]
  /\ Instruction.op = "LOADV" => registers'[Instruction.a] = Int32(Instruction.b)

(* Such a step stays in its region, behind the same calls.                   *)
LEMMA KeptData ==
  ASSUME Kept, DataKept
  PROVE  DataKept' /\ Block' = Block /\ Bottom' = Bottom /\ Level' = Level /\ region' = region
  <1>1. /\ program' = program /\ code' = code /\ memory' = memory
        /\ callStack' = callStack /\ frame' = frame /\ region' = region
    BY DEF Kept, loaded, control
  <1>2. DataKept'
    BY <1>1 DEF Kept, DataKept
  <1> QED BY <1>1, <1>2 DEF Block, Bottom, Frames, Level

(* Going on to the next instruction.                                         *)
LEMMA AdvancesStep ==
  ASSUME IInv, IsBalanced, Steady, Fetchable, Advances
  PROVE  Steady'
  <1>1. /\ DataKept' /\ Block' = Block /\ Bottom' = Bottom /\ Level' = Level
        /\ region' = region /\ pc' = pc + 1
    BY KeptData DEF Advances, Steady
  <1>2. pc + 2 \in Successors(Block, pc + 1)
    <2>1. Block[pc + 1].op \notin {"JMP", "RETURN"} /\ (pc + 1) + 1 = pc + 2
      BY AtInstruction DEF Advances, Instruction
    <2> QED BY <2>1 DEF Successors
  <1>3. /\ pc \in Nat
        /\ pc + 2 \in DOMAIN Block \/ (region = 0 /\ pc + 2 = Len(Block) + 1)
    BY <1>2, AtInstruction
  <1>4. InText'
    <2>1. Len(Block) \in Nat /\ DOMAIN Block = 1..Len(Block)
      BY AtInstruction
    <2>2. pc + 1 \in 0..Len(Block) /\ (region > 0 => pc + 1 < Len(Block))
      BY <1>3, <2>1
    <2> QED BY <1>1, <2>2 DEF InText
  <1>5. Counted'
    <2>1. sp' = Bottom + Level[pc + 1]
      <3>1. Gives(Instruction) \in Nat
        BY DEF Gives
      <3>2. /\ Bottom \in Nat /\ Taken \in Nat /\ Level[pc] \in Nat
            /\ sp = Bottom + Level[pc] /\ Level[pc + 1] = Level[pc] - Taken + Gives(Instruction)
        BY AtInstruction
      <3>3. sp' = sp - Taken + Gives(Instruction)
        BY DEF Advances
      <3> QED BY <3>1, <3>2, <3>3
    <2>2. Depth(Here)' = Level[pc + 1]
      BY <1>1 DEF Depth, Here, Level
    <2> QED BY <1>1, <2>1, <2>2 DEF Counted, Advances
  <1>6. Held'
    <2>1. SUFFICES ASSUME NEW k \in DOMAIN Block, NEW j \in 1..k - 1,
                          Loads(Block, j, k, Block[j].a), NotEntered(Block, j, k),
                          pc + 1 \in j..k - 1
                   PROVE  registers'[Block[j].a] = Int32(Block[j].b)
      BY <1>1 DEF Held
    <2>2. CASE pc + 1 = j
      BY <2>1, <2>2 DEF Loads, Advances, Instruction
    <2>3. CASE pc + 1 # j
      <3>0. Len(Block) \in Nat /\ DOMAIN Block = 1..Len(Block)
        BY AtInstruction
      <3>1. pc \in j..k - 1 /\ pc + 1 \in j + 1..k - 1 /\ j \in DOMAIN Block
        BY <1>3, <2>1, <2>3, <3>0
      <3>2. registers[Block[j].a] = Int32(Block[j].b)
        BY <2>1, <3>1 DEF Held, Steady
      <3>3. Block[j].a \notin Written(Instruction)
        BY <2>1, <3>1 DEF Loads, Instruction
      <3>4. Block[j].a \in Registers
        <4>1. WellFormedInstruction(Block[j])
          <5>1. region + 1 \in DOMAIN code
            BY LoadedBinary DEF IInv, ControlOK
          <5> QED BY <3>1, <5>1, LoadedBinary DEF IInv, Block
        <4>2. Block[j].op = "LOADV"
          BY <2>1 DEF Loads
        <4> QED BY <4>1, <4>2 DEF WellFormedInstruction, Written, Arithmetic, Logical
      <3> QED BY <3>2, <3>3, <3>4 DEF Advances
    <2> QED BY <2>2, <2>3
  <1>7. status' # "halted"
    BY DEF Advances, Kept
  <1> QED BY <1>1, <1>4, <1>5, <1>6, <1>7 DEF Steady

(* Going elsewhere: no jump leads between a load and the use that counts on  *)
(* it.                                                                       *)
LEMMA TargetStep ==
  ASSUME IInv, IsBalanced, Steady, Fetchable, NEW t \in Targets(Block, pc + 1), pc' = t - 1,
         Instruction.op \in {"JMP", "EQUAL", "LESSTHAN"},
         status = "running",
         UNCHANGED <<loaded, memory, heap, registers, stack, sp, control, output, status>>
  PROVE  Steady' /\ Spared
  <1>1. Kept
    BY DEF Kept, heap
  <1>2. /\ DataKept' /\ Block' = Block /\ Bottom' = Bottom /\ Level' = Level
        /\ region' = region /\ registers' = registers /\ sp' = sp /\ stack' = stack
    BY <1>1, KeptData DEF Steady
  <1>3. Taken = 0 /\ Gives(Instruction) = 0
    BY DEF Taken, Takes, Gives, Instruction
  <1>4. t \in Successors(Block, pc + 1)
    BY DEF Successors
  <1>5. /\ t \in DOMAIN Block \/ (region = 0 /\ t = Len(Block) + 1)
        /\ Level[t - 1] = Level[pc + 1]
    BY <1>4, AtInstruction
  <1>6. InText'
    <2>1. Len(Block) \in Nat /\ DOMAIN Block = 1..Len(Block)
      BY AtInstruction
    <2>2. t - 1 \in 0..Len(Block) /\ (region > 0 => t - 1 < Len(Block))
      BY <1>5, <2>1
    <2> QED BY <1>2, <2>2 DEF InText
  <1>7. Counted'
    <2>1. sp = Bottom + Level[pc] /\ Level[pc] \in Nat /\ Level[pc + 1] = Level[pc]
          /\ 0..sp - 1 \subseteq DOMAIN stack
      BY <1>3, AtInstruction
    <2>2. Depth(Here)' = Level[t - 1]
      BY <1>2 DEF Depth, Here, Level
    <2> QED BY <1>2, <1>5, <2>1, <2>2 DEF Counted
  <1>8. Held'
    <2>1. SUFFICES ASSUME NEW k \in DOMAIN Block, NEW j \in 1..k - 1,
                          NotEntered(Block, j, k), t - 1 \in j..k - 1
                   PROVE  FALSE
      BY <1>2 DEF Held
    <2>0. pc + 1 \in DOMAIN Block /\ Len(Block) \in Nat /\ DOMAIN Block = 1..Len(Block)
      BY AtInstruction
    <2>2. t <= j \/ k < t
      BY <2>0, <2>1 DEF NotEntered
    <2>3. j \in Int /\ k \in Int /\ t \in Int
      BY <1>5, <2>0, <2>1
    <2> QED BY <2>1, <2>2, <2>3
  <1>9. Spared
    BY <1>2 DEF Spared
  <1>10. status' # "halted"
    BY DEF Kept
  <1> QED BY <1>2, <1>6, <1>7, <1>8, <1>9, <1>10 DEF Steady
-------------------------------------------------------------------------------
(* What each instruction does is one of these.                               *)

TextsStay == \A s \in DOMAIN strings : s \in DOMAIN strings' /\ strings'[s] = strings[s]

(* An instruction that writes its register.                                  *)
LEMMA PutAdvances ==
  ASSUME IInv, IsBalanced, Steady, NEW op, Fetch(op), NEW r, NEW v, Put(r, v), TextsStay,
         op \in {"NIL", "LOAD", "LOADV", "MOVE", "NEGATE", "NOT", "DEREF"}
                  \cup Arithmetic \cup Logical,
         r = IF op = "NIL" THEN Instruction.b ELSE Instruction.a,
         op = "LOADV" => v = Int32(Instruction.b)
  PROVE  Advances /\ Fetchable
  <1> USE DEF Arithmetic, Logical
  <1>1. Fetchable /\ Instruction.op = op /\ status = "running"
    BY DEF Fetch
  <1>2. /\ UNCHANGED <<loaded, control, memory>> /\ status' = "running"
        /\ pc' = pc + 1 /\ sp' = sp /\ stack' = stack
        /\ registers' = [registers EXCEPT ![r] = v]
    BY <1>1 DEF Put
  <1>3. Taken = 0 /\ Gives(Instruction) = 0
    BY <1>1 DEF Taken, Takes, Gives, Instruction
  <1>4. Written(Instruction) = {r}
    BY <1>1 DEF Written
  <1>5. registers \in [Registers -> Value] /\ r \in Registers
    BY <1>1, Operands DEF IInv, CellsOK, RegistersOK
  <1>6. /\ \A x \in Registers \ Written(Instruction) : registers'[x] = registers[x]
        /\ op = "LOADV" => registers'[Instruction.a] = Int32(Instruction.b)
    BY <1>2, <1>4, <1>5
  <1>7. 0..sp - 1 \subseteq DOMAIN stack /\ sp \in Int
    BY <1>1 DEF Steady, Counted, IInv, Registered
  <1>8. Kept /\ Spared
    BY <1>1, <1>2 DEF Kept, Spared, TextsStay
  <1> QED BY <1>1, <1>2, <1>3, <1>6, <1>7, <1>8 DEF Advances

(* An instruction that replaces what it takes from the stack by one value.   *)
LEMMA Return1Advances ==
  ASSUME IInv, IsBalanced, Steady, NEW op \in {"PUSH", "CALL_DYNAMIC"}, Fetch(op), NEW v,
         Return1(Taken, v), TextsStay
  PROVE  Advances /\ Fetchable
  <1>1. Fetchable /\ Instruction.op = op /\ status = "running"
    BY DEF Fetch
  <1>2. /\ UNCHANGED <<loaded, control, memory>> /\ status' = "running"
        /\ pc' = pc + 1 /\ sp' = sp - Taken + 1 /\ registers' = registers
        /\ stack' = MemorySet(stack, sp - Taken, v)
    BY <1>1 DEF Return1
  <1>3. Gives(Instruction) = 1
    BY <1>1 DEF Gives
  <1>4. PICK n, m : n = Taken /\ m = Bottom
    OBVIOUS
  <1>5. /\ n \in Nat /\ m \in Nat /\ sp \in Int /\ sp - n >= m
        /\ 0..sp - 1 \subseteq DOMAIN stack
    BY <1>1, <1>4, AtInstruction
  <1>6. DOMAIN stack' = DOMAIN stack \cup {sp - n}
        /\ \A a \in DOMAIN stack : a # sp - n => stack'[a] = stack[a]
    BY <1>2, <1>4 DEF MemorySet
  <1>7. 0..sp' - 1 \subseteq DOMAIN stack'
    BY <1>2, <1>4, <1>5, <1>6
  <1>8. Spared
    BY <1>4, <1>5, <1>6 DEF Spared
  <1>9. Kept
    BY <1>1, <1>2 DEF Kept, TextsStay
  <1> QED BY <1>1, <1>2, <1>3, <1>7, <1>8, <1>9 DEF Advances

(* Moving values.                                                            *)
LEMMA MovesAdvance ==
  ASSUME IInv, IsBalanced, Steady, Moves
  PROVE  Advances /\ Fetchable
  <1>1. UNCHANGED heap => TextsStay
    BY DEF heap, TextsStay
  <1>2. CASE LoadNil
    BY <1>1, <1>2, PutAdvances DEF LoadNil, Assign
  <1>3. CASE Load
    BY <1>1, <1>3, PutAdvances DEF Load, Assign
  <1>4. CASE LoadImmediate
    BY <1>1, <1>4, PutAdvances DEF LoadImmediate, Assign
  <1>5. CASE Store
    <2>1. Fetchable /\ Instruction.op = "STORE"
      BY <1>5 DEF Store, Fetch
    <2> QED BY <2>1, AtInstruction
  <1>6. CASE Move
    BY <1>1, <1>6, PutAdvances DEF Move, Assign
  <1>7. CASE Push
    <2>1. Fetch("PUSH") /\ Return1(0, Left) /\ TextsStay
      BY <1>1, <1>7 DEF Push
    <2>2. Taken = 0
      BY <2>1 DEF Fetch, Taken, Takes, Instruction
    <2> QED BY <2>1, <2>2, Return1Advances
  <1>8. CASE Pop
    <2>1. /\ Fetch("POP") /\ Fetchable /\ Instruction.op = "POP" /\ status = "running"
          /\ registers' = [registers EXCEPT ![Instruction.b] = Popped(1)]
          /\ pc' = pc + 1 /\ sp' = sp - 1 /\ stack' = stack /\ TextsStay
          /\ UNCHANGED <<loaded, control, memory>> /\ status' = "running"
      BY <1>1, <1>8 DEF Pop, Fetch
    <2>2. Taken = 1 /\ Gives(Instruction) = 0
      BY <2>1 DEF Taken, Takes, Gives, Instruction
    <2>3. Written(Instruction) = {Instruction.b} /\ Instruction.b \in Registers
      BY <2>1, Operands DEF Written, Arithmetic, Logical
    <2>4. \A x \in Registers \ Written(Instruction) : registers'[x] = registers[x]
      BY <2>1, <2>3 DEF IInv, CellsOK, RegistersOK
    <2>5. 0..sp - 1 \subseteq DOMAIN stack /\ sp \in Int
      BY <2>1 DEF Steady, Counted, IInv, Registered
    <2>6. Kept /\ Spared
      BY <2>1 DEF Kept, Spared, TextsStay
    <2>7. 0..sp' - 1 \subseteq DOMAIN stack' /\ sp' = sp - Taken + Gives(Instruction)
      BY <2>1, <2>2, <2>5
    <2> QED BY <2>1, <2>4, <2>6, <2>7 DEF Advances
  <1>9. CASE Skip
    <2>1. /\ Fetchable /\ Instruction.op = "RESTORE" /\ status = "running"
          /\ registers' = registers /\ pc' = pc + 1 /\ sp' = sp /\ stack' = stack /\ TextsStay
          /\ UNCHANGED <<loaded, control, memory>> /\ status' = "running"
      BY <1>1, <1>9 DEF Skip, Fetch
    <2>2. Taken = 0 /\ Gives(Instruction) = 0
      BY <2>1 DEF Taken, Takes, Gives, Instruction
    <2>3. 0..sp - 1 \subseteq DOMAIN stack /\ sp \in Int
      BY <2>1 DEF Steady, Counted, IInv, Registered
    <2>4. Kept /\ Spared
      BY <2>1 DEF Kept, Spared, TextsStay
    <2>5. 0..sp' - 1 \subseteq DOMAIN stack' /\ sp' = sp - Taken + Gives(Instruction)
      BY <2>1, <2>2, <2>3
    <2> QED BY <2>1, <2>4, <2>5 DEF Advances
  <1> QED BY <1>2, <1>3, <1>4, <1>5, <1>6, <1>7, <1>8, <1>9 DEF Moves

(* Arithmetic and logic.                                                     *)
LEMMA ComputesAdvance ==
  ASSUME IInv, IsBalanced, Steady, Computes
  PROVE  Advances /\ Fetchable
  <1> USE DEF Arithmetic, Logical
  <1>1. UNCHANGED heap => TextsStay
    BY DEF heap, TextsStay
  <1>2. ASSUME NEW op \in Arithmetic \cup Logical \cup {"NEGATE", "NOT"}, Fetch(op),
               NEW v, Assign(Instruction.a, v)
        PROVE  Advances /\ Fetchable
    BY <1>1, <1>2, PutAdvances DEF Assign
  <1>3. ASSUME NEW op \in Arithmetic \cup Logical \cup {"NEGATE", "NOT"}, Fetch(op),
               \E v : Assign(Instruction.a, v)
        PROVE  Advances /\ Fetchable
    BY <1>2, <1>3
  <1>4. CASE Add
    BY <1>3, <1>4 DEF Add, Numeric
  <1>5. CASE Subtract
    BY <1>3, <1>5 DEF Subtract, Numeric
  <1>6. CASE Multiply
    BY <1>3, <1>6 DEF Multiply, Numeric
  <1>7. CASE Divide
    BY <1>3, <1>7 DEF Divide
  <1>8. CASE Modulo
    BY <1>3, <1>8 DEF Modulo
  <1>9. CASE Negate
    BY <1>3, <1>9 DEF Negate
  <1>10. CASE And
    BY <1>3, <1>10 DEF And, AssignTruth
  <1>11. CASE Or
    BY <1>3, <1>11 DEF Or, AssignTruth
  <1>12. CASE Not
    BY <1>3, <1>12 DEF Not, AssignTruth
  <1>13. CASE Concatenate
    <2>1. PICK more : strings' = Append(strings, more)
      BY <1>13 DEF Concatenate
    <2>2. TextsStay
      BY <2>1 DEF TextsStay, IInv, HeapOK
    <2>3. Fetch("ADD") /\ Put(Instruction.a, Ref("STRING", Len(strings')))
      BY <1>13 DEF Concatenate
    <2> QED BY <2>2, <2>3, PutAdvances
  <1> QED BY <1>4, <1>5, <1>6, <1>7, <1>8, <1>9, <1>10, <1>11, <1>12, <1>13 DEF Computes

(* Iteration.                                                                *)
LEMMA IteratesAdvance ==
  ASSUME IInv, IsBalanced, Steady, Iterates
  PROVE  Advances /\ Fetchable
  <1>1. Fetch("DEREF") /\ strings' = strings /\ \E v : Put(Instruction.a, v)
    <2>1. CASE DerefEnd
      BY <2>1 DEF DerefEnd, Assign, heap
    <2>2. CASE DerefNext
      BY <2>2 DEF DerefNext
    <2> QED BY <2>1, <2>2 DEF Iterates
  <1>2. TextsStay
    BY <1>1 DEF TextsStay
  <1> QED BY <1>1, <1>2, PutAdvances

(* A jump goes as far as what was loaded for it says.                        *)
LEMMA JumpTargets ==
  ASSUME IInv, IsBalanced, Steady, Fetch("JMP"), NEW n \in NumberViews(Left)
  PROVE  pc + n + 1 \in Targets(Block, pc + 1)
  <1>1. Fetchable /\ Instruction.op = "JMP"
    BY DEF Fetch
  <1>2. PICK k : k = pc + 1
    OBVIOUS
  <1>3. /\ k \in DOMAIN Block /\ pc \in Nat /\ k - 1 = pc /\ Block[k] = Instruction
        /\ \E j \in 1..pc : Loads(Block, j, k, Instruction.b) /\ NotEntered(Block, j, k)
    BY <1>1, <1>2, AtInstruction DEF Instruction
  <1>4. PICK j \in 1..k - 1 : Loads(Block, j, k, Instruction.b) /\ NotEntered(Block, j, k)
    BY <1>3
  <1>5. Block[j].a = Instruction.b /\ pc \in j..k - 1
    BY <1>3, <1>4 DEF Loads
  <1>6. Left = Int32(Block[j].b)
    BY <1>3, <1>4, <1>5 DEF Steady, Held, Left
  <1>7. n = Block[j].b
    BY <1>6 DEF NumberViews, Carriers, Int32
  <1>8. n \in Distances(Block, k)
    BY <1>3, <1>4, <1>7 DEF Distances
  <1>9. k + n \in Targets(Block, k)
    BY <1>1, <1>3, <1>8 DEF Targets
  <1>10. n \in Int
    <2>1. Block \in Seq(Instructions) /\ j \in DOMAIN Block
      BY <1>1, <1>3, AtInstruction
    <2>2. Block[j] \in Instructions
      BY <2>1
    <2> QED BY <1>7, <2>2 DEF Instructions
  <1> QED BY <1>2, <1>3, <1>9, <1>10

(* Jumps and comparisons.                                                    *)
LEMMA JumpsSteady ==
  ASSUME IInv, IsBalanced, Steady, Jumps
  PROVE  Steady' /\ Spared
  <1>1. CASE Jump
    <2>1. PICK n \in NumberViews(Left) : Branch(pc + n)
      BY <1>1 DEF Jump
    <2>2. Fetch("JMP") /\ Fetchable /\ Instruction.op = "JMP" /\ status = "running"
      BY <1>1 DEF Jump, Fetch
    <2>3. PICK t : t = pc + n + 1
      OBVIOUS
    <2>4. t \in Targets(Block, pc + 1)
      BY <2>2, <2>3, JumpTargets
    <2>5. pc' = t - 1
      <3>1. Left \in Value /\ Live(Left)
        BY <2>2, Operands, ReadRegister DEF Left
      <3>2. n \in Int /\ pc \in Int
        BY <3>1, ViewsInRange DEF Number, IInv, Registered
      <3> QED BY <2>1, <2>3, <3>2 DEF Branch
    <2> QED BY <2>1, <2>2, <2>4, <2>5, TargetStep DEF Branch
  <1>2. ASSUME NEW op \in {"EQUAL", "LESSTHAN"}, Fetch(op), NEW outcome, SkipUnless(outcome)
        PROVE  Steady' /\ Spared
    <2>1. Fetchable /\ Instruction.op = op /\ status = "running" /\ pc \in Int
      BY <1>2 DEF Fetch, IInv, Registered
    <2>2. Branch(pc + 1) \/ Branch(pc + 2)
      BY <1>2 DEF SkipUnless
    <2>3. CASE Branch(pc + 1)
      <3>1. /\ pc' = pc + 1 /\ UNCHANGED <<loaded, control, memory>> /\ status' = "running"
            /\ registers' = registers /\ sp' = sp /\ stack' = stack /\ strings' = strings
        BY <2>1, <2>3 DEF Branch, heap
      <3>2. Taken = 0 /\ Gives(Instruction) = 0
        BY <2>1 DEF Taken, Takes, Gives, Instruction
      <3>3. 0..sp - 1 \subseteq DOMAIN stack /\ sp \in Int
        BY DEF Steady, Counted, IInv, Registered
      <3>4. Kept /\ Spared
        BY <2>1, <3>1 DEF Kept, Spared
      <3>5. Advances
        BY <2>1, <3>1, <3>2, <3>3, <3>4 DEF Advances
      <3> QED BY <2>1, <3>4, <3>5, AdvancesStep
    <2>4. CASE Branch(pc + 2)
      <3>1. pc + 3 \in Targets(Block, pc + 1)
        BY <2>1 DEF Targets, Skips, Instruction
      <3>2. pc' = (pc + 3) - 1
        BY <2>1, <2>4 DEF Branch
      <3> QED BY <2>1, <2>4, <3>1, <3>2, TargetStep DEF Branch
    <2> QED BY <2>2, <2>3, <2>4
  <1>3. CASE Equal
    BY <1>2, <1>3 DEF Equal
  <1>4. CASE LessThan
    BY <1>2, <1>4 DEF LessThan
  <1> QED BY <1>1, <1>3, <1>4 DEF Jumps

(* A builtin finds in register 0 the count the text has before its call, and *)
(* is the one whose name the binary has there.                               *)
LEMMA BuiltinCalled ==
  ASSUME IInv, IsBalanced, Steady, NEW n, Calls(n)
  PROVE  /\ Fetch("CALL_DYNAMIC") /\ n \in Answering
         /\ \E c \in Nat :
              /\ registers[0] = Int32(c)
              /\ Taken = CASE n = "tuple" -> c
                           [] n = "range" -> 2
                           [] n \in {"iter", "type"} -> 1
                           [] n = "print" -> IF c = 0 THEN 0 ELSE 1
                           [] OTHER -> 0
  <1>1. Fetch("CALL_DYNAMIC") /\ Fetchable /\ Instruction.op = "CALL_DYNAMIC" /\ Names(n)
    BY DEF Calls, Fetch
  <1>2. PICK b, k : b = Binaries[program] /\ k = pc + 1
    OBVIOUS
  <1>3. /\ k \in DOMAIN Block /\ pc \in Nat /\ k - 1 = pc /\ Block[k] = Instruction
        /\ CallsBuiltin(b, Block, k) /\ NotEntered(Block, k - 1, k)
        /\ Block \in Seq(Instructions)
    BY <1>1, <1>2, AtInstruction DEF Instruction
  <1>4. /\ k - 1 \in 1..k - 1 /\ Block[k - 1].op = "LOADV" /\ Block[k - 1].a = 0
        /\ Block[k - 1].b >= 0 /\ pc \in k - 1..k - 1
        /\ Instruction.b \in DOMAIN b.data /\ b.data[Instruction.b].type = "STRING"
    BY <1>3 DEF CallsBuiltin
  <1>5. PICK m \in Answering : b.strings[b.data[Instruction.b].contents] = <<m>>
    BY <1>3 DEF CallsBuiltin
  <1>6. registers[0] = Int32(Count(Block, k))
    <2>1. Loads(Block, k - 1, k, Block[k - 1].a)
      <3>1. (k - 1) + 1..k - 1 = {}
        BY <1>3
      <3> QED BY <1>4, <3>1 DEF Loads
    <2> QED BY <1>3, <1>4, <2>1 DEF Steady, Held, Count
  <1>7. Count(Block, k) \in Nat
    <2>1. Block[k - 1] \in Instructions
      BY <1>3, <1>4
    <2> QED BY <1>4, <2>1 DEF Count, Instructions
  <1>8. n = m
    <2>1. memory = b.data
      BY <1>2 DEF Steady, DataKept
    <2>2. Named = b.data[Instruction.b]
      BY <1>4, <2>1 DEF Named, MemoryGet
    <2>3. Named.contents \in DOMAIN b.strings
      <3>1. WellFormedBinary(b)
        BY <1>2, MachineAssumption DEF IInv, Loading
      <3>2. WellFormedDatum(b.data[Instruction.b], b)
        BY <1>4, <3>1 DEF WellFormedBinary
      <3> QED BY <1>4, <2>2, <3>2 DEF WellFormedDatum
    <2>4. strings[Named.contents] = b.strings[Named.contents]
      BY <1>2, <2>3 DEF Steady, DataKept
    <2>5. <<n>> = <<m>>
      BY <1>1, <1>5, <2>2, <2>4 DEF Names
    <2> QED BY <2>5
  <1>9. BuiltinName(b, Instruction) = m
    BY <1>5 DEF BuiltinName
  <1>10. Taken = CASE n = "tuple" -> Count(Block, k)
                   [] n = "range" -> 2
                   [] n \in {"iter", "type"} -> 1
                   [] n = "print" -> IF Count(Block, k) = 0 THEN 0 ELSE 1
                   [] OTHER -> 0
    BY <1>1, <1>2, <1>3, <1>8, <1>9 DEF Taken, Takes
  <1> QED BY <1>1, <1>6, <1>7, <1>8, <1>10

(* Each builtin pops what the text says it does and pushes its answer.       *)
LEMMA BuiltinsAdvance ==
  ASSUME IInv, IsBalanced, Steady, BuiltinCall
  PROVE  Advances /\ Fetchable
  <1>1. UNCHANGED heap => TextsStay
    BY DEF heap, TextsStay
  <1>2. strings' = strings => TextsStay
    BY DEF TextsStay
  <1>3. ASSUME NEW t, strings' = Append(strings, t) PROVE TextsStay
    BY <1>3 DEF TextsStay, IInv, HeapOK
  <1>5. CASE BuiltinPrintLine
    <2>1. Calls("print") /\ 0 \in ArgumentCounts /\ TextsStay /\ \E v : Return1(0, v)
      BY <1>1, <1>5 DEF BuiltinPrintLine
    <2>2. PICK c \in Nat : registers[0] = Int32(c) /\ Taken = IF c = 0 THEN 0 ELSE 1
      BY <2>1, BuiltinCalled
    <2>3. Taken = 0
      BY <2>1, <2>2 DEF ArgumentCounts, NumberViews, Carriers, Int32
    <2> QED BY <2>1, <2>3, BuiltinCalled, Return1Advances
  <1>6. CASE BuiltinPrint
    <2>1. Calls("print") /\ ArgumentCounts # {0} /\ TextsStay /\ \E v : Return1(1, v)
      BY <1>1, <1>6 DEF BuiltinPrint
    <2>2. PICK c \in Nat : registers[0] = Int32(c) /\ Taken = IF c = 0 THEN 0 ELSE 1
      BY <2>1, BuiltinCalled
    <2>3. Taken = 1
      BY <2>1, <2>2 DEF ArgumentCounts, NumberViews, Carriers, Int32
    <2> QED BY <2>1, <2>3, BuiltinCalled, Return1Advances
  <1>7. CASE BuiltinTime
    <2>1. Calls("time") /\ TextsStay /\ \E v : Return1(0, v)
      BY <1>1, <1>7 DEF BuiltinTime
    <2>2. Taken = 0
      BY <2>1, BuiltinCalled
    <2> QED BY <2>1, <2>2, BuiltinCalled, Return1Advances
  <1>8. CASE BuiltinIter
    <2>1. Calls("iter") /\ TextsStay /\ \E v : Return1(1, v)
      BY <1>2, <1>8 DEF BuiltinIter
    <2>2. Taken = 1
      BY <2>1, BuiltinCalled
    <2> QED BY <2>1, <2>2, BuiltinCalled, Return1Advances
  <1>9. CASE BuiltinTuple
    <2>1. /\ Calls("tuple") /\ TextsStay
          /\ \E v : Return1(registers[0].contents, v)
      BY <1>2, <1>9 DEF BuiltinTuple, NewTuple
    <2>2. PICK c \in Nat : registers[0] = Int32(c) /\ Taken = c
      BY <2>1, BuiltinCalled
    <2>3. Taken = registers[0].contents
      BY <2>2 DEF Int32
    <2> QED BY <2>1, <2>3, BuiltinCalled, Return1Advances
  <1>10. CASE BuiltinRange
    <2>1. Calls("range") /\ TextsStay /\ \E v : Return1(2, v)
      BY <1>2, <1>10 DEF BuiltinRange, NewTuple
    <2>2. Taken = 2
      BY <2>1, BuiltinCalled
    <2> QED BY <2>1, <2>2, BuiltinCalled, Return1Advances
  <1>11. CASE BuiltinType
    <2>1. Calls("type") /\ TextsStay /\ \E v : Return1(1, v)
      BY <1>3, <1>11 DEF BuiltinType, NewString
    <2>2. Taken = 1
      BY <2>1, BuiltinCalled
    <2> QED BY <2>1, <2>2, BuiltinCalled, Return1Advances
  <1>12. CASE BuiltinInt \/ BuiltinString
    <2>1. PICK n \in {"int", "string"} : Calls(n)
      BY <1>12 DEF BuiltinInt, BuiltinString
    <2>2. n \in Answering
      BY <2>1, BuiltinCalled
    <2> QED BY <2>1, <2>2 DEF Answering
  <1> QED BY <1>5, <1>6, <1>7, <1>8, <1>9, <1>10, <1>11, <1>12 DEF BuiltinCall
-------------------------------------------------------------------------------
(* Calls and returns.                                                        *)

(* A call begins a part of the stack where its caller's ends.                *)
LEMMA CallSteady ==
  ASSUME IInv, IsBalanced, Steady, Call
  PROVE  Steady' /\ Spared
  <1>1. /\ Fetchable /\ Instruction.op = "CALL" /\ status = "running" /\ status' = "running"
        /\ UNCHANGED <<loaded, memory, heap, registers, stack, sp>>
        /\ pc' = 0 /\ region' = Prototype(Callee.contents).region
        /\ callStack' = IF frame.kind = "none" THEN callStack ELSE Append(callStack, frame)
        /\ frame'.kind = "call" /\ frame'.return = [region |-> region, offset |-> pc + 1]
    BY DEF Call, Fetch
  <1>2. /\ program' = program /\ code' = code /\ memory' = memory /\ strings' = strings
        /\ stack' = stack /\ sp' = sp
    BY <1>1 DEF loaded, heap
  <1>3. IInv'
    BY CallStep
  <1>4. PICK b, q, r : b = Binaries[program] /\ q = region' /\ r = q + 1
    OBVIOUS
  <1>5. q > 0
    <2>1. CallsFunction(b, Instruction) /\ memory = b.data
      BY <1>1, <1>4, AtInstruction DEF Steady, DataKept
    <2>2. Callee = b.data[Instruction.b] /\ Callee.type = "FUNCTION" /\ Instruction.b \in DOMAIN b.data
      BY <2>1 DEF CallsFunction, Callee, MemoryGet
    <2>3. Callee.contents \in DOMAIN b.functions
      <3>1. WellFormedBinary(b)
        BY <1>4, MachineAssumption DEF IInv, Loading
      <3>2. WellFormedDatum(b.data[Instruction.b], b)
        BY <2>2, <3>1 DEF WellFormedBinary
      <3> QED BY <2>2, <3>2 DEF WellFormedDatum
    <2>4. functions = b.functions /\ Balanced(b)
      BY <1>4 DEF IInv, Loading, IsBalanced, BalancedPrograms
    <2> QED BY <1>1, <1>4, <2>3, <2>4 DEF Balanced, Prototype
  <1>6. q \in 0..Len(code) - 1
    BY <1>2, <1>3, <1>4 DEF IInv, ControlOK
  <1>q. q \in Nat
    BY <1>6, LoadedBinary DEF IInv
  <1>7. PICK text, d : text = code[r] /\ d = DepthsOf[program][r]
    OBVIOUS
  <1>8. /\ text \in Seq(Instructions) /\ r \in DOMAIN b.code /\ text = b.code[r]
        /\ BalancedRegion(b, r) /\ Counts(b, text, d)
    BY <1>4, <1>6, <1>7, RegionText
  <1>9. Block' = text /\ Len(text) > 0 /\ d[0] = 0
    <2>1. r > 1
      <3>1. r = q + 1
        BY <1>4
      <3> QED BY <1>5, <1>q, <3>1
    <2>2. text # <<>>
      BY <1>8, <2>1 DEF BalancedRegion
    <2> QED BY <1>2, <1>4, <1>7, <1>8, <2>2 DEF Block, Counts
  <1>10. InText'
    BY <1>1, <1>8, <1>9 DEF InText
  <1>11. Held'
    <2>1. \A k \in DOMAIN text : \A j \in 1..k - 1 : 0 \notin j..k - 1
      BY <1>8
    <2> QED BY <1>1, <1>9, <2>1 DEF Held
  <1>12. /\ sp = Bottom + Level[pc] /\ Level[pc] \in Nat /\ Level[pc + 1] = Level[pc] + 1
         /\ 0..sp - 1 \subseteq DOMAIN stack /\ Bottom \in Nat
    <2>1. Taken = 0 /\ Gives(Instruction) = 1
      BY <1>1 DEF Taken, Takes, Gives, Instruction
    <2> QED BY <1>1, <2>1, AtInstruction
  <1>13. Counted'
    <2>1. PICK F, f : F = Frames /\ f = frame'
      OBVIOUS
    <2>2. Frames' = Append(F, f)
      BY <1>1, <2>1 DEF Frames
    <2>3. F \in Seq(Frame) /\ AllBelow(DepthsOf[program], F) /\ f \in Frame
      BY <1>3, <2>1, FramesInUse, BelowNat DEF IInv, ControlOK, FrameOK
    <2>4. Below(DepthsOf[program], f) = Level[pc]
      <3>1. f.kind = "call" /\ f.return.region = region /\ f.return.offset = pc + 1
        BY <1>1, <2>1
      <3>2. Below(DepthsOf[program], f) = Level[pc + 1] - 1
        BY <3>1 DEF Below, Level
      <3> QED BY <1>12, <3>2
    <2>5. AllBelow(DepthsOf[program], Append(F, f))
      BY <1>12, <2>3, <2>4 DEF AllBelow
    <2>6. Bottom' = Bottom + Level[pc]
      BY <1>2, <2>1, <2>2, <2>3, <2>4, <2>5, BottomPushed DEF Bottom
    <2>7. Depth(Here)' = d[0]
      BY <1>1, <1>2, <1>4, <1>7 DEF Depth, Here
    <2> QED BY <1>2, <1>9, <1>12, <2>6, <2>7 DEF Counted
  <1>14. DataKept' /\ Spared
    BY <1>2 DEF Steady, DataKept, Spared
  <1> QED BY <1>1, <1>10, <1>11, <1>13, <1>14 DEF Steady

(* A return leaves its caller one value more than it had before the call.    *)
LEMMA ReturnSteady ==
  ASSUME IInv, IsBalanced, Steady, Return
  PROVE  Steady' /\ Spared
  <1>1. /\ Fetchable /\ Instruction.op = "RETURN" /\ status = "running" /\ status' = "running"
        /\ UNCHANGED <<loaded, memory, heap>>
        /\ region' = frame.return.region /\ pc' = frame.return.offset
        /\ stack' = MemorySet(stack, sp, Left) /\ sp' = sp + 1
    BY DEF Return, Fetch
  <1>2. program' = program /\ code' = code /\ memory' = memory /\ strings' = strings
    BY <1>1 DEF loaded, heap
  <1>3. IInv'
    BY ReturnStep
  <1>4. frame.kind = "call" /\ Frames = Append(callStack, frame) /\ Frames' = callStack
    BY ReturnPops
  <1>5. PICK C, f, b, q, r, c : /\ C = callStack /\ f = frame /\ b = Binaries[program]
                                /\ q = region' /\ r = q + 1 /\ c = pc'
    OBVIOUS
  <1>6. C \in Seq(Frame) /\ f \in Frame
    BY <1>5 DEF IInv, ControlOK, FrameOK
  <1>7. q \in 0..Len(code) - 1
    BY <1>2, <1>3, <1>5 DEF IInv, ControlOK
  <1>q. q \in Nat
    BY <1>7, LoadedBinary DEF IInv
  <1>8. PICK text, d : text = code[r] /\ d = DepthsOf[program][r]
    OBVIOUS
  <1>9. /\ text \in Seq(Instructions) /\ r \in DOMAIN b.code /\ text = b.code[r]
        /\ BalancedRegion(b, r) /\ d = Depths(b, text) /\ Counts(b, text, d)
    BY <1>5, <1>7, <1>8, RegionText
  <1>10. c \in DOMAIN text /\ text[c].op = "CALL"
    <2>1. PICK i : i = Len(C) + 1
      OBVIOUS
    <2>2. i \in DOMAIN Frames /\ Frames[i] = f
      BY <1>4, <1>5, <1>6, <2>1
    <2>3. /\ f.return.region = CallerRegion(i) /\ f.return.offset \in DOMAIN code[CallerRegion(i) + 1]
          /\ code[CallerRegion(i) + 1][f.return.offset].op = "CALL"
      BY <1>4, <1>5, <2>2 DEF IInv, ControlOK, CallChain
    <2> QED BY <1>1, <1>5, <1>8, <2>3
  <1>11. Fits(b, r, text, d, c)
    BY <1>9, <1>10, RegionCounts
  <1>12. Block' = text
    BY <1>2, <1>5, <1>8 DEF Block
  <1>13. InText'
    <2>1. c + 1 \in Successors(text, c)
      BY <1>10 DEF Successors
    <2>2. c + 1 \in DOMAIN text \/ (r = 1 /\ c + 1 = Len(text) + 1)
      BY <1>11, <2>1 DEF Fits
    <2>3. c \in 0..Len(text) /\ (q > 0 => c < Len(text))
      BY <1>5, <1>q, <1>9, <1>10, <2>2
    <2> QED BY <1>5, <1>12, <2>3 DEF InText
  <1>14. Held'
    <2>1. SUFFICES ASSUME NEW k \in DOMAIN text, NEW j \in 1..k - 1, c \in j..k - 1,
                          Loads(text, j, k, text[j].a)
                   PROVE  FALSE
      BY <1>5, <1>12 DEF Held
    <2>2. c = j \/ c \in j + 1..k - 1
      BY <1>9, <1>10, <2>1
    <2> QED BY <1>10, <2>1, <2>2 DEF Loads
  <1>15. Counted' /\ Spared
    <2>1. Taken = 0 /\ Level[pc] = 0 /\ sp = Bottom + Level[pc] /\ Bottom \in Nat
          /\ 0..sp - 1 \subseteq DOMAIN stack
      BY <1>1, AtInstruction DEF Taken, Takes, Instruction
    <2>2. sp = Bottom /\ sp \in Nat
      BY <2>1
    <2>3. Below(DepthsOf[program], f) = d[c] - 1 /\ d[c] \in Nat
      BY <1>1, <1>4, <1>5, <1>8, <1>11 DEF Below, Fits
    <2>4. AllBelow(DepthsOf[program], Append(C, f))
      BY <1>4, <1>5, BelowNat
    <2>5. Bottom = Bottom' + Below(DepthsOf[program], f) /\ Bottom' \in Nat
      <3>1. /\ Bottoms(DepthsOf[program], C)[Len(C)] \in Nat
            /\ Bottoms(DepthsOf[program], Append(C, f))[Len(Append(C, f))]
                 = Bottoms(DepthsOf[program], C)[Len(C)] + Below(DepthsOf[program], f)
        BY <1>6, <2>4, BottomPushed
      <3>2. Bottom = Bottoms(DepthsOf[program], Append(C, f))[Len(Append(C, f))]
        BY <1>4, <1>5 DEF Bottom
      <3>3. Bottom' = Bottoms(DepthsOf[program], C)[Len(C)]
        BY <1>2, <1>4, <1>5 DEF Bottom
      <3> QED BY <3>1, <3>2, <3>3
    <2>6. Depth(Here)' = d[c]
      BY <1>2, <1>5, <1>8 DEF Depth, Here
    <2>7. sp' = Bottom' + d[c]
      BY <1>1, <2>2, <2>3, <2>5
    <2>8. DOMAIN stack' = DOMAIN stack \cup {sp}
          /\ \A a \in DOMAIN stack : a # sp => stack'[a] = stack[a]
      BY <1>1 DEF MemorySet
    <2>9. 0..sp' - 1 \subseteq DOMAIN stack'
      BY <1>1, <2>1, <2>2, <2>8
    <2>10. Spared
      BY <2>1, <2>2, <2>8 DEF Spared
    <2> QED BY <2>6, <2>7, <2>9, <2>10 DEF Counted
  <1>16. DataKept'
    BY <1>2 DEF Steady, DataKept
  <1> QED BY <1>1, <1>13, <1>14, <1>15, <1>16 DEF Steady
-------------------------------------------------------------------------------
(* Every execution of a balanced program.                                    *)

(* The outermost frame has nothing below its part of the stack.              *)
LEMMA OutermostBottom ==
  ASSUME NEW depths, NEW frames \in Seq(Frame), Len(frames) \in {0, 1},
         \A i \in DOMAIN frames : frames[i].kind # "call"
  PROVE  Bottoms(depths, frames)[Len(frames)] = 0
  <1>1. \A i \in DOMAIN frames : Below(depths, frames[i]) = 0
    BY DEF Below
  <1>2. Sums(depths, frames, Bottoms(depths, frames))
    BY <1>1, BottomsSum DEF AllBelow
  <1>3. CASE Len(frames) = 0
    BY <1>2, <1>3 DEF Sums
  <1>4. CASE Len(frames) = 1
    <2>1. 1 \in 1..Len(frames) /\ 1 \in DOMAIN frames /\ 1 - 1 = 0
      BY <1>4
    <2>2. /\ Bottoms(depths, frames)[0] = 0
          /\ Bottoms(depths, frames)[1] = Bottoms(depths, frames)[1 - 1] + Below(depths, frames[1])
      BY <1>2, <2>1 DEF Sums
    <2> QED BY <1>1, <1>4, <2>1, <2>2
  <1> QED BY <1>3, <1>4

(* vm_create (vm.c:80-106) leaves the machine at the start of the program.   *)
LEMMA InitSteady == Init => BInv
  <1> SUFFICES ASSUME Init PROVE BInv
    OBVIOUS
  <1>1. IInv
    BY InitInvariant
  <1>2. /\ program \in DOMAIN Binaries /\ memory = Binaries[program].data
        /\ strings = Binaries[program].strings /\ sp = 0 /\ pc = 0 /\ region = 0
        /\ callStack = <<>> /\ frame \in {NoFrame, StrayFrame} /\ status = "running"
    BY DEF Init, Create
  <1>3. ASSUME IsBalanced PROVE Steady
    <2>1. 0 \in 0..Len(code) - 1
      BY <1>1, <1>2 DEF IInv, ControlOK
    <2>2. /\ code[0 + 1] \in Seq(Instructions)
          /\ Counts(Binaries[program], code[0 + 1], DepthsOf[program][0 + 1])
      BY <1>1, <1>3, <2>1, RegionText
    <2>3. Block \in Seq(Instructions) /\ DepthsOf[program][region + 1][0] = 0
      BY <1>2, <2>2 DEF Block, Counts
    <2>4. Bottom = 0
      <3>1. Frames \in Seq(Frame)
        BY <1>1, FramesInUse
      <3>2. Frames = <<>> \/ Frames = <<StrayFrame>>
        BY <1>2 DEF Frames, NoFrame, StrayFrame
      <3>3. Len(Frames) \in {0, 1} /\ \A i \in DOMAIN Frames : Frames[i].kind # "call"
        BY <3>2 DEF StrayFrame
      <3> QED BY <3>1, <3>3, OutermostBottom DEF Bottom
    <2>5. Depth(Here) = 0
      BY <1>2, <2>3 DEF Depth, Here
    <2>6. Counted
      BY <1>2, <2>4, <2>5 DEF Counted
    <2>7. Held
      <3>1. \A k \in DOMAIN Block : \A j \in 1..k - 1 : 0 \notin j..k - 1
        BY <2>3
      <3> QED BY <1>2, <3>1 DEF Held
    <2>8. InText
      BY <1>2, <2>3 DEF InText
    <2>9. DataKept
      BY <1>2 DEF DataKept
    <2> QED BY <1>2, <2>6, <2>7, <2>8, <2>9 DEF Steady
  <1> QED BY <1>2, <1>3 DEF BInv

(* A step that leaves the program where it is.                               *)
LEMMA StandsStill ==
  ASSUME Steady, UNCHANGED <<loaded, memory, heap, registers, stack, sp, control, pc>>,
         status' = "halted" => ~Fetchable
  PROVE  Steady' /\ Spared
  <1>1. /\ program' = program /\ code' = code /\ memory' = memory /\ strings' = strings
        /\ registers' = registers /\ stack' = stack /\ sp' = sp /\ pc' = pc
        /\ callStack' = callStack /\ frame' = frame /\ region' = region
    BY DEF loaded, heap, control
  <1>2. Block' = Block /\ Bottom' = Bottom /\ Depth(Here)' = Depth(Here) /\ Fetchable' = Fetchable
    BY <1>1 DEF Block, Bottom, Frames, Depth, Here, Fetchable
  <1>3. DataKept' /\ Held' /\ InText' /\ Counted'
    BY <1>1, <1>2 DEF Steady, DataKept, Held, InText, Counted
  <1> QED BY <1>1, <1>2, <1>3 DEF Steady, Spared

(* Every step of a balanced program keeps it steady, and its callers' part   *)
(* of the stack as it was.                                                   *)
LEMMA NextSteady ==
  ASSUME IInv, IsBalanced, Steady, [Next]_vars
  PROVE  Steady' /\ Spared
  <1>1. ASSUME Advances, Fetchable PROVE Steady' /\ Spared
    BY <1>1, AdvancesStep DEF Advances
  <1>2. CASE Moves
    BY <1>1, <1>2, MovesAdvance
  <1>3. CASE Jumps
    BY <1>3, JumpsSteady
  <1>4. CASE Computes
    BY <1>1, <1>4, ComputesAdvance
  <1>5. CASE Iterates
    BY <1>1, <1>5, IteratesAdvance
  <1>6. CASE Call
    BY <1>6, CallSteady
  <1>7. CASE Return
    BY <1>7, ReturnSteady
  <1>8. CASE BuiltinCall
    BY <1>1, <1>8, BuiltinsAdvance
  <1>9. CASE Ends
    <2>1. UNCHANGED <<loaded, memory, heap, registers, stack, sp, control, pc>>
      BY <1>9 DEF Ends, Abort, Misbehave, Halt, Fail
    <2>2. status' = "halted" => ~Fetchable
      BY <1>9 DEF Ends, Abort, Misbehave, Halt, Fail
    <2> QED BY <2>1, <2>2, StandsStill
  <1>10. CASE UNCHANGED vars
    <2>1. UNCHANGED <<loaded, memory, heap, registers, stack, sp, control, pc>> /\ status' = status
      BY <1>10 DEF vars
    <2> QED BY <2>1, StandsStill DEF Steady
  <1> QED BY <1>2, <1>3, <1>4, <1>5, <1>6, <1>7, <1>8, <1>9, <1>10 DEF Next

(* No step loads another program.                                            *)
LEMMA ProgramKept == [Next]_vars => program' = program
  <1> USE DEF Assign, Put, Branch, Return1, Fail, loaded
  <1>1. Moves => program' = program
    BY DEF Moves, LoadNil, Load, LoadImmediate, Store, Move, Push, Pop, Skip
  <1>2. Jumps => program' = program
    BY DEF Jumps, Jump, Equal, LessThan, SkipUnless
  <1>3. Computes => program' = program
    <2>1. Add \/ Subtract \/ Multiply => program' = program
      BY DEF Add, Subtract, Multiply, Numeric
    <2>2. Concatenate \/ Divide \/ Modulo \/ Negate => program' = program
      BY DEF Concatenate, Divide, Modulo, Negate
    <2>3. And \/ Or \/ Not => program' = program
      BY DEF And, Or, Not, AssignTruth
    <2> QED BY <2>1, <2>2, <2>3 DEF Computes
  <1>4. Iterates => program' = program
    BY DEF Iterates, DerefEnd, DerefNext
  <1>5. BuiltinCall => program' = program
    <2>1. BuiltinPrintLine \/ BuiltinPrint \/ BuiltinTime \/ BuiltinIter => program' = program
      BY DEF BuiltinPrintLine, BuiltinPrint, BuiltinTime, BuiltinIter
    <2>2. BuiltinTuple \/ BuiltinRange \/ BuiltinType => program' = program
      BY DEF BuiltinTuple, BuiltinRange, BuiltinType, NewTuple, NewString
    <2>3. BuiltinInt \/ BuiltinString => program' = program
      BY DEF BuiltinInt, BuiltinString, NewString, Dropped
    <2> QED BY <2>1, <2>2, <2>3 DEF BuiltinCall
  <1>6. Ends => program' = program
    BY DEF Ends, Abort, Misbehave, Halt
  <1>7. Call \/ Return => program' = program
    BY DEF Call, Return
  <1>8. UNCHANGED vars => program' = program
    BY DEF vars
  <1> QED BY <1>1, <1>2, <1>3, <1>4, <1>5, <1>6, <1>7, <1>8 DEF Next

(* The invariant of balanced programs is inductive next to the machine's.    *)
LEMMA BalanceKept == IInv /\ BInv /\ [Next]_vars => BInv'
  <1> SUFFICES ASSUME IInv, BInv, [Next]_vars PROVE BInv'
    OBVIOUS
  <1>1. frame'.kind = "none" => callStack' = <<>>
    <2>1. CASE UNCHANGED control
      BY <2>1 DEF control, BInv
    <2>2. CASE Call
      BY <2>2 DEF Call
    <2>3. CASE Return
      <3>1. CASE callStack = <<>>
        BY <2>3, <3>1 DEF Return
      <3>2. CASE callStack # <<>>
        <4>1. frame' = callStack[Len(callStack)]
          BY <2>3, <3>2 DEF Return
        <4>2. Len(callStack) \in DOMAIN callStack
          BY <3>2 DEF IInv, ControlOK
        <4> QED BY <4>1, <4>2 DEF IInv, ControlOK
      <3> QED BY <3>1, <3>2
    <2>4. CASE Moves \/ Jumps \/ Computes \/ Iterates \/ BuiltinCall \/ Ends
      BY <2>1, <2>4, OtherStepsStay
    <2>5. CASE UNCHANGED vars
      BY <2>1, <2>5 DEF vars
    <2> QED BY <2>2, <2>3, <2>4, <2>5 DEF Next
  <1>2. IsBalanced' => IsBalanced
    <2>1. program' = program
      BY ProgramKept
    <2> QED BY <2>1 DEF IsBalanced
  <1> QED BY <1>1, <1>2, NextSteady DEF BInv

(* Where it is and what is on its stack: in every reachable state.           *)
THEOREM BalanceHolds == Spec => [](IInv /\ BInv)
  <1>1. Init => IInv /\ BInv
    BY InitInvariant, InitSteady
  <1>2. IInv /\ BInv /\ [Next]_vars => (IInv /\ BInv)'
    BY NextInvariant, BalanceKept
  <1> QED BY <1>1, <1>2, PTL DEF Spec

(* Outside functions there is no frame but the outermost.                    *)
LEMMA OutsideFunctions ==
  ASSUME IInv, BInv, IsBalanced
  PROVE  /\ frame.kind = "call" <=> region > 0
         /\ frame.kind # "call" => /\ callStack = <<>> /\ Len(Frames) \in {0, 1}
                                   /\ \A i \in DOMAIN Frames : Frames[i].kind # "call"
  <1>1. CASE frame.kind = "call"
    <2>1. Frames = Append(callStack, frame) /\ callStack \in Seq(Frame)
      BY <1>1 DEF Frames, IInv, ControlOK
    <2>2. Frames # <<>> /\ Frames[Len(Frames)] = frame
      BY <2>1
    <2>3. region = Prototype(frame.fn).region /\ frame.fn \in DOMAIN functions
      BY <1>1, <2>2 DEF IInv, ControlOK, FrameOK, CallChain, RegionOf
    <2>4. functions = Binaries[program].functions /\ Balanced(Binaries[program])
      BY DEF IInv, Loading, IsBalanced, BalancedPrograms
    <2>5. region > 0
      BY <2>3, <2>4 DEF Balanced, Prototype
    <2> QED BY <1>1, <2>5
  <1>2. CASE frame.kind = "none"
    <2>1. callStack = <<>> /\ Frames = <<>>
      BY <1>2 DEF BInv, Frames
    <2>2. region = 0
      BY <2>1 DEF IInv, ControlOK, CallChain
    <2> QED BY <1>2, <2>1, <2>2
  <1>3. CASE frame.kind = "stray"
    <2>1. Frames = Append(callStack, frame) /\ callStack \in Seq(Frame)
      BY <1>3 DEF Frames, IInv, ControlOK
    <2>2. Frames # <<>> /\ Frames[Len(Frames)] = frame /\ Len(Frames) = Len(callStack) + 1
          /\ Len(Frames) \in DOMAIN Frames
      BY <2>1
    <2>3. region = 0 /\ Len(Frames) = 1
      BY <1>3, <2>2 DEF IInv, ControlOK, CallChain, RegionOf
    <2>4. callStack = <<>>
      BY <2>1, <2>2, <2>3
    <2>5. \A i \in DOMAIN Frames : Frames[i].kind # "call"
      BY <1>3, <2>1, <2>4
    <2> QED BY <1>3, <2>3, <2>4, <2>5
  <1> QED BY <1>1, <1>2, <1>3 DEF IInv, ControlOK, FrameOK, Frame

(* The depth where a balanced program is: never negative, and none is left   *)
(* at the end of the program.                                                *)
LEMMA LevelHere ==
  ASSUME IInv, BInv, IsBalanced
  PROVE  /\ pc \in 0..Len(Block) /\ Len(Block) \in Nat /\ Level[pc] \in Nat
         /\ ~Fetchable => region = 0 /\ pc = Len(Block) /\ Level[pc] = 0
  <1>1. PICK b, q, r, text, d : /\ b = Binaries[program] /\ q = region /\ r = q + 1
                                /\ text = Block /\ d = Level
    OBVIOUS
  <1>2. q \in 0..Len(code) - 1
    BY <1>1 DEF IInv, ControlOK
  <1>3. /\ r \in DOMAIN b.code /\ BalancedRegion(b, r) /\ text = b.code[r]
        /\ d = Depths(b, text) /\ text \in Seq(Instructions)
    BY <1>1, <1>2, RegionText DEF Block, Level
  <1>4. Len(text) \in Nat /\ pc \in 0..Len(text) /\ (q > 0 => pc < Len(text)) /\ q \in Nat
    BY <1>1, <1>2, <1>3, LoadedBinary DEF BInv, Steady, InText, IInv
  <1>5. CASE Fetchable
    BY <1>1, <1>4, <1>5, AtInstruction DEF BInv
  <1>6. CASE ~Fetchable
    <2>1. pc = Len(text) /\ q = 0
      BY <1>1, <1>4, <1>6 DEF Fetchable
    <2>2. d[Len(text)] = 0
      BY <1>1, <1>3, <2>1 DEF BalancedRegion
    <2> QED BY <1>1, <1>4, <2>1, <2>2
  <1> QED BY <1>5, <1>6

(* Whatever a balanced program calls and however deep, its stack is as deep  *)
(* as its text says, and no pop ever takes what its caller pushed.           *)
THEOREM StackCounted == Spec => []StackAsCounted
  <1>1. ASSUME IInv, BInv, IsBalanced
        PROVE  /\ pc \in 0..Len(Block)
               /\ sp = Bottom + Depth([region |-> region, offset |-> pc]) /\ Bottom \in 0..sp
               /\ 0..sp - 1 \subseteq DOMAIN stack
               /\ (status = "running" /\ Fetchable /\ Instruction.op = "RETURN")
                     => frame.kind = "call"
    <2>1. Counted /\ Steady
      BY <1>1 DEF BInv, Steady
    <2>2. pc \in 0..Len(Block) /\ Level[pc] \in Nat
      BY <1>1, LevelHere
    <2>3. Bottom \in Nat
      BY <1>1, BelowNat
    <2>4. sp = Bottom + Level[pc]
      BY <2>1 DEF Counted, Depth, Here, Level
    <2>5. Bottom \in 0..sp
      BY <2>2, <2>3, <2>4
    <2>6. Fetchable /\ Instruction.op = "RETURN" => frame.kind = "call"
      BY <1>1, <2>1, AtInstruction, OutsideFunctions
    <2> QED BY <2>1, <2>2, <2>5, <2>6 DEF Counted, Here
  <1>2. IInv /\ BInv => StackAsCounted
    BY <1>1 DEF StackAsCounted
  <1> QED BY <1>2, BalanceHolds, PTL

(* Nothing a balanced program calls writes to its caller's part of the       *)
(* stack: what is pushed before a call is there to be popped behind it.      *)
THEOREM CallersPartKept == Spec => CallersStackKept
  <1>1. IInv /\ BInv /\ [Next]_vars
          => [IsBalanced => \A a \in DOMAIN stack \cap 0..Bottom - 1 : stack'[a] = stack[a]]_vars
    BY NextSteady DEF BInv, Spared
  <1> QED BY <1>1, BalanceHolds, PTL DEF Spec, CallersStackKept

(* A balanced program that ends does so at its end, outside all functions,   *)
(* with nothing on the stack.                                                *)
THEOREM BalancedEndClean == Spec => [](IsBalanced => EndsClean)
  <1>1. ASSUME IInv, BInv, IsBalanced, status = "halted"
        PROVE  /\ region = 0 /\ pc = Len(Block)
               /\ frame.kind # "call" /\ \A i \in DOMAIN callStack : callStack[i].kind # "call"
               /\ sp = 0
    <2>1. Steady /\ ~Fetchable
      BY <1>1 DEF BInv, Steady
    <2>2. region = 0 /\ pc = Len(Block) /\ Level[pc] = 0
      BY <1>1, <2>1, LevelHere
    <2>3. /\ frame.kind # "call" /\ callStack = <<>> /\ Len(Frames) \in {0, 1}
          /\ \A i \in DOMAIN Frames : Frames[i].kind # "call"
      <3>1. ~(region > 0)
        BY <2>2
      <3> QED BY <1>1, <3>1, OutsideFunctions
    <2>4. Bottom = 0
      BY <1>1, <2>3, FramesInUse, OutermostBottom DEF Bottom
    <2>5. sp = Bottom + Level[pc]
      BY <2>1 DEF Steady, Counted, Depth, Here, Level
    <2> QED BY <2>2, <2>3, <2>4, <2>5
  <1>2. IInv /\ BInv => (IsBalanced => EndsClean)
    BY <1>1 DEF EndsClean
  <1> QED BY <1>2, BalanceHolds, PTL
===============================================================================
