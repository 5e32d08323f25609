---------------------------- MODULE BinaryFile_proofs ----------------------------
(***************************************************************************)
(* memory_t keeps the cells its clients write in order, for every initial    *)
(* capacity and every number of cells; and a binary written and loaded again *)
(* is the one that was written, for every data section the compiler can      *)
(* fill: any number of cells, of any values.                                 *)
(***************************************************************************)
EXTENDS BinaryFile, Iteration, SequenceTheorems, TLAPS

(* The array m of values V after u of its cells were written in order.       *)
(* memory.c:34 tests nothing: that the new capacity is enough, and that what *)
(* is behind the cells written is clear, both follow from the order of the   *)
(* writes, so the invariant needs all of it.                                 *)
InOrder(m, u, V) ==
  /\ m.capacity \in Nat \ {0} /\ u \in 0..m.capacity
  /\ m = [capacity |-> m.capacity, contents |-> m.contents]
  /\ m.contents \in [0..m.capacity - 1 -> V]
  /\ \A i \in u..m.capacity - 1 : m.contents[i] = Nothing
ArrayInv == InOrder(mem, used, Values)

(* Growing for a client that writes in order: by doubling, or not at all.    *)
LEMMA RoomInOrder ==
  ASSUME NEW V, Nothing \in V, NEW m, NEW u, InOrder(m, u, V), NEW a \in 0..u
  PROVE  /\ ~ Overruns(m, a) /\ a < Room(m, a).capacity
         /\ Room(m, a).capacity = IF a = m.capacity THEN 2 * m.capacity ELSE m.capacity
         /\ InOrder(Room(m, a), u, V)
         /\ \A i \in 0..u - 1 : Room(m, a).contents[i] = m.contents[i]
  <1> USE DEF InOrder
  <1>1. CASE m.capacity - 1 < a
    <2>1. a = m.capacity /\ u = m.capacity
      BY <1>1
    <2>2. NewCapacity(m, a) = 2 * m.capacity
      BY <2>1 DEF NewCapacity
    <2> DEFINE contents == [i \in 0..2 * m.capacity - 1 |-> IF i < m.capacity THEN m.contents[i] ELSE Nothing]
    <2>3. Room(m, a) = [capacity |-> 2 * m.capacity, contents |-> contents]
      BY <1>1, <2>2 DEF Room
    <2>4. contents \in [0..2 * m.capacity - 1 -> V]
      OBVIOUS
    <2>5. \A i \in 0..u - 1 : contents[i] = m.contents[i]
      BY <2>1
    <2>6. \A i \in u..2 * m.capacity - 1 : contents[i] = Nothing
      BY <2>1
    <2> QED BY <2>1, <2>3, <2>4, <2>5, <2>6 DEF Overruns
  <1>2. CASE ~ (m.capacity - 1 < a)
    <2>1. Room(m, a) = m
      BY <1>2 DEF Room
    <2> QED BY <1>2, <2>1 DEF Overruns
  <1> QED BY <1>1, <1>2

(* memory_set by a client that writes in order.                              *)
LEMMA SetInOrder ==
  ASSUME NEW V, Nothing \in V, NEW m, NEW u, InOrder(m, u, V), NEW a \in 0..u, NEW v \in V
  PROVE  /\ MemorySet(m, a, v).capacity = IF a = m.capacity THEN 2 * m.capacity ELSE m.capacity
         /\ InOrder(MemorySet(m, a, v), IF a = u THEN u + 1 ELSE u, V)
         /\ \A i \in 0..u : i = a \/ i < u => MemorySet(m, a, v).contents[i] = IF i = a THEN v ELSE m.contents[i]
  <1> DEFINE room  == Room(m, a)
             set   == MemorySet(m, a, v)
             later == IF a = u THEN u + 1 ELSE u
  <1>1. /\ a < room.capacity /\ InOrder(room, u, V)
        /\ room.capacity = IF a = m.capacity THEN 2 * m.capacity ELSE m.capacity
        /\ \A i \in 0..u - 1 : room.contents[i] = m.contents[i]
    BY RoomInOrder
  <1>2. set = [room EXCEPT !.contents = [i \in DOMAIN @ |-> IF i = a THEN v ELSE @[i]]]
    BY DEF MemorySet
  <1>3. room = [capacity |-> room.capacity, contents |-> room.contents] /\ DOMAIN room.contents = 0..room.capacity - 1
    BY <1>1 DEF InOrder
  <1>4. u \in Nat /\ a \in Nat /\ a <= u /\ room.capacity \in Nat \ {0} /\ u <= room.capacity
    BY <1>1 DEF InOrder
  <1> HIDE DEF room, set
  <1>5. /\ set.capacity = room.capacity
        /\ set.contents = [i \in 0..room.capacity - 1 |-> IF i = a THEN v ELSE room.contents[i]]
        /\ set = [capacity |-> set.capacity, contents |-> set.contents]
    BY <1>2, <1>3
  <1>6. room.contents \in [0..room.capacity - 1 -> V]
    BY <1>1 DEF InOrder
  <1>7. set.contents \in [0..set.capacity - 1 -> V]
    BY <1>5, <1>6
  <1>8. later \in 0..set.capacity
    BY <1>1, <1>4, <1>5, SMTT(30)
  <1>9. ASSUME NEW i \in later..set.capacity - 1 PROVE set.contents[i] = Nothing
    <2>1. i \in u..room.capacity - 1 /\ i # a /\ i \in 0..room.capacity - 1
      BY <1>4, <1>5
    <2> QED BY <1>1, <1>5, <2>1 DEF InOrder
  <1>10. InOrder(set, later, V)
    BY <1>4, <1>5, <1>7, <1>8, <1>9 DEF InOrder
  <1>11. ASSUME NEW i \in 0..u, i = a \/ i < u PROVE set.contents[i] = IF i = a THEN v ELSE m.contents[i]
    <2>1. i \in 0..room.capacity - 1
      BY <1>1, <1>4, <1>11
    <2>2. i # a => i \in 0..u - 1
      BY <1>4, <1>11
    <2> QED BY <1>1, <1>5, <2>1, <2>2
  <1> QED BY <1>1, <1>5, <1>10, <1>11 DEF room, set

LEMMA ArrayStep == ArrayInv /\ [Next]_<<mem, used>> => ArrayInv'
  <1> SUFFICES ASSUME ArrayInv, [Next]_<<mem, used>> PROVE ArrayInv'
    OBVIOUS
  <1>1. ASSUME NEW a \in 0..used, NEW v \in Values, Set(a, v) PROVE ArrayInv'
    <2>1. InOrder(MemorySet(mem, a, v), IF a = used THEN used + 1 ELSE used, Values)
      BY MemoryArrayAssumption, SetInOrder DEF ArrayInv
    <2> QED BY <1>1, <2>1 DEF Set, ArrayInv
  <1>2. CASE UNCHANGED <<mem, used>>
    BY <1>2 DEF ArrayInv
  <1> QED BY <1>1, <1>2 DEF Next

(* memory_create.                                                            *)
LEMMA CreatedInOrder ==
  ASSUME NEW V, Nothing \in V, NEW n \in Nat \ {0}
  PROVE  InOrder(MemoryCreate(n), 0, V) /\ MemoryCreate(n).capacity = n
  BY DEF MemoryCreate, Cleared, InOrder

LEMMA ArrayStarts == Init => ArrayInv
  BY MemoryArrayAssumption, CreatedInOrder DEF Init, ArrayInv

(* memory_t is at any moment an array written in order (memory.c:19).        *)
THEOREM ArrayInvariant == Spec => []ArrayInv
  BY ArrayStarts, ArrayStep, PTL DEF Spec
-------------------------------------------------------------------------------
(* The array's shape, and the counter of its client within it.               *)
THEOREM ArrayTyped == Spec => []MemoryTypeOK
  <1>1. ArrayInv => MemoryTypeOK
    BY DEF ArrayInv, InOrder, MemoryTypeOK
  <1> QED BY <1>1, ArrayInvariant, PTL

(* No client that writes in order makes memory_set write outside the array,  *)
(* whatever the capacity it started from (memory.c:34).                      *)
THEOREM StaysInArray == Spec => []NeverOverruns
  <1>1. ArrayInv => NeverOverruns
    <2> SUFFICES ASSUME ArrayInv PROVE NeverOverruns
      OBVIOUS
    <2>1. \A a \in 0..used : ~ Overruns(mem, a)
      BY MemoryArrayAssumption, RoomInOrder DEF ArrayInv
    <2> QED BY <2>1 DEF NeverOverruns, ArrayInv, InOrder
  <1> QED BY <1>1, ArrayInvariant, PTL

(* memory_t implements the cells: no set moves, loses or changes another     *)
(* cell, growing included.                                                   *)
THEOREM ArrayIsCells == Spec => ImplementsCells
  <1>1. ASSUME ArrayInv, NEW a \in 0..used, NEW v \in Values, Set(a, v)
        PROVE  Abstract!Set(a, v)
    <2> DEFINE cells == [b \in 0..used - 1 |-> mem.contents[b]]
               after == 0..used' - 1
    <2>1. used \in Nat /\ used' = IF a = used THEN used + 1 ELSE used
      BY <1>1 DEF Set, ArrayInv, InOrder
    <2>2. DOMAIN cells = 0..used - 1 /\ after = DOMAIN cells \cup {a}
      BY <2>1
    <2>3. a \in DOMAIN cells \/ Abstract!Fresh(a)
      BY <2>1, <2>2 DEF Abstract!Fresh
    <2>4. mem' = MemorySet(mem, a, v)
      BY <1>1 DEF Set
    <2>5. ASSUME NEW b \in after PROVE mem'.contents[b] = IF b = a THEN v ELSE cells[b]
      <3>1. b \in 0..used /\ (b = a \/ b < used) /\ (b # a => b \in 0..used - 1)
        BY <2>1
      <3>2. mem'.contents[b] = IF b = a THEN v ELSE mem.contents[b]
        BY <1>1, <2>4, <3>1, MemoryArrayAssumption, SetInOrder DEF ArrayInv
      <3> QED BY <3>1, <3>2
    <2>6. [b \in after |-> mem'.contents[b]] = [b \in DOMAIN cells \cup {a} |-> IF b = a THEN v ELSE cells[b]]
      BY <2>2, <2>5
    <2> QED BY <2>3, <2>6 DEF Abstract!Set
  <1>2. ArrayInv /\ [Next]_<<mem, used>> => [\E a \in 0..used, v \in Values : Abstract!Set(a, v)]_<<mem, used>>
    BY <1>1 DEF Next
  <1> QED BY <1>2, ArrayInvariant, PTL DEF Spec, ImplementsCells
-------------------------------------------------------------------------------
KeptValues == Values \cup {Kept(v) : v \in Values}

(* What a string is cut to and read up to is its own Nul.                    *)
LEMMA CStringIs ==
  ASSUME NEW s \in Seq(Bytes \ {Nul})
  PROVE  CString(SubSeq(Append(s, Nul), 1, Len(s) + 1)) = s
  <1> DEFINE t == Append(s, Nul)
             End(i) == i \in DOMAIN t /\ t[i] = Nul /\ \A j \in 1..i - 1 : t[j] # Nul
             end == CHOOSE i \in DOMAIN t : t[i] = Nul /\ \A j \in 1..i - 1 : t[j] # Nul
  <1>1. t \in Seq(Bytes \cup {Nul}) /\ Len(t) = Len(s) + 1 /\ Len(s) \in Nat /\ DOMAIN t = 1..Len(s) + 1
    BY LenProperties, AppendProperties
  <1>2. t[Len(s) + 1] = Nul /\ \A i \in 1..Len(s) : t[i] = s[i] /\ s[i] # Nul
    BY <1>1
  <1> HIDE DEF t
  <1>3. SubSeq(t, 1, Len(s) + 1) = t
    BY <1>1, SubSeqFull
  <1>4. End(Len(s) + 1)
    BY <1>1, <1>2
  <1>5. End(end)
    BY <1>4
  <1>6. end = Len(s) + 1
    <2>1. end \in 1..Len(s) + 1 /\ ~ (end \in 1..Len(s))
      BY <1>1, <1>2, <1>5
    <2> HIDE DEF end
    <2> QED BY <1>1, <2>1
  <1>7. CString(t) = SubSeq(t, 1, end - 1)
    BY <1>4 DEF CString
  <1> HIDE DEF end
  <1>8. CString(t) = SubSeq(t, 1, Len(s))
    BY <1>1, <1>6, <1>7
  <1>9. SubSeq(t, 1, Len(s)) = s
    BY DEF t
  <1> QED BY <1>3, <1>8, <1>9 DEF t

(* What is read of a value is what the file keeps of it.                     *)
LEMMA UnpackedIsKept ==
  ASSUME NEW v \in Values
  PROVE  Unpacked(Packed(v)) = Kept(v) /\ Packed(v).size = PackedSize(v) /\ PackedSize(v) \in Nat
  <1>1. v = [type |-> v.type, contents |-> v.contents]
    BY BinaryFileAssumption, Zenon
  <1>2. CASE v.type = "STRING"
    <2>1. v.contents \in Seq(Bytes \ {Nul})
      BY <1>2, BinaryFileAssumption, Zenon
    <2>2. PackedSize(v) = Len(v.contents) + 1 /\ Len(v.contents) \in Nat
      BY <1>2, <2>1, LenProperties DEF PackedSize
    <2>3. CString(Payload(v)) = v.contents
      BY <1>2, <2>1, <2>2, CStringIs DEF Payload
    <2>4. Unpacked(Packed(v)) = [type |-> "STRING", contents |-> v.contents]
      BY <1>2, <2>2, <2>3 DEF Unpacked, Packed
    <2> QED BY <1>1, <1>2, <2>2, <2>4 DEF Kept, Packed
  <1>3. CASE v.type # "STRING"
    <2>1. PackedSize(v) \in {0, 1, 4}
      BY <1>3 DEF PackedSize
    <2> QED BY <1>1, <1>3, <2>1 DEF Unpacked, Packed, Payload, Kept
  <1> QED BY <1>2, <1>3
-------------------------------------------------------------------------------
(* The offsets of an array's cells, as the recursion reads.                  *)
LEMMA OffsetsAre ==
  ASSUME NEW m, m.capacity \in Nat, m.contents \in [0..m.capacity - 1 -> Values]
  PROVE  /\ Offsets(m) \in [0..m.capacity -> Nat] /\ Offsets(m)[0] = 0
         /\ \A i \in 1..m.capacity : Offsets(m)[i] = Offsets(m)[i - 1] + Descriptor + PackedSize(m.contents[i - 1])
  <1> DEFINE n == m.capacity
             size == [i \in 0..n - 1 |-> Descriptor + PackedSize(m.contents[i])]
             step == [i \in 1..n |-> [x \in Nat |-> x + size[i - 1]]]
             Recursion(f) == f = [i \in 0..n |-> IF i = 0 THEN 0 ELSE f[i - 1] + Descriptor + PackedSize(m.contents[i - 1])]
  <1>1. \A i \in 0..n - 1 : PackedSize(m.contents[i]) \in Nat
    BY UnpackedIsKept
  <1>2. size \in [0..n - 1 -> Nat]
    BY <1>1 DEF Descriptor
  <1>3. step \in Steps(Nat, n)
    <2>1. ASSUME NEW i \in 1..n PROVE size[i - 1] \in Nat
      <3>1. i - 1 \in 0..n - 1
        OBVIOUS
      <3> HIDE DEF size
      <3> QED BY <1>2, <3>1
    <2> HIDE DEF size
    <2> QED BY <2>1 DEF Steps
  <1>4. PICK f : IsIteration(f, Nat, n, 0, step)
    <2> HIDE DEF step
    <2> QED BY <1>3, SomeIterates
  <1>5. ASSUME NEW i \in 1..n, NEW x \in Nat
        PROVE  step[i][x] = x + Descriptor + PackedSize(m.contents[i - 1])
    <2>1. i - 1 \in 0..n - 1
      OBVIOUS
    <2>2. size[i - 1] = Descriptor + PackedSize(m.contents[i - 1]) /\ PackedSize(m.contents[i - 1]) \in Nat
      BY <1>1, <2>1
    <2>3. step[i][x] = x + size[i - 1]
      <3> HIDE DEF size
      <3> QED OBVIOUS
    <2> HIDE DEF step, size
    <2> QED BY <2>2, <2>3 DEF Descriptor
  <1>6. Recursion(f)
    <2>1. f \in [0..n -> Nat] /\ f[0] = 0 /\ \A i \in 1..n : f[i] = step[i][f[i - 1]]
      BY <1>4 DEF IsIteration
    <2> HIDE DEF step
    <2>2. \A i \in 1..n : f[i] = f[i - 1] + Descriptor + PackedSize(m.contents[i - 1])
      BY <1>5, <2>1, SMTT(30)
    <2>3. \A i \in 0..n : f[i] = IF i = 0 THEN 0 ELSE f[i - 1] + Descriptor + PackedSize(m.contents[i - 1])
      BY <2>1, <2>2
    <2> QED BY <2>1, <2>3
  <1> DEFINE offset == CHOOSE g : Recursion(g)
  <1>7. Recursion(offset)
    BY <1>6
  <1>8. Offsets(m) = offset
    BY DEF Offsets
  <1> HIDE DEF offset
  <1>9. /\ offset = [i \in 0..n |-> offset[i]] /\ offset[0] = 0
        /\ \A i \in 1..n : offset[i] = offset[i - 1] + Descriptor + PackedSize(m.contents[i - 1])
    BY <1>7
  <1>10. IsIteration(offset, Nat, n, 0, step)
    <2> HIDE DEF step
    <2>1. \A i \in 1..n : offset[i - 1] \in Nat => offset[i] = step[i][offset[i - 1]]
      BY <1>5, <1>9
    <2> QED BY <1>3, <1>9, <2>1, RecursionIterates
  <1> QED BY <1>8, <1>9, <1>10 DEF IsIteration

LEMMA OffsetsGrow ==
  ASSUME NEW m, m.capacity \in Nat, m.contents \in [0..m.capacity - 1 -> Values], NEW i \in 0..m.capacity, i # m.capacity
  PROVE  Offsets(m)[i] < TotalSize(m)
  <1> DEFINE n == m.capacity
             offset == Offsets(m)
             T == {j \in 0..n : i < j /\ ~ (offset[i] < offset[j])}
  <1>1. /\ offset \in [0..n -> Nat]
        /\ \A j \in 1..n : offset[j] = offset[j - 1] + Descriptor + PackedSize(m.contents[j - 1])
    BY OffsetsAre
  <1>2. \A j \in 0..n - 1 : PackedSize(m.contents[j]) \in Nat
    BY UnpackedIsKept
  <1> HIDE DEF offset
  <1>3. ASSUME NEW j \in 1..n PROVE offset[j - 1] < offset[j]
    <2>1. j - 1 \in 0..n - 1 /\ j - 1 \in 0..n
      OBVIOUS
    <2>2. offset[j - 1] \in Nat /\ PackedSize(m.contents[j - 1]) \in Nat
      BY <1>1, <1>2, <2>1
    <2> QED BY <1>1, <2>2 DEF Descriptor
  <1>4. ASSUME T # {} PROVE FALSE
    <2>1. PICK j \in T : \A k \in T : j <= k
      <3>1. T \in SUBSET Nat
        OBVIOUS
      <3> HIDE DEF T
      <3> QED BY <1>4, <3>1, Least
    <2>2. j \in 1..n /\ j - 1 \in 0..n /\ j - 1 \notin T
      BY <2>1
    <2>3. j - 1 = i \/ offset[i] < offset[j - 1]
      BY <2>1, <2>2
    <2>4. offset[i] \in Nat /\ offset[j] \in Nat /\ offset[j - 1] \in Nat
      BY <1>1, <2>2
    <2> QED BY <1>3, <2>1, <2>2, <2>3, <2>4
  <1>5. n \notin T /\ n \in 0..n
    BY <1>4
  <1>6. offset[i] < offset[n]
    BY <1>5
  <1> QED BY <1>6 DEF offset, TotalSize
-------------------------------------------------------------------------------
(* b comes of a by doubling: the capacities of an array that grows in order. *)
DoublesTo(a, b) == \A S \in SUBSET Nat : a \in S /\ (\A n \in S : 2 * n \in S) => b \in S

LEMMA Doubling ==
  ASSUME NEW a \in Nat, NEW b \in Nat
  PROVE  /\ DoublesTo(a, a)
         /\ DoublesTo(a, b) => DoublesTo(a, 2 * b) /\ a <= b
         /\ DoublesTo(a, b) /\ a # b => DoublesTo(2 * a, b)
  <1>1. DoublesTo(a, a)
    BY DEF DoublesTo
  <1>2. ASSUME DoublesTo(a, b) PROVE DoublesTo(a, 2 * b)
    BY <1>2 DEF DoublesTo
  <1>3. ASSUME DoublesTo(a, b) PROVE a <= b
    <2> DEFINE S == {n \in Nat : a <= n}
    <2>1. S \in SUBSET Nat /\ a \in S /\ \A n \in S : 2 * n \in S
      OBVIOUS
    <2>2. b \in S
      BY <1>3, <2>1, Zenon DEF DoublesTo
    <2> QED BY <2>2
  <1>4. ASSUME DoublesTo(a, b), a # b PROVE DoublesTo(2 * a, b)
    <2> SUFFICES ASSUME NEW S \in SUBSET Nat, 2 * a \in S, \A n \in S : 2 * n \in S PROVE b \in S
      BY DEF DoublesTo
    <2> DEFINE T == S \cup {a}
    <2>1. T \in SUBSET Nat /\ a \in T /\ \A n \in T : 2 * n \in T
      OBVIOUS
    <2>2. b \in T
      BY <1>4, <2>1, Zenon DEF DoublesTo
    <2> QED BY <1>4, <2>2
  <1> QED BY <1>1, <1>2, <1>3, <1>4
-------------------------------------------------------------------------------
(* What binary_write leaves on disk.                                         *)
Written ==
  [data_offset |-> Header, code_offset |-> Header + TotalSize(mem),
   cells |-> [i \in 0..mem.capacity - 1 |-> Packed(mem.contents[i])], code |-> Blocks[1]]

(* The loader has counted exactly the bytes of the cells it has stored, and  *)
(* its array grew as the one that was written had: since both doubled from   *)
(* one cell, neither the last cell nor the capacity can be missed.           *)
Loaded ==
  /\ loaded = [data |-> loaded.data, at |-> loaded.at, bytes_read |-> loaded.bytes_read, code |-> loaded.code]
  /\ loaded.at \in 0..mem.capacity
  /\ loaded.bytes_read = Offsets(mem)[loaded.at]
  /\ InOrder(loaded.data, loaded.at, KeptValues)
  /\ DoublesTo(loaded.data.capacity, mem.capacity)
  /\ \A a \in 0..loaded.at - 1 : loaded.data.contents[a] = Kept(mem.contents[a])

BinaryInv ==
  /\ phase \in {"compiling", "written", "loading", "loaded"}
  /\ ArrayInv /\ DoublesTo(1, mem.capacity)
  /\ phase # "compiling" => file = Written
  /\ phase \in {"loading", "loaded"} => Loaded
  /\ phase = "loaded" => loaded.at = mem.capacity /\ loaded.code = << Blocks[1] >>

LEMMA BinaryStarts == BinaryInit => BinaryInv
  <1> SUFFICES ASSUME BinaryInit PROVE BinaryInv
    OBVIOUS
  <1>1. ArrayInv
    BY ArrayStarts DEF BinaryInit
  <1>2. mem.capacity = 1
    BY BinaryFileAssumption DEF BinaryInit, Init, MemoryCreate
  <1> QED BY <1>1, <1>2, Doubling DEF BinaryInit, BinaryInv

LEMMA CompileStep == BinaryInv /\ Compile => BinaryInv'
  <1> SUFFICES ASSUME BinaryInv, Compile PROVE BinaryInv'
    OBVIOUS
  <1>1. PICK a \in 0..used, v \in Values : Set(a, v)
    BY DEF Compile, Next
  <1>2. mem'.capacity = IF a = mem.capacity THEN 2 * mem.capacity ELSE mem.capacity
    BY <1>1, SetInOrder, MemoryArrayAssumption DEF BinaryInv, ArrayInv, Set
  <1>3. DoublesTo(1, mem'.capacity)
    <2>1. DoublesTo(1, mem.capacity) /\ mem.capacity \in Nat
      BY DEF BinaryInv, ArrayInv, InOrder
    <2>2. DoublesTo(1, 2 * mem.capacity)
      BY <2>1, Doubling
    <2> QED BY <1>2, <2>1, <2>2
  <1>4. ArrayInv'
    BY ArrayStep DEF Compile, BinaryInv
  <1> QED BY <1>3, <1>4 DEF BinaryInv, Compile

LEMMA WriteStep == BinaryInv /\ Write => BinaryInv'
  <1> SUFFICES ASSUME BinaryInv, Write PROVE BinaryInv'
    OBVIOUS
  <1>1. ArrayInv' /\ DoublesTo(1, mem.capacity)'
    BY DEF BinaryInv, Write, ArrayInv
  <1>2. file' = Written'
    BY DEF Write, Written
  <1> QED BY <1>1, <1>2 DEF BinaryInv, Write

(* A new array of one cell.                                                  *)
LEMMA OpenStep == BinaryInv /\ Open => BinaryInv'
  <1> SUFFICES ASSUME BinaryInv, Open PROVE BinaryInv'
    OBVIOUS
  <1>1. mem.capacity \in Nat \ {0} /\ mem.contents \in [0..mem.capacity - 1 -> Values]
    BY DEF BinaryInv, ArrayInv, InOrder
  <1>2. Offsets(mem)[0] = 0
    BY <1>1, OffsetsAre
  <1>3. Nothing \in KeptValues
    BY MemoryArrayAssumption DEF KeptValues
  <1>4. InOrder(MemoryCreate(1), 0, KeptValues) /\ MemoryCreate(1).capacity = 1
    BY <1>3, CreatedInOrder
  <1>5. loaded' = Unloaded /\ mem' = mem
    BY DEF Open
  <1>6. Loaded'
    BY <1>1, <1>2, <1>4, <1>5 DEF Loaded, Unloaded, BinaryInv
  <1>7. ArrayInv' /\ DoublesTo(1, mem.capacity)' /\ file' = Written'
    BY <1>5 DEF BinaryInv, Open, ArrayInv, Written
  <1> QED BY <1>6, <1>7 DEF BinaryInv, Open

(* There are bytes left exactly as long as there are cells left.             *)
LEMMA MoreDataIff ==
  ASSUME BinaryInv, phase = "loading"
  PROVE  MoreData <=> loaded.at # mem.capacity
  <1>1. mem.capacity \in Nat \ {0} /\ mem.contents \in [0..mem.capacity - 1 -> Values]
    BY DEF BinaryInv, ArrayInv, InOrder
  <1>2. Offsets(mem) \in [0..mem.capacity -> Nat]
    BY <1>1, OffsetsAre
  <1>3. TotalSize(mem) \in Nat
    BY <1>1, <1>2 DEF TotalSize
  <1>4. file.code_offset - file.data_offset = TotalSize(mem)
    BY <1>3 DEF BinaryInv, Written, Header
  <1>5. loaded.at \in 0..mem.capacity /\ loaded.bytes_read = Offsets(mem)[loaded.at]
    BY DEF BinaryInv, Loaded
  <1>6. CASE loaded.at = mem.capacity
    BY <1>3, <1>4, <1>5, <1>6 DEF MoreData, TotalSize
  <1>7. CASE loaded.at # mem.capacity
    BY <1>1, <1>4, <1>5, <1>7, OffsetsGrow DEF MoreData
  <1> QED BY <1>6, <1>7

LEMMA LoadCellStep == BinaryInv /\ LoadCell => BinaryInv'
  <1> SUFFICES ASSUME BinaryInv, LoadCell PROVE BinaryInv'
    OBVIOUS
  <1> DEFINE at   == loaded.at
             size == mem.capacity
             v    == mem.contents[at]
             set  == MemorySet(loaded.data, at, Kept(v))
  <1>1. Loaded /\ phase = "loading" /\ file = Written
    BY DEF BinaryInv, LoadCell
  <1>2. size \in Nat \ {0} /\ mem.contents \in [0..size - 1 -> Values]
    BY DEF BinaryInv, ArrayInv, InOrder
  <1>3. at \in 0..size - 1
    <2>1. at # size /\ at \in 0..size
      BY <1>1, MoreDataIff DEF LoadCell, Loaded
    <2> QED BY <1>2, <2>1
  <1>4. v \in Values /\ file.cells[at] = Packed(v)
    BY <1>1, <1>2, <1>3 DEF Written
  <1>5. Unpacked(Packed(v)) = Kept(v) /\ Packed(v).size = PackedSize(v) /\ PackedSize(v) \in Nat
    BY <1>4, UnpackedIsKept
  <1>6. loaded' = [loaded EXCEPT !.data = set, !.at = at + 1, !.bytes_read = @ + Descriptor + PackedSize(v)]
    BY <1>4, <1>5 DEF LoadCell
  <1> HIDE DEF set, v
  <1>7. /\ loaded'.data = set /\ loaded'.at = at + 1
        /\ loaded'.bytes_read = loaded.bytes_read + Descriptor + PackedSize(v)
        /\ loaded' = [data |-> loaded'.data, at |-> loaded'.at, bytes_read |-> loaded'.bytes_read, code |-> loaded'.code]
    BY <1>1, <1>6 DEF Loaded
  <1>8. mem' = mem /\ used' = used /\ file' = file /\ phase' = phase
    BY DEF LoadCell
  <1>9. loaded'.bytes_read = Offsets(mem)[at + 1]
    <2>1. at + 1 \in 1..size /\ at \in Int
      BY <1>2, <1>3
    <2>2. \A i \in 1..size : Offsets(mem)[i] = Offsets(mem)[i - 1] + Descriptor + PackedSize(mem.contents[i - 1])
      BY <1>2, OffsetsAre
    <2> DEFINE i == at + 1
    <2>3. i \in 1..size /\ i - 1 = at
      BY <2>1
    <2>4. Offsets(mem)[i] = Offsets(mem)[i - 1] + Descriptor + PackedSize(mem.contents[i - 1])
      <3> HIDE DEF i
      <3> QED BY <2>2, <2>3
    <2>5. Offsets(mem)[i] = Offsets(mem)[at] + Descriptor + PackedSize(mem.contents[at])
      <3> HIDE DEF i
      <3> QED BY <2>3, <2>4
    <2> QED BY <1>1, <1>7, <2>5 DEF Loaded, v
  <1>10. Nothing \in KeptValues /\ Kept(v) \in KeptValues
    BY <1>4, MemoryArrayAssumption DEF KeptValues
  <1>11. InOrder(loaded.data, at, KeptValues) /\ at \in 0..at
    BY <1>1, <1>3 DEF Loaded
  <1>12. /\ set.capacity = IF at = loaded.data.capacity THEN 2 * loaded.data.capacity ELSE loaded.data.capacity
         /\ InOrder(set, at + 1, KeptValues)
         /\ \A i \in 0..at : set.contents[i] = IF i = at THEN Kept(v) ELSE loaded.data.contents[i]
    BY <1>10, <1>11, <1>3, SetInOrder DEF set
  <1>13. DoublesTo(set.capacity, size)
    <2>1. DoublesTo(loaded.data.capacity, size) /\ loaded.data.capacity \in Nat
      BY <1>1 DEF Loaded, InOrder
    <2>2. at = loaded.data.capacity => loaded.data.capacity # size
      BY <1>2, <1>3
    <2>3. at = loaded.data.capacity => DoublesTo(2 * loaded.data.capacity, size)
      BY <1>2, <2>1, <2>2, Doubling
    <2> QED BY <1>12, <2>1, <2>3
  <1>14. ASSUME NEW a \in 0..at PROVE set.contents[a] = Kept(mem.contents[a])
    <2>1. a = at \/ a \in 0..at - 1
      BY <1>3
    <2> QED BY <1>1, <1>12, <2>1 DEF Loaded, v
  <1>15. Loaded'
    <2>1. at + 1 \in 0..size /\ at \in Int
      BY <1>2, <1>3
    <2>2. InOrder(loaded.data, loaded.at, KeptValues)'
      BY <1>7, <1>12
    <2>3. \A a \in 0..loaded'.at - 1 : loaded'.data.contents[a] = Kept(mem'.contents[a])
      <3>1. loaded'.at - 1 = at
        BY <1>7, <2>1
      <3>2. loaded'.data = set /\ mem' = mem
        BY <1>7, <1>8
      <3> QED BY <1>14, <3>1, <3>2
    <2>4. loaded'.at \in 0..mem'.capacity /\ loaded'.bytes_read = Offsets(mem')[loaded'.at]
      BY <1>7, <1>8, <1>9, <2>1
    <2>5. DoublesTo(loaded'.data.capacity, mem'.capacity)
      BY <1>7, <1>8, <1>13
    <2> QED BY <1>7, <2>2, <2>3, <2>4, <2>5 DEF Loaded
  <1>16. ArrayInv' /\ DoublesTo(1, mem.capacity)' /\ Written' = Written
    BY <1>8 DEF BinaryInv, ArrayInv, Written
  <1> QED BY <1>1, <1>8, <1>15, <1>16 DEF BinaryInv

LEMMA LoadCodeStep == BinaryInv /\ LoadCode => BinaryInv'
  <1> SUFFICES ASSUME BinaryInv, LoadCode PROVE BinaryInv'
    OBVIOUS
  <1>1. Loaded /\ phase = "loading" /\ file = Written
    BY DEF BinaryInv, LoadCode
  <1>2. loaded.at = mem.capacity
    BY <1>1, MoreDataIff DEF LoadCode
  <1>3. loaded' = [loaded EXCEPT !.code = << file.code >>] /\ mem' = mem /\ used' = used /\ file' = file
    BY DEF LoadCode
  <1>4. Loaded' /\ loaded'.at = loaded.at /\ loaded'.code = << Blocks[1] >>
    BY <1>1, <1>3 DEF Loaded, Written
  <1>5. ArrayInv' /\ DoublesTo(1, mem.capacity)' /\ Written' = Written
    BY <1>3 DEF BinaryInv, ArrayInv, Written
  <1> QED BY <1>1, <1>2, <1>3, <1>4, <1>5 DEF BinaryInv, LoadCode

LEMMA BinaryStep == BinaryInv /\ [BinaryNext]_vars => BinaryInv'
  <1>1. CASE UNCHANGED vars
    BY <1>1 DEF BinaryInv, vars, ArrayInv, Written, Loaded
  <1> QED BY <1>1, CompileStep, WriteStep, OpenStep, LoadCellStep, LoadCodeStep DEF BinaryNext

(* What binary_load has so far is what binary_write left (binary.c:33, 104). *)
THEOREM BinaryInvariant == BinarySpec => []BinaryInv
  BY BinaryStarts, BinaryStep, PTL DEF BinarySpec
-------------------------------------------------------------------------------
(* The loader, which only counts bytes (binary.c:52), stays in step with the *)
(* cells of any data section: each comes back at its own address.            *)
THEOREM LoadsInStep == BinarySpec => []LoadsWhatWasWritten
  <1>1. BinaryInv => LoadsWhatWasWritten
    <2> SUFFICES ASSUME BinaryInv, Loaded
                 PROVE  /\ loaded.at <= mem.capacity
                        /\ \A a \in 0..loaded.at - 1 : MemoryGet(loaded.data, a) = Kept(mem.contents[a])
      BY DEF LoadsWhatWasWritten, BinaryInv
    <2>1. loaded.at \in Nat /\ loaded.at <= mem.capacity
      BY DEF Loaded, BinaryInv, ArrayInv, InOrder
    <2>2. ASSUME NEW a \in 0..loaded.at - 1 PROVE MemoryGet(loaded.data, a) = Kept(mem.contents[a])
      <3>1. a < loaded.data.capacity /\ a \in Nat /\ loaded.data.capacity \in Nat
        BY <2>1 DEF Loaded, InOrder
      <3> QED BY <3>1 DEF MemoryGet, Loaded
    <2> QED BY <2>1, <2>2
  <1> QED BY <1>1, BinaryInvariant, PTL

(* When the loader comes to the end of the data section it has every cell,   *)
(* in an array as large as the one that was written (memory.c:34), and the   *)
(* code of the module.                                                       *)
THEOREM ComesBackWhole == BinarySpec => []RoundTrip
  <1>1. BinaryInv => RoundTrip
    <2> SUFFICES ASSUME BinaryInv, phase = "loaded"
                 PROVE  /\ loaded.at = mem.capacity /\ loaded.data.capacity = mem.capacity
                        /\ loaded.bytes_read = file.code_offset - Header
                        /\ loaded.code = << Blocks[1] >>
      BY DEF RoundTrip
    <2>1. Loaded /\ file = Written /\ loaded.at = mem.capacity /\ loaded.code = << Blocks[1] >>
      BY DEF BinaryInv
    <2>2. mem.capacity \in Nat \ {0} /\ mem.contents \in [0..mem.capacity - 1 -> Values]
      BY DEF BinaryInv, ArrayInv, InOrder
    <2>3. loaded.data.capacity \in Nat /\ mem.capacity <= loaded.data.capacity
      BY <2>1 DEF Loaded, InOrder
    <2>4. loaded.data.capacity <= mem.capacity
      BY <2>1, <2>2, <2>3, Doubling DEF Loaded
    <2>5. TotalSize(mem) \in Nat /\ loaded.bytes_read = TotalSize(mem)
      BY <2>1, <2>2, OffsetsAre DEF TotalSize, Loaded
    <2>6. file.code_offset = Header + TotalSize(mem)
      BY <2>1 DEF Written
    <2>7. file.code_offset - Header = TotalSize(mem)
      BY <2>5, <2>6 DEF Header
    <2> QED BY <2>1, <2>2, <2>3, <2>4, <2>5, <2>7
  <1> QED BY <1>1, BinaryInvariant, PTL
===============================================================================
