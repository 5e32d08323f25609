------------------------------- MODULE MemoryArray -------------------------------
(***************************************************************************)
(* machine/memory.c: an array of values that grows when it is written past   *)
(* its end.  Its clients write the cells in order (mp++, sp++, csp++) and    *)
(* rewrite those they have.                                                  *)
(***************************************************************************)
EXTENDS Naturals

CONSTANTS
  Values,
  Nothing,     (* VAL_ABSENT: what calloc and the clearing loop leave         *)
  Size,        (* what memory_create was given                                *)
  MaxUsed      (* bound: cells ever written                                   *)

ASSUME MemoryArrayAssumption ==
  Size \in Nat \ {0} /\ MaxUsed \in Nat /\ Nothing \in Values

VARIABLES
  mem,         (* [capacity, contents]                                        *)
  used         (* the client's counter: mp, or the highest sp                 *)

Cleared(n) == [i \in 0..n - 1 |-> Nothing]
MemoryCreate(n) == [capacity |-> n, contents |-> Cleared(n)]

(* Mutant: no more than the address that did not fit.                        *)
JustEnough(m, a) == IF a >= m.capacity THEN a ELSE 2 * m.capacity
(* memory_set; a cell past the new capacity is written outside the array.    *)
NewCapacity(m, a) == IF a > 2 * m.capacity THEN 2 * a ELSE 2 * m.capacity
(* Mutant: the capacity grows, the array does not.                           *)
RoomUnfilled(m, a) == [m EXCEPT !.capacity = IF @ - 1 < a THEN NewCapacity(m, a) ELSE @]
(* Mutant: the clearing loop starts at 0.                                    *)
RoomAllCleared(m, a) ==
  IF m.capacity - 1 < a THEN MemoryCreate(NewCapacity(m, a)) ELSE m
Room(m, a) ==
  IF m.capacity - 1 < a
    THEN [capacity |-> NewCapacity(m, a),
          contents |-> [i \in 0..NewCapacity(m, a) - 1 |->
                          IF i < m.capacity THEN m.contents[i] ELSE Nothing]]
    ELSE m
Overruns(m, a) == a >= Room(m, a).capacity
MemorySet(m, a, v) ==
  [Room(m, a) EXCEPT !.contents = [i \in DOMAIN @ |-> IF i = a THEN v ELSE @[i]]]

(* memory_get; the cell at the capacity itself is read outside the array.    *)
MemoryGet(m, a) ==
  IF a > m.capacity THEN Nothing ELSE IF a = m.capacity THEN "outside" ELSE m.contents[a]
-------------------------------------------------------------------------------
Init == mem = MemoryCreate(Size) /\ used = 0

Set(a, v) ==
  /\ a <= used /\ a < MaxUsed
  /\ mem' = MemorySet(mem, a, v)
  /\ used' = IF a = used THEN used + 1 ELSE used

Next == \E a \in 0..used, v \in Values : Set(a, v)
Spec == Init /\ [][Next]_<<mem, used>>
-------------------------------------------------------------------------------
MemoryTypeOK ==
  /\ mem.capacity \in Nat \ {0} /\ used \in 0..mem.capacity
  /\ mem = [capacity |-> mem.capacity, contents |-> mem.contents]
  /\ mem.contents \in [0..mem.capacity - 1 -> Values]

(* However it grew, the array never leaves its own bounds for a client that  *)
(* writes in order (memory.c:34), although one that skips to twice the       *)
(* capacity would, and has cleared whatever was not written yet.             *)
NeverOverruns ==
  /\ \A a \in 0..used : ~ Overruns(mem, a)
  /\ \A i \in used..mem.capacity - 1 : mem.contents[i] = Nothing

(* The array is the cells its clients take it for: growing moves none, loses *)
(* none and writes no other.                                                 *)
Abstract == INSTANCE Cells WITH cells <- [a \in 0..used - 1 |-> mem.contents[a]]
ImplementsCells == [][\E a \in 0..used, v \in Values : Abstract!Set(a, v)]_<<mem, used>>
===============================================================================
