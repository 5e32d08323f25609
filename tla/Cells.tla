---------------------------------- MODULE Cells ----------------------------------
(***************************************************************************)
(* What the compiler and the machine take a memory_t for: cells written one  *)
(* after another, any of them written again later.  VM.tla keeps its memory  *)
(* and its stack in this form.                                               *)
(***************************************************************************)
EXTENDS Naturals

CONSTANTS Values, Nothing

VARIABLE cells

Init == cells = [a \in {} |-> Nothing]

Fresh(a) == a \notin DOMAIN cells /\ \A b \in DOMAIN cells : b < a
Set(a, v) ==
  /\ a \in DOMAIN cells \/ Fresh(a)
  /\ cells' = [b \in DOMAIN cells \cup {a} |-> IF b = a THEN v ELSE cells[b]]

Get(a) == IF a \in DOMAIN cells THEN cells[a] ELSE Nothing

Next == \E a \in Nat, v \in Values : Set(a, v)
Spec == Init /\ [][Next]_cells
===============================================================================
