-------------------------------- MODULE Values --------------------------------
(***************************************************************************)
(* The values the nord machine computes with (machine/value.h, value.c) and *)
(* what its opcodes compute from them (the macros and cases of vm.c).       *)
(*                                                                          *)
(* A value_t is a type tag and a union.  Here the union is one integer: the *)
(* number of an INT, the word under a BOOLEAN, the index of the object a    *)
(* STRING, TUPLE, ITERATOR or FUNCTION points to.  C leaves two things      *)
(* open, and so do these definitions: the number found under another member *)
(* of the union (Wild), and the three bytes next to a bool that was stored  *)
(* in a `result' nobody initialised (DirtyWords).  The bits of a float are  *)
(* not modelled: every float is the same value, and what a float decides is *)
(* undetermined.                                                            *)
(***************************************************************************)
EXTENDS Integers, Sequences

CONSTANTS
  NumberHalf,   (* an int holds -NumberHalf .. NumberHalf - 1 (2^31)           *)
  FloatExact,   (* a float holds every integer up to this magnitude (2^24)     *)
  Wild          (* numbers that stale bits, pointers and float bits may show   *)

Number == -NumberHalf .. NumberHalf - 1

ASSUME NumbersAssumption ==
  /\ NumberHalf \in Nat /\ NumberHalf > 512
  /\ FloatExact \in Nat \ {0} /\ NumberHalf <= 128 * FloatExact
  /\ Wild \subseteq Number /\ Wild # {}

Types == {"ABSENT", "NIL", "INT", "STRING", "FLOAT", "BOOLEAN", "TUPLE",
          "ITERATOR", "FUNCTION", "GARBAGE"}

(* A value that carries a number carries one an int can hold.               *)
Carriers == {"INT", "BOOLEAN", "ABSENT"}
InWidth(v) == v.type \in Carriers => v.contents \in Number
Value == {v \in [type : Types, contents : Int] : InWidth(v)}

Absent  == [type |-> "ABSENT", contents |-> 0]
Nil     == [type |-> "NIL", contents |-> 0]
Float   == [type |-> "FLOAT", contents |-> 0]
Garbage == [type |-> "GARBAGE", contents |-> 0]  (* never initialised *)

Int32(n)    == [type |-> "INT", contents |-> n]
Boolean(w)  == [type |-> "BOOLEAN", contents |-> w]
Ref(t, i)   == [type |-> t, contents |-> i]

Collections == {"STRING", "TUPLE"}
-------------------------------------------------------------------------------
(* Mutant: the number keeps all its bits.                                    *)
KeptWide(n) == n
(* Two's complement: what the build does with an int that overflows.        *)
Wrap(n) == ((n + NumberHalf) % (2 * NumberHalf)) - NumberHalf

(* A bool assignment writes one byte of the word it lives in.               *)
DirtyWords(b) == IF b THEN {1, 257, -255} ELSE {0, 256, -256}

ByteOf(v) == v.contents % 256

(* NUM3: the union read as an int, whatever the type.                       *)
NumberViews(v) ==
  IF v.type \in Carriers THEN {v.contents} ELSE Wild

IsNumberish(v) == v.type \in {"INT", "FLOAT", "BOOLEAN"}
SomeFloat(l, r) == l.type = "FLOAT" \/ r.type = "FLOAT"

(* An int converted to float: exact up to FloatExact, beyond it rounded to  *)
(* the nearest multiple of a power of two, ties to an even significand.     *)
Magnitude(n) == IF n < 0 THEN -n ELSE n
Ulp(n) == CHOOSE u \in {2^k : k \in 0..7} :
            /\ Magnitude(n) <= u * FloatExact
            /\ u = 1 \/ Magnitude(n) > (u \div 2) * FloatExact
AsFloat(n) ==
  LET u    == Ulp(n)
      q    == Magnitude(n) \div u
      twice == 2 * (Magnitude(n) % u)
      near == IF twice > u \/ (twice = u /\ q % 2 = 1) THEN q + 1 ELSE q
  IN  IF n < 0 THEN -(u * near) ELSE u * near
-------------------------------------------------------------------------------
(* What each comparison may come to: a set of outcomes, with more than one  *)
(* element when a float decides or when the case leaves `result' unset.     *)

(* NUM_OR_FLOAT_OR_BOOL3: the ternary has type float, so ints are compared  *)
(* as floats.                                                               *)
ScalarOf(v) == IF v.type = "BOOLEAN" THEN ByteOf(v) ELSE v.contents

EqualOutcomes(l, r, sameText) ==
  CASE IsNumberish(l) /\ IsNumberish(r) ->
         IF SomeFloat(l, r) THEN BOOLEAN
         ELSE {AsFloat(ScalarOf(l)) = AsFloat(ScalarOf(r))}
    [] ~(IsNumberish(l) /\ IsNumberish(r)) /\ l.type # r.type -> {FALSE}
    [] l.type = "STRING" /\ r.type = "STRING" -> {sameText}
    [] l.type = "NIL" /\ r.type = "NIL" -> {TRUE}
    [] OTHER -> BOOLEAN

LessOutcomes(l, r) ==
  IF IsNumberish(l) /\ IsNumberish(r) /\ ~SomeFloat(l, r)
  THEN {AsFloat(l.contents) < AsFloat(r.contents)}
  ELSE BOOLEAN

TruthOf(v) == IF v.type = "FLOAT" THEN BOOLEAN ELSE {ScalarOf(v) # 0}

AndOutcomes(l, r) ==
  IF IsNumberish(l) /\ IsNumberish(r)
  THEN {b \in BOOLEAN : \E p \in TruthOf(l), q \in TruthOf(r) : b = (p /\ q)}
  ELSE BOOLEAN

(* OR reads NUM_OR_FLOAT3: a bool's whole word, not its byte.               *)
WholeTruthOf(v) == IF v.type = "FLOAT" THEN BOOLEAN ELSE {v.contents # 0}
OrOutcomes(l, r) ==
  IF IsNumberish(l) /\ IsNumberish(r)
  THEN {b \in BOOLEAN : \E p \in WholeTruthOf(l), q \in WholeTruthOf(r) : b = (p \/ q)}
  ELSE BOOLEAN

NotOutcomes(v, emptyText) ==
  CASE v.type \in {"INT", "BOOLEAN"} -> {ScalarOf(v) = 0}
    [] v.type = "ABSENT" -> {TRUE}
    [] v.type = "STRING" -> {emptyText}
    [] OTHER -> BOOLEAN

(* The remainder of C's truncating division.                                *)
Remainder(x, y) ==
  LET m == Magnitude(x) % Magnitude(y) IN IF x < 0 THEN -m ELSE m
===============================================================================
