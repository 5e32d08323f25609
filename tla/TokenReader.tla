------------------------------- MODULE TokenReader -------------------------------
(***************************************************************************)
(* What parse.c takes the scanner for: a list of tokens read in order, with  *)
(* one token of backup.                                                      *)
(***************************************************************************)
EXTENDS Naturals, Sequences

VARIABLES
  tokens,      (* of the source, the EOF last unless the text is unfinished   *)
  next,        (* index of the token that peek and accept return              *)
  last,        (* index of the token accepted last, 0 before any              *)
  given        (* the token peek or accept returned last                      *)

Nothing == [type |-> "none", start |-> 0, end |-> 0]

Init == next = 1 /\ last = 0 /\ given = Nothing

Peek ==
  /\ next \in DOMAIN tokens /\ given' = tokens[next]
  /\ UNCHANGED <<tokens, next, last>>
Accept ==
  /\ next \in DOMAIN tokens /\ given' = tokens[next]
  /\ last' = next /\ next' = next + 1 /\ UNCHANGED tokens
Backup == last # 0 /\ next' = last /\ UNCHANGED <<tokens, last, given>>

vars == <<tokens, next, last, given>>
Next == Peek \/ Accept \/ Backup
Spec == Init /\ [][Next]_vars
===============================================================================
