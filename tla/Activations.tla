------------------------------ MODULE Activations ------------------------------
(***************************************************************************)
(* What calling and returning promise of a machine: it is always at one      *)
(* place, a region of code and an offset in it; a call goes to the start of  *)
(* a region, remembering the place after it; a return goes back to the place *)
(* remembered last.                                                          *)
(***************************************************************************)
EXTENDS Integers, Sequences

CONSTANT Stray     (* the place a stray frame left by the creator would return to *)

VARIABLES
  here,     (* the place being executed                                      *)
  returns   (* the places to go back to, the latest last                     *)

Init ==
  /\ here = [region |-> 0, offset |-> 0]
  /\ returns \in {<<>>, <<Stray>>}

(* Any step inside a region, a jump included.                                *)
Work ==
  /\ here' = [here EXCEPT !.offset = here'.offset]
  /\ returns' = returns

Enter ==
  /\ here' = [here' EXCEPT !.offset = 0]
  /\ returns' = Append(returns, [here EXCEPT !.offset = here.offset + 1])

Leave ==
  /\ returns # <<>>
  /\ here' = returns[Len(returns)]
  /\ returns' = SubSeq(returns, 1, Len(returns) - 1)

Next == Work \/ Enter \/ Leave

Spec == Init /\ [][Next]_<<here, returns>>
===============================================================================
