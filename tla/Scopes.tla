--------------------------------- MODULE Scopes ---------------------------------
(***************************************************************************)
(* What the compiler takes symbol maps for: a stack of scopes, innermost     *)
(* last, each a partial function from names to locations.                    *)
(***************************************************************************)
EXTENDS Naturals, Sequences

CONSTANTS Names, Locations

VARIABLE scopes

Undefined == "undefined"

Init == scopes = << <<>> >>

Set(d, name, location) ==
  /\ d \in DOMAIN scopes
  /\ scopes' = [scopes EXCEPT ![d] =
                  [n \in DOMAIN @ \cup {name} |-> IF n = name THEN location ELSE @[n]]]

Create  == scopes' = Append(scopes, <<>>)
Destroy == Len(scopes) > 1 /\ scopes' = SubSeq(scopes, 1, Len(scopes) - 1)

Next ==
  \/ \E d \in DOMAIN scopes, name \in Names, location \in Locations : Set(d, name, location)
  \/ Create
  \/ Destroy

Spec == Init /\ [][Next]_scopes

(* The innermost scope that has the name decides.                            *)
Get(name) ==
  LET holders == {d \in DOMAIN scopes : name \in DOMAIN scopes[d]}
  IN  IF holders = {} THEN Undefined
      ELSE scopes[CHOOSE d \in holders : \A e \in holders : e <= d][name]
===============================================================================
