------------------------------- MODULE MCModules -------------------------------
(***************************************************************************)
(* Every set of three files of a few statements that import each other or a  *)
(* file that is not there or is rejected, some of them under an if, in a     *)
(* loop or in a function: jumps on and back over an import.                  *)
(***************************************************************************)
EXTENDS Modules, SequencesExt

(* The codes of some statements whose jumps stay in them.                    *)
CodesOf(statements, n) ==
  {code \in BoundedSeq(statements, n) : \A i \in DOMAIN code : code[i].op = "jump" => code[i].place <= Len(code) + 1}
(* A function that imports when it is called, and a loop whose turns differ. *)
Function  == << JumpTo(4), ImportOf("a"), JumpTo(5), JumpTo(2) >>
Turns     == << JumpTo(3), ImportOf("a"), JumpTo(5), ImportOf("b"), JumpTo(1) >>
MainCodes == CodesOf({ImportOf(n) : n \in {"a", "b"}} \cup {JumpTo(p) : p \in {1, 3, 4}}, 3) \cup {Function, Turns}
ACodes    == CodesOf({ImportOf("a"), ImportOf("b"), JumpTo(1), JumpTo(3)}, 2) \cup {<< ImportOf("missing") >>}
BCodes    == CodesOf({ImportOf("a"), Other}, 2) \cup {<< ImportOf(n) >> : n \in {"main", "broken"}}
MCFileSets == {[main |-> m, a |-> a, b |-> b, broken |-> <<>>] : m \in MainCodes, a \in ACodes, b \in BCodes}
===============================================================================
