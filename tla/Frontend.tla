-------------------------------- MODULE Frontend --------------------------------
(***************************************************************************)
(* The parser measured against the grammar it documents.                     *)
(***************************************************************************)
EXTENDS Parser, Grammar

CONSTANT Grammatical      (* the inputs that are programs of docs/grammar.txt *)

ASSUME FrontendAssumption == Grammatical \subseteq Inputs

Parsed  == Statements(statements)

(* A program written by the grammar is parsed to the tree it was written     *)
(* from: written again it is the same text, in the layout it had.  It is     *)
(* where an operator of the wrong level or side, a token given back too far  *)
(* or an end of line not consumed shows.                                     *)
ReadsBack ==
  tokens \in Grammatical =>
    /\ status \in {"starting", "parsing", "parsed"}
    /\ status = "parsed" => \E layout \in Layouts : Written(Parsed, layout) = tokens

(* The parentheses, braces, ends of line and the = that a declaration may    *)
(* have with nothing behind it leave no trace in the trees.                  *)
Marks == {"(", ")", "{", "}", "=", "EOL", "EOF"}

(* The tokens from i up to n that parse.c is known to lose:                  *)
(* - a declaration, where a return follows on its line (parse.c:385);        *)
(* - an operand, where a slash and "exported" follow it (parse.c:816);       *)
(* - "/exported/", where no function with a name follows (parse.c:573).      *)
Is(i, type) == i \in DOMAIN tokens /\ tokens[i].type = type
DropsDeclaration(i, n) ==
  tokens[i].type \in {"var", "let"} /\ Is(n, "return") /\ ~ Is(n - 1, "EOL")
DropsOperand(i, n) ==
  /\ Is(n, "/") /\ Is(n + 1, "exported")
  /\ \A j \in i..n - 1 :
       tokens[j].type \notin {"var", "let", "return", "if", "for", "in", "import", "exported", "=", "EOL"}
DropsExported(i, n) ==
  LET fn == IF Is(n, "EOL") THEN n + 1 ELSE n
  IN  /\ n = i + 3 /\ Is(i, "/") /\ Is(i + 1, "exported") /\ Is(i + 2, "/")
      /\ ~ (Is(fn, "fn") /\ Is(fn + 1, "IDENTIFIER"))

(* The tokens from i to the parser's place are those of the trees, but for   *)
(* the lost ones and, once for each if, the last of its condition, which is  *)
(* taken again as the body when neither a brace nor an end of line follows   *)
(* it (parse.c:323).                                                         *)
RECURSIVE Accounted(_, _, _)
Accounted(i, kept, ifs) ==
  IF i = context.next THEN kept = <<>>
  ELSE \/ tokens[i].type \in Marks /\ Accounted(i + 1, kept, ifs)
       \/ /\ kept # <<>> /\ kept[1] = tokens[i]
          /\ Accounted(i + 1, Tail(kept), ifs + (IF Is(i, "if") THEN 1 ELSE 0))
       \/ \E n \in i + 1..context.next :
            /\ DropsDeclaration(i, n) \/ DropsOperand(i, n) \/ DropsExported(i, n)
            /\ Accounted(n, kept, ifs)
       \/ /\ ifs > 0 /\ tokens[i].type \in Literals /\ ~ Is(i + 1, "{") /\ ~ Is(i + 1, "EOL")
          /\ Len(kept) > 1 /\ kept[1] = tokens[i] /\ kept[2] = tokens[i]
          /\ Accounted(i, Tail(kept), ifs - 1)

(* Whatever the input, every token that was read is in the trees once and in *)
(* its order, but for the four forms above: nothing else is lost, taken      *)
(* twice or moved, whatever was given back on the way.                       *)
Core(ts) == SelectSeq(ts, LAMBDA t : t.type \notin Marks)
Conserves ==
  status \in {"parsing", "parsed"} => Accounted(1, Core(Written(Parsed, "one line")), 0)
===============================================================================
