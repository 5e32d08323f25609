---------------------------------- MODULE Lexer ----------------------------------
(***************************************************************************)
(* compiler/lex.c, peek: the token that a scan of the text from a position   *)
(* finds.  A text is a sequence of characters, its positions count from 0    *)
(* and the byte after the last is the NUL.  A scan that meets no end of what *)
(* it is in runs on past the NUL, into memory that is not the text.          *)
(***************************************************************************)
EXTENDS Naturals, Sequences, FiniteSetsExt, TLC

NUL == "NUL"
NL  == "\n"
Whitespace == {" ", "\t", NL}
Reserved   == {"(", ")", "{", "}", ":", ",", "*", "+", "/", "-", "="}
Boundary   == Whitespace \cup Reserved \cup {NUL}
Digits     == {"0", "1", "2", "3", "4", "5", "6", "7", "8", "9"}

(* "Identifiers must start with a letter."                                   *)
Letters == {"a", "b", "c", "d", "e", "f", "g", "h", "i", "j", "k", "l", "m", "n", "o", "p", "q",
            "r", "s", "t", "u", "v", "w", "x", "y", "z",
            "A", "B", "C", "D", "E", "F", "G", "H", "I", "J", "K", "L", "M", "N", "O", "P", "Q",
            "R", "S", "T", "U", "V", "W", "X", "Y", "Z"}

(* Both are named as they are spelled, but for the end of a line.            *)
Keywords ==
  "and" :> <<"a", "n", "d">> @@ "exported" :> <<"e", "x", "p", "o", "r", "t", "e", "d">>
  @@ "for" :> <<"f", "o", "r">> @@ "false" :> <<"f", "a", "l", "s", "e">>
  @@ "if" :> <<"i", "f">> @@ "import" :> <<"i", "m", "p", "o", "r", "t">>
  @@ "in" :> <<"i", "n">> @@ "let" :> <<"l", "e", "t">> @@ "nil" :> <<"n", "i", "l">>
  @@ "or" :> <<"o", "r">> @@ "return" :> <<"r", "e", "t", "u", "r", "n">>
  @@ "true" :> <<"t", "r", "u", "e">> @@ "var" :> <<"v", "a", "r">>
Symbols ==
  "==" :> <<"=", "=">> @@ "!=" :> <<"!", "=">> @@ ">=" :> <<">", "=">> @@ "<=" :> <<"<", "=">>
  @@ "->" :> <<"-", ">">> @@ "=" :> <<"=">> @@ "!" :> <<"!">> @@ ">" :> <<">">>
  @@ "<" :> <<"<">> @@ "(" :> <<"(">> @@ ")" :> <<")">> @@ "{" :> <<"{">> @@ "}" :> <<"}">>
  @@ ":" :> <<":">> @@ "," :> <<",">> @@ "-" :> <<"-">> @@ "+" :> <<"+">> @@ "*" :> <<"*">>
  @@ "/" :> <<"/">> @@ "%" :> <<"%">> @@ "EOL" :> <<NL>>
-------------------------------------------------------------------------------
Token(type, start, end) == [type |-> type, start |-> start, end |-> end]
OutsideText == Token("outside", 0, 0)      (* the scan left the text              *)

At(text, i) == IF i < Len(text) THEN text[i + 1] ELSE NUL
Spells(text, i, word) == \A k \in DOMAIN word : At(text, i + k - 1) = word[k]

(* The first position from i on with a character that is, or is not, in S;   *)
(* the length of the text is the position of its NUL, and beyond one more    *)
(* byte is outside.                                                          *)
FirstIn(text, i, S)    == Min({j \in i..Len(text) : At(text, j) \in S} \cup {Len(text) + 2})
FirstNotIn(text, i, S) == Min({j \in i..Len(text) : At(text, j) \notin S} \cup {Len(text) + 2})

(* match_number, match_float and match_identifier: where the match ends, i   *)
(* itself where there is none.                                               *)
NumberEnd(text, i) ==
  LET end == FirstNotIn(text, i, Digits)
  IN  IF At(text, end) \in Boundary \/ Spells(text, end, <<".", ".">>) THEN end ELSE i
FloatEnd(text, i) ==
  LET end  == FirstIn(text, i, Boundary)
      dots == {j \in i..end - 1 : At(text, j) = "."}
  IN  IF (\A j \in i..end - 1 : At(text, j) \in Digits \cup {"."}) /\ Cardinality(dots) = 1
        THEN end ELSE i
IdentifierEnd(text, i) ==
  IF At(text, i) \in Letters THEN FirstIn(text, i, Boundary \cup {"."}) ELSE i

(* "Consume until we hit whitespace", NUL or not.                            *)
Invalid(text, i) == Token("INVALID", i, FirstIn(text, i + 1, Whitespace))

Numeric(text, i) ==
  IF NumberEnd(text, i) > i THEN Token("NUMBER", i, NumberEnd(text, i))
  ELSE IF FloatEnd(text, i) > i THEN Token("FLOAT", i, FloatEnd(text, i))
  ELSE IF Spells(text, i, <<".", ".">>) THEN Token("..", i, i + 2)
  ELSE IF At(text, i) = "." THEN Token(".", i, i + 1)
  ELSE Invalid(text, i)

(* A word is a keyword only up to a boundary, but fn is one wherever it      *)
(* starts a word.                                                            *)
Word(text, i) ==
  LET matched == {k \in DOMAIN Keywords : /\ Spells(text, i, Keywords[k])
                                          /\ At(text, i + Len(Keywords[k])) \in Boundary}
  IN  IF Spells(text, i, <<"f", "n">>) THEN Token("fn", i, i + 2)
      ELSE IF matched # {} THEN LET k == CHOOSE k \in matched : TRUE
                                IN  Token(k, i, i + Len(Keywords[k]))
      ELSE IF IdentifierEnd(text, i) > i THEN Token("IDENTIFIER", i, IdentifierEnd(text, i))
      ELSE Invalid(text, i)

(* Past blanks and, if one follows, a comment: to its end of line.           *)
Start(text, i) ==
  LET next == FirstNotIn(text, i, {" ", "\t"})
  IN  IF At(text, next) = "#" THEN FirstIn(text, next, {NL}) ELSE next

TokenAt(text, i) ==
  LET matched == {s \in DOMAIN Symbols : Spells(text, i, Symbols[s])}
      longest == CHOOSE s \in matched : \A r \in matched : Len(Symbols[r]) <= Len(Symbols[s])
  IN  CASE At(text, i) = NUL -> Token("EOF", i, i + 1)
        [] At(text, i) = "\"" -> Token("STRING", i, FirstIn(text, i + 1, {"\""}) + 1)
        [] At(text, i) \in Digits \cup {"."} -> Numeric(text, i)
        [] matched # {} -> Token(longest, i, i + Len(Symbols[longest]))
        [] OTHER -> Word(text, i)

(* The token a scan from i finds; nothing after the NUL is part of the text. *)
ScanFrom(text, i) ==
  LET start == Start(text, i)
      token == TokenAt(text, start)
  IN  IF start > Len(text) \/ token.end > Len(text) + 1 THEN OutsideText ELSE token
===============================================================================
