-------------------------------- MODULE MCScan --------------------------------
(***************************************************************************)
(* Texts made of words of the language, next to each other where no blank is *)
(* needed, or with blanks and a comment between; some of them end within a   *)
(* comment, a string or a word that is none.                                 *)
(***************************************************************************)
EXTENDS Lexer, TokenCursor

(* The words and what they are: every keyword and symbol, fn, names that     *)
(* begin like a keyword, numbers, strings.                                   *)
Named(type, spelling) == [type |-> type, spelling |-> spelling]
Names   == {<<"a">>, <<"i", "n", "t">>, <<"o", "r", "b", "i", "t">>, <<"x", "2">>, <<"f", "o", "r", "m">>, <<"a", "n">>}
Fixed   == {Named(k, Keywords[k]) : k \in DOMAIN Keywords} \cup {Named(s, Symbols[s]) : s \in DOMAIN Symbols}
Content == {Named("IDENTIFIER", n) : n \in Names} \cup {Named("fn", <<"f", "n">>)}
             \cup {Named("NUMBER", n) : n \in {<<"0">>, <<"1", "2">>}}
             \cup {Named("FLOAT", <<"1", ".", "5">>), Named("..", <<".", ".">>)}
             \cup {Named("STRING", s) : s \in {<<"\"", "\"">>, <<"\"", "i", "f", " ", "#", "\"">>}}
Wrong   == {Named("INVALID", w) : w \in {<<"1", "a">>, <<"&">>, <<"&", "(">>}}
Words   == Fixed \cup Content \cup Wrong

(* Two words need a blank between them unless one of them is punctuation     *)
(* that does not make a longer symbol with the other, or they are a range;   *)
(* a word that is none goes on to the next blank or end of line.             *)
First(w) == w.spelling[1]
Final(w) == w.spelling[Len(w.spelling)]
Adjoin(v, w) ==
  \/ v \in Wrong /\ w.type = "EOL"
  \/ /\ v \notin Wrong
     /\ Final(v) \in Reserved \cup {NL, "\""} \/ First(w) \in Reserved \cup {NL}
     /\ \A s \in DOMAIN Symbols : ~ Spells(<<Final(v), First(w)>>, 0, Symbols[s]) \/ Len(Symbols[s]) = 1
  \/ v.type \in {"NUMBER", "IDENTIFIER"} /\ w.type = ".."
  \/ v.type = ".." /\ First(w) # "."

Gaps(v, w) == {<<" ">>, <<"\t", " ">>}
  \cup (IF Adjoin(v, w) THEN {<<>>} ELSE {})
  \cup (IF w.type = "EOL" THEN {<<" ", "#", "i", "f">>} ELSE {})

(* A source: its text, and its words where they stand, the EOF last unless   *)
(* the text ends in something unfinished.                                    *)
Opening == {[text |-> g, tokens |-> <<>>] : g \in {<<>>, <<" ">>}}
Extended(src, gap, w) ==
  LET start == Len(src.text) + Len(gap)
  IN  [text   |-> src.text \o gap \o w.spelling,
       tokens |-> Append(src.tokens, Token(w.type, start, start + Len(w.spelling)))]
Closed(src) ==
  [text     |-> src.text,
   tokens   |-> Append(src.tokens, Token("EOF", Len(src.text), Len(src.text) + 1)),
   finished |-> TRUE]
Tails == {<<"#">>, <<"#", "i", "f">>, <<"\"">>, <<"\"", "a", "#">>, <<"&">>, <<"1", "a">>}
Unfinished(src, tail) ==
  [text |-> src.text \o <<" ">> \o tail, tokens |-> src.tokens, finished |-> FALSE]
EndsWrong(src) == src.tokens # <<>> /\ src.tokens[Len(src.tokens)].type = "INVALID"

Blank == [text |-> <<>>, tokens |-> <<>>]
One(w)         == {Extended(o, <<>>, w) : o \in Opening}
Pairs(v, w)    == {Extended(Extended(Blank, <<>>, v), g, w) : g \in Gaps(v, w)}
Threes(u, v, w) == {Extended(s, g, w) : s \in Pairs(u, v), g \in Gaps(v, w)}
Small == {w \in Words : w.spelling \in {<<"a">>, <<"i", "n">>, <<"=">>, <<"-">>, <<"(">>, <<"1", "2">>, <<".", ".">>, <<NL>>}}
Singles == Opening \cup UNION {One(w) : w \in Words}
Longer  == UNION {Pairs(v, w) : v \in Words, w \in Words}
             \cup UNION {Threes(u, v, w) : u \in Small, v \in Small, w \in Small}
MCSources ==
  {Closed(s) : s \in {s \in Singles \cup Longer : ~ EndsWrong(s)}}
    \cup {Unfinished(s, tail) : s \in Singles \cup UNION {Pairs(v, w) : v \in Small, w \in Small},
                                tail \in Tails}
===============================================================================
