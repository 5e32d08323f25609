------------------------------- MODULE TokenCursor -------------------------------
(***************************************************************************)
(* compiler/lex.c, scan_context_t: the parser's place in the text, kept as a *)
(* position, the token accepted last and the token looked ahead to, which    *)
(* peek and accept reuse instead of scanning again.                          *)
(***************************************************************************)
EXTENDS Naturals, Sequences

CONSTANTS
  Sources,          (* [text, tokens, finished]: a text, the tokens it was    *)
                    (* made of, and whether they go on to its end             *)
  Scan(_, _),       (* the token found in a text from a position              *)
  Outside,          (* ... which runs past the end of the text                *)
  Leftovers         (* where a token_t nobody set may happen to start         *)

Tokens == [type : STRING, start : Nat, end : Nat]

Garbage == [type : {"garbage"}, start : Leftovers, end : {0}]

(* The tokens of a source stand in order and do not overlap.                 *)
InOrder(tokens) ==
  /\ tokens \in Seq(Tokens)
  /\ \A i \in DOMAIN tokens : tokens[i].type # "garbage" /\ tokens[i].start < tokens[i].end
  /\ \A i \in DOMAIN tokens : \A j \in 1..i - 1 : tokens[j].end <= tokens[i].start

(* A scan finds the first token of the source that starts at the position or *)
(* after it, wherever between two tokens it begins, and leaves the text when *)
(* it begins behind the last: behind the EOF of a finished text, or where a  *)
(* comment without its end of line, a string without its closing quote or an *)
(* invalid word without a blank behind it runs on past the NUL.              *)
EndBefore(tokens, i) == IF i = 1 THEN 0 ELSE tokens[i - 1].end
ScanFinds(text, tokens) ==
  /\ \A i \in DOMAIN tokens :
       /\ tokens[i] # Outside
       /\ Scan(text, tokens[i].start) = tokens[i]
       /\ Scan(text, EndBefore(tokens, i)) = tokens[i]
  /\ Scan(text, EndBefore(tokens, Len(tokens) + 1)) = Outside

(* A text is finished when the NUL behind it is found as the EOF.            *)
EndsWell(tokens) == tokens # <<>> /\ tokens[Len(tokens)].type = "EOF"

ASSUME ScanAssumption ==
  /\ Leftovers \subseteq Nat
  /\ \A s \in Sources :
       InOrder(s.tokens) /\ ScanFinds(s.text, s.tokens) /\ s.finished = EndsWell(s.tokens)

VARIABLES
  source,
  position,
  previous,
  lookahead,
  given,       (* what peek or accept returned last                           *)
  status

context == <<position, previous, lookahead>>
vars    == <<source, position, previous, lookahead, given, status>>
-------------------------------------------------------------------------------
(* The text and position 0 are all that nord sets of a scan_context_t.       *)
NoneGiven == [type |-> "none", start |-> 0, end |-> 0]

Init ==
  /\ source \in Sources
  /\ position = 0 /\ previous \in Garbage /\ lookahead \in Garbage
  /\ given = NoneGiven /\ status = "running"

Running == status = "running"

(* Mutant: also where nothing was looked ahead to.                           *)
CachedAnywhere == lookahead.start >= position
(* "If our lookahead token has already been calculated, return it."          *)
Cached == lookahead.start >= position /\ position > 0
Upcoming == IF Cached THEN lookahead ELSE Scan(source.text, position)

(* peek, and match, which compares the token peek returns.                   *)
Peek ==
  /\ Running /\ Upcoming # Outside
  /\ lookahead' = Upcoming /\ given' = Upcoming
  /\ UNCHANGED <<source, position, previous, status>>

(* Mutant: the position one character too far.                               *)
AcceptOneMore ==
  /\ Running /\ Upcoming # Outside
  /\ lookahead' = Upcoming /\ given' = Upcoming
  /\ position' = Upcoming.end + 1 /\ previous' = Upcoming
  /\ UNCHANGED <<source, status>>

Accept ==
  /\ Running /\ Upcoming # Outside
  /\ lookahead' = Upcoming /\ given' = Upcoming
  /\ position' = Upcoming.end /\ previous' = Upcoming
  /\ UNCHANGED <<source, status>>

(* Mutant: the lookahead stays what it was.                                  *)
BackupKeepingLookahead ==
  /\ Running /\ previous \notin Garbage
  /\ position' = previous.start
  /\ UNCHANGED <<source, previous, lookahead, given, status>>

(* The parser backs up only after it has accepted (Frontend!StaysInInput).   *)
Backup ==
  /\ Running /\ previous \notin Garbage
  /\ position' = previous.start /\ lookahead' = previous
  /\ UNCHANGED <<source, previous, given, status>>

(* Scanning on behind the last token reads memory that is not the text.      *)
Overrun ==
  /\ Running /\ Upcoming = Outside
  /\ status' = "undefined" /\ UNCHANGED <<source, context, given>>

Next == Peek \/ Accept \/ Backup \/ Overrun
Spec == Init /\ [][Next]_vars
-------------------------------------------------------------------------------
(* The cached token is the one a scan from here would find, whatever calls   *)
(* of peek, accept and backup came before (lex.c:142): never one before the  *)
(* position, never one that a backup has moved away from.                    *)
LookaheadCoherent == Cached => lookahead = Scan(source.text, position)

(* Until it scans behind the last the cursor is a reader of the source's own  *)
(* tokens: it gives each of them, in order, never half of one, and a backup  *)
(* gives the last one again.                                                 *)
Index(k) == IF k \in Garbage THEN 0 ELSE CHOOSE i \in DOMAIN source.tokens : source.tokens[i] = k
Place == CHOOSE n \in 1..Len(source.tokens) + 1 :
           \A i \in DOMAIN source.tokens : source.tokens[i].end <= position <=> i < n
Reader == INSTANCE TokenReader WITH
  tokens <- source.tokens,
  next   <- Place,
  last   <- Index(previous)
ImplementsReader == Reader!Spec

(* The text is left only from behind its last token, with that token just    *)
(* accepted, whatever was peeked at or given back before.  A finished text   *)
(* is therefore left only by reading on behind an accepted EOF (lex.c:158);  *)
(* one that ends within a comment (lex.c:169), a string (lex.c:111) or an    *)
(* invalid word is left before any EOF, by looking ahead from its last whole *)
(* token.                                                                    *)
LeavesOnlyAtTheEnd ==
  status = "undefined" =>
    /\ \A i \in DOMAIN source.tokens : source.tokens[i].end <= position
    /\ IF source.tokens = <<>> THEN previous \in Garbage
                               ELSE previous = source.tokens[Len(source.tokens)]
    /\ source.finished => previous.type = "EOF" /\ position = previous.end
===============================================================================
