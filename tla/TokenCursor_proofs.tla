--------------------------- MODULE TokenCursor_proofs ---------------------------
(***************************************************************************)
(* The cursor of lex.c is the reader of tokens that parse.c takes it for,    *)
(* for every text whose tokens a scan finds in order.                        *)
(***************************************************************************)
EXTENDS TokenCursor, TLAPS

(* The end of the token before the n-th.                                     *)
Behind(n) == EndBefore(source.tokens, n)

(* The cursor stands before the n-th token: at it, or behind the one before. *)
StandsBefore(n) ==
  /\ n \in 1..Len(source.tokens) + 1
  /\ \/ position = Behind(n)
     \/ n <= Len(source.tokens) /\ position = source.tokens[n].start

(* What the two tokens of the context are worth there.  Neither part is      *)
(* inductive alone: a backup needs the previous token to be the one before,  *)
(* and accepting needs the lookahead to be the one after.                    *)
LookaheadFits(n) ==
  /\ lookahead.start \in Nat
  /\ \/ position = 0
     \/ lookahead.start < position
     \/ n <= Len(source.tokens) /\ lookahead = source.tokens[n]
PreviousFits(n) ==
  \/ n = 1 /\ previous \in Garbage
  \/ \E k \in DOMAIN source.tokens : previous = source.tokens[k] /\ n \in {k, k + 1}

Stands(n) == StandsBefore(n) /\ LookaheadFits(n) /\ PreviousFits(n)

CursorInv ==
  /\ source \in Sources
  /\ status \in {"running", "undefined"}
  /\ \E n \in Nat : Stands(n) /\ (status = "undefined" => n = Len(source.tokens) + 1)
-------------------------------------------------------------------------------
(* A source as the scanner finds it: the tokens are in order, at places of   *)
(* their own.                                                                *)
LEMMA SourceFacts ==
  ASSUME source \in Sources
  PROVE  /\ source.tokens \in Seq(Tokens) /\ Len(source.tokens) \in Nat
         /\ DOMAIN source.tokens = 1..Len(source.tokens)
         /\ \A i \in DOMAIN source.tokens :
              /\ source.tokens[i] \in Tokens /\ source.tokens[i] \notin Garbage
              /\ source.tokens[i].start \in Nat /\ source.tokens[i].end \in Nat
              /\ source.tokens[i].start < source.tokens[i].end
         /\ \A i \in DOMAIN source.tokens : \A j \in 1..i - 1 : source.tokens[j].end <= source.tokens[i].start
         /\ ScanFinds(source.text, source.tokens)
  <1>1. InOrder(source.tokens) /\ ScanFinds(source.text, source.tokens)
    BY ScanAssumption
  <1>2. source.tokens \in Seq(Tokens) /\ Len(source.tokens) \in Nat
    BY <1>1 DEF InOrder
  <1>3. DOMAIN source.tokens = 1..Len(source.tokens)
    BY <1>2
  <1>4. ASSUME NEW i \in DOMAIN source.tokens
        PROVE  /\ source.tokens[i] \in Tokens /\ source.tokens[i] \notin Garbage
               /\ source.tokens[i].start \in Nat /\ source.tokens[i].end \in Nat
    <2>1. source.tokens[i] \in Tokens
      BY <1>2, <1>3, <1>4
    <2>2. source.tokens[i].type # "garbage"
      BY <1>1, <1>4 DEF InOrder
    <2> QED BY <2>1, <2>2 DEF Tokens, Garbage
  <1> QED BY <1>1, <1>2, <1>3, <1>4 DEF InOrder

(* Behind the tokens before the n-th, and before it.                         *)
LEMMA Monotone ==
  ASSUME source \in Sources, NEW n \in 1..Len(source.tokens) + 1, StandsBefore(n)
  PROVE  /\ position \in Nat
         /\ \A i \in DOMAIN source.tokens : source.tokens[i].end <= position <=> i < n
  <1> USE SourceFacts
  <1>1. position \in Nat
    BY DEF StandsBefore, Behind, EndBefore
  <1>2. ASSUME NEW i \in DOMAIN source.tokens, i < n PROVE source.tokens[i].end <= position
    <2>1. CASE position = Behind(n) /\ i = n - 1
      BY <1>2, <2>1 DEF Behind, EndBefore
    <2>2. CASE position = Behind(n) /\ i < n - 1
      <3>1. n - 1 \in DOMAIN source.tokens /\ i \in 1..(n - 1) - 1
        BY <1>2, <2>2
      <3>2. source.tokens[i].end <= source.tokens[n - 1].start
        BY <3>1
      <3> QED BY <2>2, <3>1, <3>2, SMTT(30) DEF Behind, EndBefore
    <2>3. CASE n <= Len(source.tokens) /\ position = source.tokens[n].start
      <3>1. n \in DOMAIN source.tokens /\ i \in 1..n - 1
        BY <1>2, <2>3
      <3> QED BY <2>3, <3>1
    <2> QED BY <1>2, <2>1, <2>2, <2>3 DEF StandsBefore
  <1>3. ASSUME NEW i \in DOMAIN source.tokens, ~ (i < n) PROVE ~ (source.tokens[i].end <= position)
    <2>1. n \in DOMAIN source.tokens
      BY <1>3
    <2>2. position <= source.tokens[n].start
      <3>1. CASE position = source.tokens[n].start
        BY <2>1, <3>1
      <3>2. CASE position = Behind(n) /\ n = 1
        BY <2>1, <3>2 DEF Behind, EndBefore
      <3>3. CASE position = Behind(n) /\ n # 1
        <4>1. n - 1 \in 1..n - 1
          BY <3>3
        <4> QED BY <2>1, <3>3, <4>1 DEF Behind, EndBefore
      <3> QED BY <1>3, <3>1, <3>2, <3>3 DEF StandsBefore
    <2>3. source.tokens[n].end <= source.tokens[i].end
      <3>1. CASE i = n
        BY <2>1, <3>1
      <3>2. CASE i # n
        <4>1. n \in 1..i - 1
          BY <1>3, <3>2
        <4>2. source.tokens[n].end <= source.tokens[i].start
          BY <1>3, <4>1
        <4>3. source.tokens[i].start < source.tokens[i].end /\ source.tokens[i].start \in Nat /\ source.tokens[i].end \in Nat
          BY <1>3
        <4>4. source.tokens[n].end \in Nat
          BY <2>1
        <4> QED BY <4>2, <4>3, <4>4
      <3> QED BY <3>1, <3>2
    <2> QED BY <1>1, <1>3, <2>1, <2>2, <2>3
  <1> QED BY <1>1, <1>2, <1>3

(* The token that comes next, from the cache or from a scan.                 *)
LEMMA UpcomingIs ==
  ASSUME source \in Sources, NEW n \in Nat, Stands(n)
  PROVE  /\ Scan(source.text, position) = IF n <= Len(source.tokens) THEN source.tokens[n] ELSE Outside
         /\ Upcoming = Scan(source.text, position)
         /\ Cached => n <= Len(source.tokens) /\ lookahead = source.tokens[n]
  <1> USE SourceFacts
  <1>1. n \in 1..Len(source.tokens) + 1 /\ position \in Nat
    BY Monotone DEF Stands, StandsBefore
  <1>2. Scan(source.text, position) = IF n <= Len(source.tokens) THEN source.tokens[n] ELSE Outside
    <2>1. CASE n <= Len(source.tokens)
      <3>1. n \in DOMAIN source.tokens
        BY <1>1, <2>1
      <3>2. position = source.tokens[n].start \/ position = EndBefore(source.tokens, n)
        BY DEF Stands, StandsBefore, Behind
      <3>3. Scan(source.text, position) = source.tokens[n]
        BY <3>1, <3>2 DEF ScanFinds
      <3> QED BY <2>1, <3>3
    <2>2. CASE n = Len(source.tokens) + 1
      <3>1. position = EndBefore(source.tokens, Len(source.tokens) + 1)
        BY <1>1, <2>2 DEF Stands, StandsBefore, Behind
      <3>2. Scan(source.text, position) = Outside
        BY <3>1 DEF ScanFinds
      <3>3. (IF n <= Len(source.tokens) THEN source.tokens[n] ELSE Outside) = Outside
        BY <2>2
      <3> QED BY <3>2, <3>3
    <2>3. n <= Len(source.tokens) \/ n = Len(source.tokens) + 1
      BY <1>1
    <2> QED BY <2>1, <2>2, <2>3
  <1>3. Cached => n <= Len(source.tokens) /\ lookahead = source.tokens[n]
    <2>1. CASE lookahead.start < position
      <3>1. lookahead.start \in Nat
        BY DEF Stands, LookaheadFits
      <3> QED BY <1>1, <2>1, <3>1 DEF Cached
    <2> QED BY <1>1, <2>1 DEF Cached, Stands, LookaheadFits
  <1> QED BY <1>2, <1>3 DEF Upcoming
-------------------------------------------------------------------------------
LEMMA Starts == Init => CursorInv
  <1> SUFFICES ASSUME Init PROVE CursorInv
    OBVIOUS
  <1> USE SourceFacts DEF Init
  <1>1. Stands(1)
    <2>1. StandsBefore(1)
      <3>1. Len(source.tokens) \in Nat
        BY SourceFacts
      <3> QED BY <3>1 DEF StandsBefore, Behind, EndBefore
    <2>2. lookahead.start \in Nat
      BY ScanAssumption DEF Garbage
    <2> QED BY <2>1, <2>2 DEF Stands, LookaheadFits, PreviousFits
  <1> QED BY <1>1 DEF CursorInv

(* An accept moves from before one token to behind it.                       *)
LEMMA Accepts ==
  ASSUME source \in Sources, NEW n \in Nat, Stands(n), Accept
  PROVE  n \in DOMAIN source.tokens /\ Upcoming = source.tokens[n] /\ Stands(n + 1)'
  <1> USE SourceFacts DEF Accept
  <1>1. n \in 1..Len(source.tokens) /\ Upcoming = source.tokens[n]
    BY UpcomingIs DEF Stands, StandsBefore
  <1>2. StandsBefore(n + 1)'
    <2>1. n + 1 \in 1..Len(source.tokens) + 1 /\ n + 1 # 1 /\ (n + 1) - 1 = n
      BY <1>1
    <2>2. position' = source.tokens[n].end
      BY <1>1
    <2> QED BY <2>1, <2>2 DEF StandsBefore, Behind, EndBefore
  <1>3. LookaheadFits(n + 1)'
    BY <1>1 DEF LookaheadFits
  <1>4. PreviousFits(n + 1)'
    BY <1>1 DEF PreviousFits
  <1> QED BY <1>1, <1>2, <1>3, <1>4 DEF Stands

(* A backup moves to before the token accepted last, which it has ready.     *)
LEMMA BacksUp ==
  ASSUME source \in Sources, NEW k \in DOMAIN source.tokens, previous = source.tokens[k], Backup
  PROVE  Stands(k)'
  <1> USE SourceFacts DEF Backup
  <1>1. StandsBefore(k)'
    BY DEF StandsBefore
  <1>2. LookaheadFits(k)'
    BY DEF LookaheadFits
  <1>3. PreviousFits(k)'
    BY DEF PreviousFits
  <1> QED BY <1>1, <1>2, <1>3 DEF Stands

LEMMA Peeks ==
  ASSUME CursorInv, Peek
  PROVE  CursorInv'
  <1> USE SourceFacts DEF Peek
  <1>1. source \in Sources /\ source' = source /\ status' = status /\ status = "running" /\ position' = position
    BY DEF CursorInv, Running
  <1>2. PICK n \in Nat : Stands(n)
    BY DEF CursorInv
  <1>3. n \in 1..Len(source.tokens) /\ Upcoming = source.tokens[n]
    BY <1>1, <1>2, UpcomingIs DEF Stands, StandsBefore
  <1>4. StandsBefore(n)' /\ PreviousFits(n)'
    BY <1>1, <1>2 DEF Stands, StandsBefore, Behind, EndBefore, PreviousFits
  <1>5. LookaheadFits(n)'
    BY <1>1, <1>3 DEF LookaheadFits
  <1> QED BY <1>1, <1>3, <1>4, <1>5 DEF CursorInv, Stands

LEMMA Overruns ==
  ASSUME CursorInv, Overrun
  PROVE  CursorInv'
  <1> USE SourceFacts DEF Overrun, context
  <1>1. source \in Sources /\ source' = source /\ status' = "undefined"
    BY DEF CursorInv
  <1>2. PICK n \in Nat : Stands(n)
    BY DEF CursorInv
  <1>3. n = Len(source.tokens) + 1
    <2>1. n \in 1..Len(source.tokens) + 1
      BY <1>2 DEF Stands, StandsBefore
    <2>2. n <= Len(source.tokens) => source.tokens[n] # Outside
      BY <1>1, <2>1 DEF ScanFinds
    <2>3. ~ (n <= Len(source.tokens))
      BY <1>1, <1>2, <2>2, UpcomingIs
    <2>4. Len(source.tokens) \in Nat
      BY <1>1
    <2> HIDE SourceFacts
    <2> QED BY <2>1, <2>3, <2>4
  <1>4. Stands(n)'
    BY <1>1, <1>2 DEF Stands, StandsBefore, Behind, EndBefore, LookaheadFits, PreviousFits
  <1> QED BY <1>1, <1>2, <1>3, <1>4 DEF CursorInv

LEMMA CursorStep == CursorInv /\ [Next]_vars => CursorInv'
  <1> SUFFICES ASSUME CursorInv, [Next]_vars PROVE CursorInv'
    OBVIOUS
  <1>1. CASE UNCHANGED vars
    BY <1>1 DEF vars, CursorInv, Stands, StandsBefore, Behind, EndBefore, LookaheadFits, PreviousFits
  <1>2. CASE Accept
    <2>1. PICK n \in Nat : Stands(n)
      BY DEF CursorInv
    <2>2. Stands(n + 1)'
      BY <1>2, <2>1, Accepts DEF CursorInv
    <2> QED BY <1>2, <2>2 DEF CursorInv, Accept, Running
  <1>3. CASE Backup
    <2>1. PICK k \in DOMAIN source.tokens : previous = source.tokens[k]
      BY <1>3 DEF CursorInv, Backup, Stands, PreviousFits
    <2>2. Stands(k)'
      BY <1>3, <2>1, BacksUp DEF CursorInv
    <2>3. k \in Nat
      BY <2>1, SourceFacts DEF CursorInv
    <2> QED BY <1>3, <2>2, <2>3 DEF CursorInv, Backup, Running
  <1> QED BY <1>1, <1>2, <1>3, Peeks, Overruns DEF Next

THEOREM CursorInvariant == Spec => []CursorInv
  BY Starts, CursorStep, PTL DEF Spec
-------------------------------------------------------------------------------
(* The cached token is never stale: for every text and every sequence of     *)
(* calls of peek, accept and backup, what the cache answers is what a scan   *)
(* from the position would find (lex.c:142, lex.c:540).                      *)
THEOREM CacheCoherent == Spec => []LookaheadCoherent
  <1>1. CursorInv => LookaheadCoherent
    BY UpcomingIs DEF CursorInv, LookaheadCoherent, Upcoming
  <1> QED BY <1>1, CursorInvariant, PTL

(* Memory behind the text is read only by a call that follows the accept of  *)
(* its last token, the EOF where the text is finished: no backup and no      *)
(* cached token leads there, nor any shorter way (lex.c:158, lex.c:169,      *)
(* lex.c:111).                                                               *)
THEOREM OnlyAtTheEnd == Spec => []LeavesOnlyAtTheEnd
  <1>1. CursorInv => LeavesOnlyAtTheEnd
    <2> SUFFICES ASSUME CursorInv, status = "undefined" PROVE LeavesOnlyAtTheEnd
      BY DEF LeavesOnlyAtTheEnd
    <2> DEFINE last == Len(source.tokens)
    <2>1. source \in Sources /\ Stands(last + 1)
      BY DEF CursorInv
    <2>2. last \in Nat /\ (source.tokens = <<>> <=> last = 0)
      BY <2>1, SourceFacts
    <2>3. \A i \in DOMAIN source.tokens : source.tokens[i].end <= position
      BY <2>1, <2>2, Monotone, SourceFacts DEF Stands
    <2>4. CASE last = 0
      <3>1. previous \in Garbage
        BY <2>1, <2>4, SourceFacts DEF Stands, PreviousFits
      <3>2. ~ source.finished
        BY <2>1, <2>2, <2>4, ScanAssumption DEF EndsWell
      <3> QED BY <2>2, <2>3, <2>4, <3>1, <3>2 DEF LeavesOnlyAtTheEnd
    <2>5. CASE last # 0
      <3>1. position = source.tokens[last].end
        BY <2>1, <2>2, <2>5 DEF Stands, StandsBefore, Behind, EndBefore
      <3>2. previous = source.tokens[last]
        BY <2>1, <2>2, <2>5, SourceFacts DEF Stands, PreviousFits
      <3>3. source.finished => previous.type = "EOF"
        BY <2>1, <3>2, ScanAssumption DEF EndsWell
      <3> QED BY <2>2, <2>3, <2>5, <3>1, <3>2, <3>3 DEF LeavesOnlyAtTheEnd
    <2> QED BY <2>4, <2>5
  <1> QED BY <1>1, CursorInvariant, PTL
-------------------------------------------------------------------------------
(* Where the mapping puts a cursor.                                          *)
LEMMA PlaceIs == source \in Sources => \A n \in Nat : Stands(n) => Place = n
  <1> SUFFICES ASSUME source \in Sources, NEW n \in Nat, Stands(n) PROVE Place = n
    OBVIOUS
  <1> USE SourceFacts
  <1> DEFINE Before(p) == \A i \in DOMAIN source.tokens : source.tokens[i].end <= position <=> i < p
  <1>1. n \in 1..Len(source.tokens) + 1 /\ Before(n)
    BY Monotone DEF Stands, StandsBefore
  <1>2. ASSUME NEW p \in 1..Len(source.tokens) + 1, Before(p) PROVE p = n
    <2>1. CASE p < n
      <3>1. p \in DOMAIN source.tokens
        BY <1>1, <2>1
      <3> QED BY <1>1, <1>2, <2>1, <3>1
    <2>2. CASE n < p
      <3>1. n \in DOMAIN source.tokens
        BY <1>1, <2>2
      <3> QED BY <1>1, <1>2, <2>2, <3>1
    <2> QED BY <1>1, <2>1, <2>2
  <1> QED BY <1>1, <1>2 DEF Place

LEMMA IndexIs ==
  ASSUME source \in Sources, NEW k \in DOMAIN source.tokens
  PROVE  Index(source.tokens[k]) = k
  <1> USE SourceFacts
  <1>1. ASSUME NEW i \in DOMAIN source.tokens, source.tokens[i] = source.tokens[k] PROVE i = k
    <2>1. CASE i < k
      <3>1. i \in 1..k - 1
        BY <2>1
      <3> QED BY <1>1, <3>1
    <2>2. CASE k < i
      <3>1. k \in 1..i - 1
        BY <2>2
      <3> QED BY <1>1, <3>1
    <2> QED BY <2>1, <2>2
  <1> QED BY <1>1 DEF Index

(* The cursor implements the reader of tokens: whatever the mix of peek,     *)
(* accept and backup, parse.c gets the source's tokens in order, none        *)
(* skipped and none cut, and after a backup the last one again.              *)
THEOREM CursorReads == Spec => ImplementsReader
  <1>1. Init => Reader!Init
    <2> SUFFICES ASSUME Init PROVE Reader!Init
      OBVIOUS
    <2>1. source \in Sources /\ previous \in Garbage
      BY DEF Init
    <2>2. Stands(1)
      <3>1. Len(source.tokens) \in Nat
        BY <2>1, SourceFacts
      <3>2. lookahead.start \in Nat
        BY ScanAssumption DEF Init, Garbage
      <3> QED BY <3>1, <3>2 DEF Init, Stands, StandsBefore, Behind, EndBefore, LookaheadFits, PreviousFits
    <2> QED BY <2>1, <2>2, PlaceIs DEF Init, Reader!Init, Index, NoneGiven, Reader!Nothing
  <1>2. (source \in Sources => \A n \in Nat : Stands(n) => Place = n)'
    BY PlaceIs, PTL
  <1>3. CursorInv /\ CursorInv' /\ [Next]_vars => [Reader!Next]_(Reader!vars)
    <2> SUFFICES ASSUME CursorInv, CursorInv', [Next]_vars PROVE [Reader!Next]_(Reader!vars)
      OBVIOUS
    <2>1. source \in Sources /\ Len(source.tokens) \in Nat /\ DOMAIN source.tokens = 1..Len(source.tokens)
      BY SourceFacts DEF CursorInv
    <2>2. PICK n \in Nat : Stands(n)
      BY DEF CursorInv
    <2>3. Place = n
      BY <2>1, <2>2, PlaceIs
    <2>4. ASSUME NEW m \in Nat, Stands(m)' PROVE Place' = m
      BY <1>2, <2>4 DEF CursorInv
    <2>6. CASE Overrun \/ UNCHANGED vars
      <3>1. UNCHANGED <<source, position, previous, given>>
        BY <2>6 DEF Overrun, context, vars
      <3>2. Place' = Place /\ Index(previous)' = Index(previous)
        BY <3>1 DEF Place, Index
      <3> QED BY <3>1, <3>2 DEF Reader!vars
    <2>7. CASE Peek
      <3>1. n \in DOMAIN source.tokens /\ Upcoming = source.tokens[n]
        BY <2>1, <2>2, <2>7, UpcomingIs DEF Peek, Stands, StandsBefore
      <3>2. UNCHANGED <<source, position, previous>>
        BY <2>7 DEF Peek
      <3>3. Place' = Place /\ Index(previous)' = Index(previous)
        BY <3>2 DEF Place, Index
      <3> QED BY <2>3, <2>7, <3>1, <3>3 DEF Peek, Reader!Next, Reader!Peek
    <2>8. CASE Accept
      <3>1. n \in DOMAIN source.tokens /\ Upcoming = source.tokens[n] /\ source' = source
        BY <2>1, <2>2, <2>8, Accepts DEF Accept
      <3>2. previous' = source.tokens[n]
        BY <2>8, <3>1 DEF Accept
      <3>3. Index(previous)' = n
        BY <2>1, <3>1, <3>2, IndexIs DEF Index
      <3>4. Place' = n + 1
        BY <2>1, <2>2, <2>4, <2>8, Accepts
      <3> QED BY <2>3, <2>8, <3>1, <3>3, <3>4 DEF Accept, Reader!Next, Reader!Accept
    <2>9. CASE Backup
      <3>1. PICK k \in DOMAIN source.tokens : previous = source.tokens[k]
        BY <2>2, <2>9 DEF Backup, Stands, PreviousFits
      <3>2. Index(previous) = k /\ k # 0
        BY <2>1, <3>1, IndexIs
      <3>3. UNCHANGED <<source, previous, given>>
        BY <2>9 DEF Backup
      <3>4. Index(previous)' = Index(previous)
        BY <3>3 DEF Index
      <3>5. Place' = k
        BY <2>1, <2>4, <2>9, <3>1, BacksUp
      <3> QED BY <3>2, <3>3, <3>4, <3>5 DEF Reader!Next, Reader!Backup
    <2> QED BY <2>6, <2>7, <2>8, <2>9 DEF Next
  <1> QED BY <1>1, <1>3, CursorInvariant, PTL DEF Spec, ImplementsReader, Reader!Spec
===============================================================================
