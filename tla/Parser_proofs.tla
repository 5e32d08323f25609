------------------------------ MODULE Parser_proofs ------------------------------
(***************************************************************************)
(* Whatever the tokens, the parser stays in its input and its loop moves on. *)
(*                                                                           *)
(* Every function of parse.c, in a context that is sane, leaves one that is, *)
(* not before the one it was given, and behind it if it returns a tree.      *)
(* This is shown of a body first, assumed of the functions it calls, then of *)
(* all functions by the depth of the calls.  statement_block is the one that *)
(* may give back a token it has not taken, and so needs one taken before it. *)
(***************************************************************************)
EXTENDS Parser, Iteration

Sane(c) ==
  /\ c \in Contexts /\ c.next \in 1..Len(tokens) /\ c.last <= c.next
  /\ c.outcome # "stray"

(* How many calls may be made one in the other without taking a token.        *)
Height == [range |-> 1, function_call |-> 1, member_access |-> 1, tuple |-> 1, statement_block |-> 1,
  anonymous_decl |-> 1, function_decl |-> 1, variable_decl |-> 1, if_statement |-> 1, for_statement |-> 1,
  import_statement |-> 1, primary |-> 2, unary |-> 3, term_md |-> 4, term |-> 5, comparison |-> 6, equality |-> 7,
  conjunction |-> 8, assignment |-> 9, expression |-> 10, expression_list |-> 11, statement |-> 11,
  statement_list |-> 12]
(* The calls f needs room for in c.  Only where the stack is short of them    *)
(* may it overflow: short is that, for a call with n more below it.          *)
Need(f, c) == CallsPerToken * (Len(tokens) - c.next) + Height[f]
Enough(n, short, f, c) == n + 1 < Need(f, c) => short

(* d is reached from c without going back, or by going on.                   *)
Fits(short, c, d) == d.outcome = "overflowed" => c.outcome = "overflowed" \/ short
From(short, c, d) == Sane(d) /\ d.next >= c.next /\ d.last >= c.last /\ Fits(short, c, d)
Past(short, c, d) == From(short, c, d) /\ d.next > c.next /\ d.last >= c.next
Back(short, c, d) == Sane(d) /\ d.next >= c.last /\ d.last >= c.last /\ Fits(short, c, d)

Lists    == {"expression_list", "statement_list"}
Outcomes == {"rejected", "aborted", "undefined"}
Takes(type) == type \notin {"EOF", "left"}

(* What an alternative tried in c comes to.                                  *)
Tried(short, c, r) == From(short, c, r.context) /\ (~ IsNull(r) => Past(short, c, r.context))

Ready(f, c) == Sane(c) /\ (f = "statement_block" => c.last > 0)
Returns(short, f, c, r) ==
  /\ IF f = "statement_block" THEN Back(short, c, r.context) ELSE From(short, c, r.context)
  /\ f \notin Lists /\ ~ IsNull(r) => Past(short, c, r.context)
Sound(call, n) == \A f \in Functions, c \in Contexts : Ready(f, c) => Returns(n < Need(f, c), f, c, call[f][c])
-------------------------------------------------------------------------------
(* The steps of a context.                                                   *)
LEMMA Stays ==
  ASSUME NEW short, NEW c, Sane(c)
  PROVE  From(short, c, c) /\ c \in Contexts
  BY DEF Sane, From, Fits, Contexts

LEMMA Transitive ==
  ASSUME NEW short, NEW c, NEW d, NEW e, Sane(c)
  PROVE  /\ From(short, c, d) => Sane(d) /\ Back(short, c, d)
         /\ Past(short, c, d) => From(short, c, d) /\ d.last > 0
         /\ From(short, c, d) /\ From(short, d, e) => From(short, c, e)
         /\ From(short, c, d) /\ Past(short, d, e) => Past(short, c, e)
         /\ Past(short, c, d) /\ From(short, d, e) => Past(short, c, e)
         /\ Past(short, c, d) /\ Back(short, d, e) => From(short, c, e)
         /\ From(short, c, d) /\ Back(short, d, e) => Back(short, c, e)
  BY DEF Sane, From, Past, Back, Fits, Contexts

LEMMA AcceptMoves ==
  ASSUME NEW short, tokens \in Inputs, NEW c, Sane(c), Takes(Peek(c))
  PROVE  /\ Past(short, c, Accept(c)) /\ From(short, c, Backup(Accept(c))) /\ Fine(c)
         /\ Fine(Accept(c))
  <1>1. Fine(c) /\ tokens[c.next].type # "EOF"
    BY DEF Peek, Takes
  <1>2. c.next # Len(tokens) /\ Len(tokens) \in Nat
    BY <1>1, ParserAssumption DEF Sane
  <1>3. /\ Accept(c) \in Contexts /\ Accept(c).next = c.next + 1
        /\ Accept(c).last = c.next /\ Accept(c).outcome = "fine"
    <2>1. c \in Contexts /\ c.next \in Nat /\ c.next + 1 \in Nat /\ c.outcome = "fine"
      BY <1>1 DEF Sane, Contexts, Fine
    <2>2. Accept(c) = [c EXCEPT !.next = c.next + 1, !.last = c.next]
      BY <1>1 DEF Accept
    <2> DEFINE n == c.next
               m == c.next + 1
    <2>3. n \in Nat /\ m \in Nat /\ Accept(c) = [c EXCEPT !.next = m, !.last = n]
      BY <2>1, <2>2
    <2>4. c \in Contexts
      BY <2>1
    <2> HIDE DEF n, m
    <2>5. Accept(c) \in Contexts /\ Accept(c).next = m /\ Accept(c).last = n /\ Accept(c).outcome = c.outcome
      BY <2>3, <2>4 DEF Contexts
    <2> QED BY <2>1, <2>5 DEF n, m
  <1>4. Past(short, c, Accept(c))
    BY <1>2, <1>3 DEF Sane, From, Past, Fits, Contexts
  <1> DEFINE d == Accept(c)
  <1>5. Backup(d) \in Contexts /\ Backup(d).next = c.next /\ Backup(d).last = c.next /\ Backup(d).outcome = "fine"
    <2>1. d.last # 0 /\ Fine(d)
      BY <1>3 DEF Sane, Fine
    <2>2. Backup(d) = [d EXCEPT !.next = d.last]
      BY <2>1 DEF Backup
    <2>3. d \in Contexts /\ d.last = c.next /\ d.last \in Nat /\ d.outcome = "fine"
      BY <1>3 DEF Contexts
    <2> HIDE DEF d
    <2> QED BY <2>2, <2>3 DEF Contexts
  <1>6. From(short, c, Backup(d))
    <2> HIDE DEF d
    <2> QED BY <1>5 DEF Sane, From, Fits, Contexts
  <1> QED BY <1>1, <1>3, <1>4, <1>6 DEF Fine

LEMMA FailStays ==
  ASSUME NEW short, NEW c, Sane(c), NEW outcome \in Outcomes
  PROVE  From(short, c, Fail(c, outcome))
  <1>1. CASE Fine(c)
    <2>1. /\ Fail(c, outcome) \in Contexts /\ Fail(c, outcome).next = c.next /\ Fail(c, outcome).last = c.last
          /\ Fail(c, outcome).outcome = outcome
      BY <1>1 DEF Sane, Contexts, Fail, Outcomes
    <2> QED BY <2>1 DEF Sane, From, Fits, Contexts, Outcomes
  <1>2. CASE ~ Fine(c)
    BY <1>2, Stays DEF Fail
  <1> QED BY <1>1, <1>2

LEMMA FailGoesOn ==
  ASSUME NEW short, NEW c, Sane(c), NEW d, From(short, c, d), NEW outcome \in Outcomes
  PROVE  From(short, c, Fail(d, outcome))
  BY FailStays, Transitive

LEMMA RequireStays ==
  ASSUME NEW short, tokens \in Inputs, NEW c, Sane(c), NEW type, Takes(type), NEW outcome \in Outcomes
  PROVE  From(short, c, Require(c, type, outcome))
  BY AcceptMoves, FailStays, Transitive DEF Require

LEMMA BackupGoesBack ==
  ASSUME NEW short, NEW c, Sane(c), c.last > 0
  PROVE  Back(short, c, Backup(c))
  <1>1. CASE Fine(c)
    <2>1. Backup(c) = [c EXCEPT !.next = c.last]
      BY <1>1 DEF Backup
    <2>2. Backup(c) \in Contexts /\ Backup(c).next = c.last /\ Backup(c).last = c.last /\ Backup(c).outcome = c.outcome
      BY <2>1 DEF Sane, Contexts
    <2> QED BY <2>2 DEF Sane, Back, Fits, Contexts
  <1>2. CASE ~ Fine(c)
    BY <1>2, Stays, Transitive DEF Backup
  <1> QED BY <1>1, <1>2

(* There is a token behind every end of line that is none.                   *)
LEMMA SkipLinesStays ==
  ASSUME NEW short, tokens \in Inputs, NEW c, Sane(c)
  PROVE  From(short, c, SkipLines(c))
  <1>1. CASE Peek(c) # "EOL"
    BY <1>1, Stays DEF SkipLines
  <1>2. CASE Peek(c) = "EOL"
    <2> DEFINE T == {i \in c.next..Len(tokens) : tokens[i].type # "EOL"}
               First(i) == tokens[i].type # "EOL" /\ \A j \in c.next..i - 1 : tokens[j].type = "EOL"
               end == CHOOSE i \in c.next..Len(tokens) : First(i)
    <2>1. c.next \in Nat /\ c.next <= Len(tokens) /\ Len(tokens) \in Nat /\ tokens[Len(tokens)].type # "EOL"
      BY ParserAssumption DEF Sane
    <2>2. Len(tokens) \in T /\ T \in SUBSET Nat
      BY <2>1
    <2>3. PICK i \in T : \A m \in T : i <= m
      <3> HIDE DEF T
      <3> QED BY <2>2, Least
    <2>4. i \in c.next..Len(tokens) /\ First(i)
      BY <2>1, <2>3
    <2>5. end \in c.next..Len(tokens) /\ First(end)
      <3> HIDE DEF First
      <3> QED BY <2>4
    <2>6. end # c.next
      BY <1>2, <2>5 DEF Peek
    <2>7. SkipLines(c) = [c EXCEPT !.next = end, !.last = end - 1]
      BY <1>2 DEF SkipLines
    <2> HIDE DEF end
    <2>8. /\ SkipLines(c) \in Contexts /\ SkipLines(c).next = end /\ SkipLines(c).last = end - 1
          /\ SkipLines(c).outcome = c.outcome
      <3>1. c \in Contexts /\ end \in Nat /\ end - 1 \in Nat
        BY <2>1, <2>5, <2>6 DEF Sane
      <3> DEFINE before == end - 1
      <3>2. SkipLines(c) = [c EXCEPT !.next = end, !.last = before] /\ before \in Nat
        BY <2>7, <3>1
      <3> HIDE DEF before
      <3>3. SkipLines(c) \in Contexts /\ SkipLines(c).next = end /\ SkipLines(c).last = before /\ SkipLines(c).outcome = c.outcome
        BY <3>1, <3>2 DEF Contexts
      <3> QED BY <3>3 DEF before
    <2> QED BY <2>1, <2>5, <2>6, <2>8 DEF Sane, From, Fits, Contexts
  <1> QED BY <1>1, <1>2

(* What a call returns: of a function that needs less room, or behind a token *)
(* that has been taken.                                                      *)
LEMMA HeightIs ==
  /\ \A f \in Functions : Height[f] \in 1..12
  /\ CallsPerToken = 12
  BY DEF Height, Functions, CallsPerToken

Below(g, f) == f \in Functions /\ g \in Functions \ ({"statement_block"} \cup Lists) /\ Height[g] < Height[f]

LEMMA BelowIs ==
  /\ Below("statement", "statement_list") /\ Below("expression", "expression_list")
  /\ \A g \in {"variable_decl", "expression", "function_decl", "anonymous_decl", "if_statement", "for_statement",
             "import_statement"} : Below(g, "statement")
  /\ Below("assignment", "expression") /\ Below("anonymous_decl", "expression") /\ Below("conjunction", "assignment")
  /\ \A f \in DOMAIN Operators : Below(Operands[f], f)
  /\ Below("primary", "unary")
  /\ \A g \in {"function_call", "member_access", "range", "tuple"} : Below(g, "primary")
  BY DEF Below, Height, Functions, Lists, Operators, Operands

LEMMA NeedIs ==
  ASSUME tokens \in Inputs, NEW c, Sane(c), NEW d, Sane(d), NEW f \in Functions, NEW g \in Functions
  PROVE  /\ Need(f, c) \in Nat /\ Need(g, d) \in Nat /\ Need(f, d) \in Nat
         /\ d.next >= c.next => Need(f, d) <= Need(f, c)
         /\ d.next >= c.next /\ Height[g] < Height[f] => Need(g, d) < Need(f, c)
         /\ d.next > c.next => Need(g, d) < Need(f, c)
  <1> DEFINE l == Len(tokens)
             x == c.next
             y == d.next
             h == Height[f]
             k == Height[g]
  <1>1. l \in Nat /\ x \in 1..l /\ y \in 1..l /\ h \in 1..12 /\ k \in 1..12
    BY HeightIs, ParserAssumption DEF Sane
  <1>2. Need(f, c) = 12 * (l - x) + h /\ Need(g, d) = 12 * (l - y) + k /\ Need(f, d) = 12 * (l - y) + h
    BY HeightIs DEF Need
  <1> HIDE DEF l, x, y, h, k
  <1>3. /\ 12 * (l - x) + h \in Nat /\ 12 * (l - y) + k \in Nat /\ 12 * (l - y) + h \in Nat
        /\ y >= x => 12 * (l - y) + h <= 12 * (l - x) + h
        /\ y >= x /\ k < h => 12 * (l - y) + k < 12 * (l - x) + h
        /\ y > x => 12 * (l - y) + k < 12 * (l - x) + h
    BY <1>1
  <1> QED BY <1>2, <1>3 DEF x, y, h, k

LEMMA EnoughOn ==
  ASSUME tokens \in Inputs, NEW n \in Nat, NEW short, NEW f \in Functions, NEW c, Sane(c), Enough(n, short, f, c),
         NEW d, From(short, c, d)
  PROVE  Enough(n, short, f, d)
  BY NeedIs DEF Enough, From

LEMMA CallBelow ==
  ASSUME tokens \in Inputs, NEW call, NEW n \in Nat, Sound(call, n), NEW short, NEW f, NEW c, Sane(c),
         Enough(n, short, f, c), NEW d, From(short, c, d), NEW g, Below(g, f)
  PROVE  LET r == call[g][d]
         IN  /\ From(short, d, r.context) /\ From(short, c, r.context) /\ Sane(r.context)
             /\ Tried(short, d, r)
  <1> DEFINE less == n < Need(g, d)
             r    == call[g][d]
  <1>1. Sane(d) /\ d \in Contexts
    BY DEF From, Sane
  <1>2. Returns(less, g, d, r)
    BY <1>1 DEF Sound, Ready, Below
  <1>3. less => short
    BY <1>1, NeedIs DEF Enough, From, Below
  <1> HIDE DEF less, r
  <1>4. From(short, d, r.context) /\ Tried(short, d, r)
    BY <1>2, <1>3 DEF Below, Returns, Tried, From, Past, Fits
  <1>5. From(short, c, r.context) /\ Sane(r.context)
    BY <1>1, <1>4, Transitive
  <1> QED BY <1>4, <1>5 DEF r

LEMMA RoomBehind ==
  ASSUME tokens \in Inputs, NEW n \in Nat, NEW short, NEW f \in Functions, NEW c, Sane(c), Enough(n, short, f, c),
         NEW d, Past(short, c, d), NEW g \in Functions
  PROVE  n < Need(g, d) => short
  BY NeedIs DEF Enough, Past, From

LEMMA CallBehind ==
  ASSUME tokens \in Inputs, NEW call, NEW n \in Nat, Sound(call, n), NEW short, NEW f \in Functions, NEW c, Sane(c),
         Enough(n, short, f, c), NEW d, Past(short, c, d), NEW g \in Functions \ {"statement_block"}
  PROVE  LET r == call[g][d]
         IN  /\ From(short, d, r.context) /\ Past(short, c, r.context) /\ Sane(r.context)
             /\ g \notin Lists => Tried(short, d, r)
  <1> DEFINE less == n < Need(g, d)
             r    == call[g][d]
  <1>1. Sane(d) /\ d \in Contexts
    BY DEF Past, From, Sane
  <1>2. Returns(less, g, d, r)
    BY <1>1 DEF Sound, Ready
  <1>3. less => short
    BY RoomBehind
  <1> HIDE DEF less, r
  <1>4. From(short, d, r.context) /\ (g \notin Lists => Tried(short, d, r))
    BY <1>2, <1>3 DEF Returns, Tried, From, Past, Fits
  <1>5. Past(short, c, r.context) /\ Sane(r.context)
    BY <1>1, <1>4, Transitive
  <1> QED BY <1>4, <1>5 DEF r

LEMMA BlockBehind ==
  ASSUME tokens \in Inputs, NEW call, NEW n \in Nat, Sound(call, n), NEW short, NEW f \in Functions, NEW c, Sane(c),
         Enough(n, short, f, c), NEW d, Past(short, c, d)
  PROVE  LET r == call["statement_block"][d]
         IN  Back(short, d, r.context) /\ (~ IsNull(r) => Past(short, d, r.context))
  <1> DEFINE less == n < Need("statement_block", d)
             r    == call["statement_block"][d]
  <1>1. Sane(d) /\ d \in Contexts /\ d.last > 0
    BY DEF Past, From, Sane, Contexts
  <1>2. "statement_block" \in Functions /\ "statement_block" \notin Lists
    BY DEF Functions, Lists
  <1>3. Returns(less, "statement_block", d, r)
    BY <1>1, <1>2 DEF Sound, Ready
  <1>4. less => short
    BY <1>2, RoomBehind
  <1> HIDE DEF less, r
  <1>5. Back(short, d, r.context) /\ (~ IsNull(r) => Past(short, d, r.context))
    BY <1>2, <1>3, <1>4 DEF Returns, Back, From, Past, Fits
  <1> QED BY <1>5 DEF r
-------------------------------------------------------------------------------
(* The loops.                                                                *)
Levels == {"conjunction", "equality", "comparison", "term", "term_md"}

LEMMA LevelsAre ==
  /\ DOMAIN Operators = Levels
  /\ \A f \in Levels : f \in Functions \ {"statement_block"} /\ f \notin Lists
  /\ \A f \in Levels : Operands[f] \in Functions \ {"statement_block"} /\ Operands[f] \notin Lists
  /\ \A f \in Levels : \A op \in Operators[f] : Takes(op)
  BY DEF Operators, Operands, Levels, Functions, Lists, Takes

(* A turn goes on; where there was no tree, there is none.                   *)
LEMMA OperationReturns ==
  ASSUME tokens \in Inputs, NEW call, NEW n \in Nat, Sound(call, n), NEW short, NEW f \in Levels,
         NEW left, Sane(left.context), Enough(n, short, f, left.context)
  PROVE  LET r == Operation(call, f, left)
         IN  From(short, left.context, r.context) /\ (IsNull(left) => IsNull(r))
  <1> DEFINE c     == left.context
             after == Accept(c)
             right == call[Operands[f]][after]
             r     == Operation(call, f, left)
  <1>1. CASE Peek(c) \notin Operators[f]
    BY <1>1, Stays DEF Operation, Finished, IsNull
  <1>2. CASE Peek(c) \in Operators[f]
    <2>1. Past(short, c, after) /\ From(short, c, Backup(after)) /\ From(short, c, after)
      BY <1>2, LevelsAre, AcceptMoves, Transitive
    <2>2. From(short, after, right.context)
      BY <2>1, CallBehind, LevelsAre
    <2>3. From(short, c, right.context) /\ Sane(right.context)
      BY <2>1, <2>2, Transitive
    <2>4. From(short, right.context, Fail(right.context, "undefined"))
      BY <2>3, FailStays DEF Outcomes
    <2>5. From(short, c, Fail(right.context, "undefined"))
      BY <2>3, <2>4, Transitive
    <2>6. \/ r = Finished(Backup(after), NoTree)
          \/ r = Finished(Fail(right.context, "undefined"), NoTree)
          \/ ~ IsNull(left) /\ r = Unfinished(right.context, Bin(Peek(c), left.tree, right.tree))
      BY <1>2 DEF Operation
    <2> HIDE DEF r, right, after
    <2>7. r.context \in {Backup(after), Fail(right.context, "undefined"), right.context} /\ (IsNull(left) => IsNull(r))
      BY <2>6 DEF Finished, Unfinished, IsNull
    <2> QED BY <2>1, <2>3, <2>5, <2>7 DEF r
  <1> QED BY <1>1, <1>2

LEMMA NextExpressionReturns ==
  ASSUME tokens \in Inputs, NEW call, NEW n \in Nat, Sound(call, n), NEW short, NEW list, Sane(list.context),
         Enough(n, short, "expression_list", list.context)
  PROVE  From(short, list.context, NextExpression(call, list).context)
  <1> DEFINE c    == list.context
             expr == call["expression"][Accept(c)]
             r    == NextExpression(call, list)
  <1>1. CASE Peek(c) # ","
    BY <1>1, Stays DEF NextExpression, Finished
  <1>2. CASE Peek(c) = ","
    <2>1. Past(short, c, Accept(c))
      BY <1>2, AcceptMoves DEF Takes
    <2>2. Past(short, c, expr.context)
      BY <2>1, CallBehind DEF Functions
    <2>3. From(short, c, expr.context) /\ Sane(expr.context)
      BY <2>2, Transitive
    <2>4. From(short, c, Fail(expr.context, "aborted"))
      BY <2>3, FailStays, Transitive DEF Outcomes
    <2>5. r.context \in {Fail(expr.context, "aborted"), expr.context}
      BY <1>2 DEF NextExpression, Finished, Unfinished
    <2> QED BY <2>3, <2>4, <2>5
  <1> QED BY <1>1, <1>2

LEMMA TurnReturns ==
  ASSUME tokens \in Inputs, NEW call, NEW n \in Nat, Sound(call, n), NEW short, NEW c, Sane(c),
         Enough(n, short, "statement_list", c)
  PROVE  /\ From(short, c, Turn(call, c).context)
         /\ ~ IsNull(Turn(call, c)) => Past(short, c, Turn(call, c).context)
  <1> DEFINE d == IF Peek(c) = "EOL" THEN Accept(c) ELSE c
             r == call["statement"][d]
  <1>1. From(short, c, d) /\ Sane(d)
    BY AcceptMoves, Stays, Transitive DEF Takes
  <1> HIDE DEF d
  <1>2. From(short, d, r.context) /\ (~ IsNull(r) => Past(short, d, r.context))
    BY <1>1, CallBelow, BelowIs DEF Tried
  <1>3. From(short, c, r.context) /\ (~ IsNull(r) => Past(short, c, r.context))
    <2> HIDE DEF r
    <2> QED BY <1>1, <1>2, Transitive
  <1> QED BY <1>3 DEF Turn, d

LEMMA NextStatementReturns ==
  ASSUME tokens \in Inputs, NEW call, NEW n \in Nat, Sound(call, n), NEW short, NEW list, Sane(list.context),
         Enough(n, short, "statement_list", list.context)
  PROVE  From(short, list.context, NextStatementOf(call, list).context)
  BY TurnReturns, Stays DEF NextStatementOf, Finished, Unfinished

LEMMA LoopIs ==
  ASSUME NEW call, NEW f, NEW c, NEW tree, Len(tokens) \in Nat
  PROVE  \E turn :
           /\ turn[0] = Unfinished(c, tree)
           /\ \A i \in 1..Len(tokens) :
                turn[i] = IF turn[i - 1].finished THEN turn[i - 1] ELSE Again(call, f, turn[i - 1])
           /\ Loop(call, f, c, tree) =
                Made(turn[Len(tokens) - c.next].context, turn[Len(tokens) - c.next].tree)
  <1> DEFINE n == Len(tokens)
             Step(r) == IF r.finished THEN r ELSE Again(call, f, r)
             start == Unfinished(c, tree)
             Recursion(g, k) == g = [i \in 0..k |-> IF i = 0 THEN start ELSE Step(g[i - 1])]
             T == {k \in 0..n : ~ \E g : Recursion(g, k)}
             turn == CHOOSE g : Recursion(g, n)
  <1>1. Loop(call, f, c, tree) = Made(turn[n - c.next].context, turn[n - c.next].tree)
    BY DEF Loop
  <1> HIDE DEF Step, start
  <1>2. ASSUME T # {} PROVE FALSE
    <2>1. PICK k \in T : \A m \in T : k <= m
      <3>1. T \in SUBSET Nat
        OBVIOUS
      <3> HIDE DEF T
      <3> QED BY <1>2, <3>1, Least
    <2>2. k # 0
      <3>1. Recursion([i \in {0} |-> start], 0)
        <4>1. 0..0 = {0}
          OBVIOUS
        <4> QED BY <4>1
      <3> HIDE DEF Recursion
      <3> QED BY <2>1, <3>1
    <2>3. k - 1 \in 0..n /\ k \in 1..n /\ k - 1 \notin T
      BY <2>1, <2>2
    <2>4. PICK g : Recursion(g, k - 1)
      <3> HIDE DEF Recursion
      <3> QED BY <2>3
    <2> DEFINE longer == [i \in 0..k |-> IF i = k THEN Step(g[k - 1]) ELSE g[i]]
    <2>5. ASSUME NEW i \in 0..k PROVE longer[i] = IF i = 0 THEN start ELSE Step(longer[i - 1])
      <3>1. CASE i = 0
        BY <2>2, <2>3, <2>4, <3>1
      <3>2. CASE i = k
        <4>1. longer[k] = Step(g[k - 1]) /\ longer[k - 1] = g[k - 1] /\ k # 0
          BY <2>2, <2>3
        <4> HIDE DEF longer
        <4> QED BY <3>2, <4>1
      <3>3. CASE i # 0 /\ i # k
        <4>1. i \in 0..k - 1 /\ i - 1 \in 0..k /\ i - 1 # k /\ i \in 0..k
          BY <2>3, <3>3
        <4>2. longer[i] = g[i] /\ longer[i - 1] = g[i - 1]
          BY <3>3, <4>1
        <4>3. g[i] = Step(g[i - 1])
          BY <2>4, <3>3, <4>1
        <4> HIDE DEF longer
        <4> QED BY <3>3, <4>2, <4>3
      <3> QED BY <3>1, <3>2, <3>3
    <2>6. Recursion(longer, k)
      <3>1. longer = [i \in 0..k |-> longer[i]]
        OBVIOUS
      <3> HIDE DEF longer
      <3> QED BY <2>5, <3>1
    <2> HIDE DEF longer, Recursion
    <2> QED BY <2>1, <2>6
  <1>3. \E g : Recursion(g, n)
    <2>1. n \in 0..n
      OBVIOUS
    <2> HIDE DEF Recursion
    <2> QED BY <1>2, <2>1
  <1>4. Recursion(turn, n)
    BY <1>3
  <1> HIDE DEF turn
  <1>5. turn[0] = start /\ \A i \in 1..n : turn[i] = Step(turn[i - 1])
    <2>1. \A i \in 0..n : turn[i] = IF i = 0 THEN start ELSE Step(turn[i - 1])
      BY <1>4
    <2>2. 0 \in 0..n /\ \A i \in 1..n : i \in 0..n /\ i # 0
      OBVIOUS
    <2> QED BY <2>1, <2>2
  <1> QED BY <1>1, <1>5 DEF Step, start

LEMMA AgainReturns ==
  ASSUME tokens \in Inputs, NEW call, NEW n \in Nat, Sound(call, n), NEW short, NEW f \in Levels \cup Lists, NEW r, Sane(r.context),
         Enough(n, short, f, r.context)
  PROVE  From(short, r.context, Again(call, f, r).context) /\ (f \in Levels /\ IsNull(r) => IsNull(Again(call, f, r)))
  <1>1. CASE f = "expression_list"
    BY <1>1, NextExpressionReturns DEF Again, Levels
  <1>2. CASE f = "statement_list"
    BY <1>2, NextStatementReturns DEF Again, Levels
  <1>3. CASE f \in Levels
    <2>1. Again(call, f, r) = Operation(call, f, r)
      BY <1>3 DEF Again, Levels
    <2> QED BY <1>3, <2>1, OperationReturns
  <1> QED BY <1>1, <1>2, <1>3 DEF Lists

LEMMA LoopReturns ==
  ASSUME tokens \in Inputs, NEW call, NEW n \in Nat, Sound(call, n), NEW short, NEW f \in Levels \cup Lists, NEW c, Sane(c),
         Enough(n, short, f, c), NEW tree
  PROVE  /\ From(short, c, Loop(call, f, c, tree).context)
         /\ f \in Levels /\ tree = NoTree => IsNull(Loop(call, f, c, tree))
  <1> DEFINE l == Len(tokens)
             Holds(r) == From(short, c, r.context) /\ (f \in Levels /\ tree = NoTree => IsNull(r))
  <1>1. l \in Nat /\ c.next \in 1..l
    BY ParserAssumption DEF Sane
  <1>2. PICK turn :
          /\ turn[0] = Unfinished(c, tree)
          /\ \A i \in 1..l : turn[i] = IF turn[i - 1].finished THEN turn[i - 1] ELSE Again(call, f, turn[i - 1])
          /\ Loop(call, f, c, tree) = Made(turn[l - c.next].context, turn[l - c.next].tree)
    BY <1>1, LoopIs
  <1>3. Holds(turn[0])
    BY <1>2, Stays DEF Unfinished, IsNull
  <1>4. ASSUME NEW r, Holds(r) PROVE Holds(Again(call, f, r))
    <2>1. Sane(r.context) /\ Enough(n, short, f, r.context)
      BY <1>4, EnoughOn, Transitive DEF Levels, Lists, Functions
    <2> QED BY <1>4, <2>1, AgainReturns, Transitive
  <1> HIDE DEF Holds
  <1> DEFINE T == {i \in 0..l : ~ Holds(turn[i])}
  <1>5. ASSUME T # {} PROVE FALSE
    <2>1. PICK k \in T : \A m \in T : k <= m
      <3>1. T \in SUBSET Nat
        OBVIOUS
      <3> HIDE DEF T
      <3> QED BY <1>5, <3>1, Least
    <2>2. k # 0
      BY <1>3, <2>1
    <2>3. k \in 1..l /\ k - 1 \in 0..l /\ k - 1 \notin T
      BY <2>1, <2>2
    <2>4. Holds(turn[k - 1])
      BY <2>3
    <2>5. Holds(turn[k])
      BY <1>2, <1>4, <2>3, <2>4
    <2> QED BY <2>1, <2>5
  <1>6. l - c.next \in 0..l
    BY <1>1
  <1>7. Holds(turn[l - c.next])
    BY <1>5, <1>6
  <1> QED BY <1>2, <1>7 DEF Holds, Made, IsNull

LEMMA TurnsAre ==
  \A d, tree : /\ Finished(d, tree).finished = TRUE
               /\ Unfinished(d, tree).context = d
  BY DEF Finished, Unfinished

(* A turn that does not end its loop has taken a token.                      *)
LEMMA AgainMoves ==
  ASSUME tokens \in Inputs, NEW call, NEW n \in Nat, Sound(call, n), NEW f \in Levels \cup Lists, NEW r, Sane(r.context)
  PROVE  LET again == Again(call, f, r)
         IN  Sane(again.context) /\ (~ again.finished => again.context.next > r.context.next)
  <1> DEFINE c     == r.context
             again == Again(call, f, r)
             Moves == again.finished = TRUE \/ Past(TRUE, c, again.context)
  <1>1. f \in Functions /\ \A g \in Functions : Enough(n, TRUE, g, c)
    BY DEF Levels, Lists, Functions, Enough
  <1>2. From(TRUE, c, again.context)
    BY <1>1, AgainReturns
  <1>3. ASSUME f = "expression_list" PROVE Moves
    <2> DEFINE expr == call["expression"][Accept(c)]
    <2>1. again = NextExpression(call, r)
      BY <1>3 DEF Again
    <2>2. ASSUME Peek(c) = "," PROVE Past(TRUE, c, expr.context)
      <3>1. Past(TRUE, c, Accept(c))
        BY <2>2, AcceptMoves DEF Takes
      <3> QED BY <1>1, <3>1, CallBehind DEF Functions
    <2> HIDE DEF again
    <2>3. \/ \E d, tree : again = Finished(d, tree)
          \/ Peek(c) = "," /\ again = Unfinished(expr.context, Append(r.tree, expr.tree))
      BY <2>1, Zenon DEF NextExpression
    <2> HIDE DEF expr
    <2>4. again.finished = TRUE \/ again.context = expr.context
      BY <2>3, TurnsAre, Zenon
    <2>5. again.finished = TRUE \/ Past(TRUE, c, expr.context)
      BY <2>2, <2>3, TurnsAre, Zenon
    <2> QED BY <2>4, <2>5
  <1>4. ASSUME f = "statement_list" PROVE Moves
    <2> DEFINE turn == Turn(call, c)
    <2>1. again = NextStatementOf(call, r)
      BY <1>4 DEF Again
    <2>2. ~ IsNull(turn) => Past(TRUE, c, turn.context)
      BY <1>1, <1>4, TurnReturns
    <2> HIDE DEF again
    <2>3. \/ \E d, tree : again = Finished(d, tree)
          \/ ~ IsNull(turn) /\ again = Unfinished(turn.context, Append(r.tree, turn.tree))
      BY <2>1, Zenon DEF NextStatementOf
    <2> HIDE DEF turn
    <2>4. again.finished = TRUE \/ again.context = turn.context
      BY <2>3, TurnsAre, Zenon
    <2>5. again.finished = TRUE \/ Past(TRUE, c, turn.context)
      BY <2>2, <2>3, TurnsAre, Zenon
    <2> QED BY <2>4, <2>5
  <1>5. ASSUME f \in Levels PROVE Moves
    <2> DEFINE right == call[Operands[f]][Accept(c)]
               Operates == Peek(c) \in Operators[f]
    <2>1. again = Operation(call, f, r)
      BY <1>5 DEF Again, Levels
    <2>2. ASSUME Operates PROVE Past(TRUE, c, right.context)
      <3>1. Past(TRUE, c, Accept(c))
        BY <1>5, <2>2, LevelsAre, AcceptMoves
      <3> QED BY <1>1, <1>5, <3>1, CallBehind, LevelsAre
    <2> HIDE DEF again
    <2>3. \/ \E d, tree : again = Finished(d, tree)
          \/ Operates /\ again = Unfinished(right.context, Bin(Peek(c), r.tree, right.tree))
      BY <2>1, Zenon DEF Operation
    <2> HIDE DEF right, Operates
    <2>4. again.finished = TRUE \/ again.context = right.context
      BY <2>3, TurnsAre, Zenon
    <2>5. again.finished = TRUE \/ Past(TRUE, c, right.context)
      BY <2>2, <2>3, TurnsAre, Zenon
    <2> QED BY <2>4, <2>5
  <1>6. Moves
    BY <1>3, <1>4, <1>5 DEF Lists
  <1>7. Sane(again.context) /\ (~ again.finished => again.context.next > c.next)
    <2> HIDE DEF again
    <2> QED BY <1>2, <1>6 DEF Past, From
  <1> QED BY <1>7

(* Where the loop has nothing more to do.                                    *)
Over(call, f, r) == r.finished \/ ~ Fine(r.context) \/ Again(call, f, r) = Finished(r.context, r.tree)

(* A loop returns what its turns come to, one after the other, when it is over. *)
RunsToItsEnd(call, f, c, tree) ==
  \E k \in Nat : \E turn :
    /\ turn[0] = Unfinished(c, tree)
    /\ \A i \in 1..k : ~ turn[i - 1].finished /\ turn[i] = Again(call, f, turn[i - 1])
    /\ Over(call, f, turn[k])
    /\ Loop(call, f, c, tree) = Made(turn[k].context, turn[k].tree)

LEMMA OverAtEOF ==
  ASSUME tokens \in Inputs, NEW call, NEW f \in Levels \cup Lists, NEW r, r.context.next = Len(tokens)
  PROVE  Over(call, f, r)
  <1> SUFFICES ASSUME Fine(r.context)
               PROVE  Again(call, f, r) = Finished(r.context, r.tree)
    BY DEF Over
  <1>1. Peek(r.context) = "EOF"
    <2>1. Len(tokens) \in 1..Len(tokens)
      BY ParserAssumption
    <2> QED BY <2>1, ParserAssumption DEF Peek
  <1>2. CASE f = "expression_list"
    BY <1>1, <1>2 DEF Again, NextExpression
  <1>3. CASE f = "statement_list"
    BY <1>1, <1>3 DEF Again, NextStatementOf
  <1>4. CASE f \in Levels
    <2>1. Peek(r.context) \notin Operators[f]
      BY <1>1, <1>4, LevelsAre DEF Takes
    <2> QED BY <1>4, <2>1 DEF Again, Operation, Levels
  <1> QED BY <1>2, <1>3, <1>4 DEF Lists

LEMMA LoopRunsToItsEnd ==
  ASSUME tokens \in Inputs, NEW call, NEW n \in Nat, Sound(call, n), NEW f \in Levels \cup Lists, NEW c, Sane(c), NEW tree
  PROVE  RunsToItsEnd(call, f, c, tree)
  <1> DEFINE l == Len(tokens)
             m == l - c.next
  <1>1. l \in Nat /\ c.next \in 1..l /\ m \in 0..l
    BY ParserAssumption DEF Sane
  <1>2. PICK turn :
          /\ turn[0] = Unfinished(c, tree)
          /\ \A i \in 1..l : turn[i] = IF turn[i - 1].finished THEN turn[i - 1] ELSE Again(call, f, turn[i - 1])
          /\ Loop(call, f, c, tree) = Made(turn[m].context, turn[m].tree)
    BY <1>1, LoopIs
  <1> DEFINE T == {i \in 0..m : turn[i].finished}
             Goes(i) == ~ turn[i].finished =>
                          Sane(turn[i].context) /\ turn[i].context.next >= c.next + i
             U == {i \in 0..l : ~ Goes(i)}
  <1> HIDE DEF m
  <1>3. CASE T = {}
    <2>1. \A i \in 0..m : ~ turn[i].finished
      BY <1>3
    <2>2. \A i \in 1..m : i \in 1..l /\ i - 1 \in 0..m
      BY <1>1
    <2>3. \A i \in 1..m : ~ turn[i - 1].finished /\ turn[i] = Again(call, f, turn[i - 1])
      <3> HIDE DEF T
      <3> QED BY <1>2, <2>1, <2>2
    <2>4. ASSUME U # {} PROVE FALSE
      <3>1. PICK k \in U : \A j \in U : k <= j
        <4>1. U \in SUBSET Nat
          OBVIOUS
        <4> HIDE DEF U
        <4> QED BY <2>4, <4>1, Least
      <3>2. k # 0
        <4>1. turn[0].context = c /\ c.next >= c.next + 0
          BY <1>1, <1>2 DEF Unfinished
        <4>2. Goes(0)
          BY <4>1
        <4> HIDE DEF Goes
        <4> QED BY <3>1, <4>2
      <3>3. k \in 1..l /\ k - 1 \in 0..l /\ k - 1 \notin U
        <4>1. k \in 1..l /\ k - 1 \in 0..l /\ ~ (k <= k - 1)
          BY <1>1, <3>1, <3>2
        <4> HIDE DEF U
        <4> QED BY <3>1, <4>1
      <3>4. Goes(k - 1) /\ ~ Goes(k)
        <4> HIDE DEF Goes
        <4> QED BY <3>1, <3>3
      <3>5. ~ turn[k - 1].finished /\ turn[k] = Again(call, f, turn[k - 1])
        BY <1>2, <3>3, <3>4
      <3> DEFINE r == turn[k - 1]
                 s == turn[k]
                 before == r.context.next
                 after  == s.context.next
      <3>6. Sane(r.context) /\ before >= c.next + (k - 1) /\ before \in Nat
        BY <3>4, <3>5 DEF Sane, Contexts
      <3>7. Sane(s.context) /\ (~ s.finished => after > before) /\ after \in Nat
        <4>1. Sane(s.context) /\ (~ s.finished => after > before)
          <5> HIDE DEF r
          <5>1. s = Again(call, f, r)
            BY <3>5 DEF r
          <5> HIDE DEF s
          <5> QED BY <3>6, <5>1, AgainMoves
        <4> QED BY <4>1 DEF Sane
      <3>8. ~ s.finished => after >= c.next + k
        <4> HIDE DEF before, after, r, s
        <4> QED BY <1>1, <3>3, <3>6, <3>7
      <3> QED BY <3>4, <3>7, <3>8
    <2>5. m \in 0..m /\ m \in 0..l
      BY <1>1
    <2>6. Goes(m)
      <3> HIDE DEF Goes
      <3> QED BY <2>4, <2>5
    <2>7. turn[m].context.next = l
      <3>1. Sane(turn[m].context) /\ turn[m].context.next >= c.next + m
        BY <2>1, <2>5, <2>6
      <3> QED BY <1>1, <3>1 DEF Sane, m
    <2>8. Over(call, f, turn[m])
      BY <2>7, OverAtEOF
    <2> HIDE DEF T, U, Goes
    <2> QED BY <1>1, <1>2, <2>3, <2>8 DEF RunsToItsEnd
  <1>4. CASE T # {}
    <2>1. PICK k \in T : \A j \in T : k <= j
      <3>1. T \in SUBSET Nat
        BY <1>1
      <3> HIDE DEF T
      <3> QED BY <1>4, <3>1, Least
    <2>2. k \in 0..m /\ turn[k].finished
      BY <2>1
    <2>3. ASSUME NEW i \in 1..k PROVE ~ turn[i - 1].finished /\ turn[i] = Again(call, f, turn[i - 1])
      <3>1. i \in 1..l /\ i - 1 \in 0..m /\ ~ (k <= i - 1)
        BY <1>1, <2>2
      <3>2. i - 1 \notin T
        <4> HIDE DEF T
        <4> QED BY <2>1, <3>1
      <3>3. ~ turn[i - 1].finished
        BY <3>1, <3>2
      <3> QED BY <1>2, <3>1, <3>3
    <2> DEFINE V == {i \in k..m : turn[i] # turn[k]}
    <2>4. ASSUME V # {} PROVE FALSE
      <3>1. PICK j \in V : \A i \in V : j <= i
        <4>1. V \in SUBSET Nat
          BY <1>1, <2>2
        <4> HIDE DEF V
        <4> QED BY <2>4, <4>1, Least
      <3>2. j \in 1..l /\ j - 1 \in k..m /\ ~ (j <= j - 1)
        BY <1>1, <2>2, <3>1
      <3>3. j - 1 \notin V
        <4> HIDE DEF V
        <4> QED BY <3>1, <3>2
      <3>4. turn[j - 1] = turn[k] /\ turn[j] # turn[k]
        BY <3>1, <3>2, <3>3
      <3> QED BY <1>2, <2>2, <3>2, <3>4
    <2>5. turn[m] = turn[k]
      <3>1. m \in k..m
        BY <1>1, <2>2
      <3> QED BY <2>4, <3>1
    <2>6. k \in Nat /\ Over(call, f, turn[k])
      BY <1>1, <2>2 DEF Over
    <2>7. \A i \in 1..k : ~ turn[i - 1].finished /\ turn[i] = Again(call, f, turn[i - 1])
      BY <2>3
    <2> HIDE DEF T, U, V, Goes
    <2> QED BY <1>2, <2>5, <2>6, <2>7 DEF RunsToItsEnd
  <1> QED BY <1>3, <1>4

LEMMA LevelReturns ==
  ASSUME tokens \in Inputs, NEW call, NEW n \in Nat, Sound(call, n), NEW short, NEW f \in Levels, NEW c, Sane(c),
         Enough(n, short, f, c)
  PROVE  Returns(short, f, c, Level(call, f, c))
  <1> DEFINE left == call[Operands[f]][c]
             r    == Loop(call, f, left.context, left.tree)
  <1>1. From(short, c, left.context) /\ (~ IsNull(left) => Past(short, c, left.context)) /\ Sane(left.context)
    <2>1. From(short, c, c)
      BY Stays
    <2> QED BY <2>1, CallBelow, BelowIs, LevelsAre DEF Tried
  <1>2. From(short, left.context, r.context) /\ (IsNull(left) => IsNull(r))
    <2>1. Enough(n, short, f, left.context)
      <3> HIDE DEF left
      <3> QED BY <1>1, EnoughOn, LevelsAre
    <2> QED BY <1>1, <2>1, LoopReturns DEF IsNull
  <1>3. From(short, c, r.context) /\ (~ IsNull(r) => Past(short, c, r.context))
    <2> HIDE DEF left, r
    <2> QED BY <1>1, <1>2, Transitive
  <1> QED BY <1>3, LevelsAre DEF Returns, Level

LEMMA ExpressionListReturns ==
  ASSUME tokens \in Inputs, NEW call, NEW n \in Nat, Sound(call, n), NEW short, NEW c, Sane(c), Enough(n, short, "expression_list", c)
  PROVE  Returns(short, "expression_list", c, ExpressionList(call, c))
  <1> DEFINE first == call["expression"][c]
             list  == Loop(call, "expression_list", first.context, << first.tree >>)
  <1>1. From(short, c, first.context) /\ Sane(first.context)
    <2>1. From(short, c, c)
      BY Stays
    <2> QED BY <2>1, CallBelow, BelowIs
  <1>2. From(short, first.context, list.context)
    <2>1. Enough(n, short, "expression_list", first.context)
      <3> HIDE DEF first
      <3> QED BY <1>1, EnoughOn DEF Functions
    <2> QED BY <1>1, <2>1, LoopReturns DEF Lists
  <1>3. From(short, c, list.context)
    BY <1>1, <1>2, Transitive
  <1>4. ExpressionList(call, c).context \in {first.context, list.context}
    BY DEF ExpressionList, Made
  <1> QED BY <1>1, <1>3, <1>4 DEF Returns, Lists

LEMMA StatementListReturns ==
  ASSUME tokens \in Inputs, NEW call, NEW n \in Nat, Sound(call, n), NEW short, NEW c, Sane(c), Enough(n, short, "statement_list", c)
  PROVE  Returns(short, "statement_list", c, StatementList(call, c))
  <1> DEFINE first == call["statement"][c]
             list  == Loop(call, "statement_list", first.context, << first.tree >>)
  <1>1. From(short, c, first.context) /\ Sane(first.context)
    <2>1. From(short, c, c)
      BY Stays
    <2> QED BY <2>1, CallBelow, BelowIs
  <1>2. From(short, first.context, list.context)
    <2>1. Enough(n, short, "statement_list", first.context)
      <3> HIDE DEF first
      <3> QED BY <1>1, EnoughOn DEF Functions
    <2> QED BY <1>1, <2>1, LoopReturns DEF Lists
  <1>3. From(short, c, list.context)
    BY <1>1, <1>2, Transitive
  <1>4. StatementList(call, c).context \in {first.context, list.context}
    BY DEF StatementList, Made
  <1> QED BY <1>1, <1>3, <1>4 DEF Returns, Lists
-------------------------------------------------------------------------------
(* The functions, each assumed of those it calls.                            *)
LEMMA FunctionCallReturns ==
  ASSUME tokens \in Inputs, NEW call, NEW n \in Nat, Sound(call, n), NEW short, NEW c, Sane(c), Enough(n, short, "function_call", c)
  PROVE  Returns(short, "function_call", c, FunctionCall(call, c))
  <1> DEFINE name == Accept(c)
             args == call["expression_list"][Accept(name)]
             r    == FunctionCall(call, c)
  <1>1. CASE Peek(c) # "IDENTIFIER"
    BY <1>1, Stays DEF FunctionCall, Null, Made, IsNull, Returns
  <1>2. CASE Peek(c) = "IDENTIFIER" /\ Peek(name) # "("
    BY <1>2, AcceptMoves DEF FunctionCall, Null, Made, IsNull, Returns, Takes
  <1>3. CASE Peek(c) = "IDENTIFIER" /\ Peek(name) = "("
    <2>1. Past(short, c, name) /\ Sane(name)
      BY <1>3, AcceptMoves, Transitive DEF Takes
    <2>2. Past(short, c, Accept(name)) /\ Sane(Accept(name))
      BY <1>3, <2>1, AcceptMoves, Transitive DEF Takes
    <2>3. From(short, Accept(name), args.context) /\ Sane(args.context)
      BY <2>2, CallBehind DEF Functions
    <2>4. From(short, args.context, Require(args.context, ")", "aborted"))
      BY <2>3, RequireStays DEF Takes, Outcomes
    <2>5. Past(short, c, Require(args.context, ")", "aborted"))
      BY <2>2, <2>3, <2>4, Transitive
    <2>6. r.context = Require(args.context, ")", "aborted")
      BY <1>3 DEF FunctionCall, Made
    <2> QED BY <2>5, <2>6, Transitive DEF Returns
  <1> QED BY <1>1, <1>2, <1>3

LEMMA MemberAccessReturns ==
  ASSUME tokens \in Inputs, NEW call, NEW n \in Nat, Sound(call, n), NEW short, NEW c, Sane(c), Enough(n, short, "member_access", c)
  PROVE  Returns(short, "member_access", c, MemberAccess(call, c))
  <1> DEFINE name   == Accept(c)
             called == call["function_call"][Accept(name)]
             member == IF IsNull(called) THEN call["member_access"][called.context] ELSE called
             r      == MemberAccess(call, c)
  <1>1. CASE Peek(c) # "IDENTIFIER"
    BY <1>1, Stays DEF MemberAccess, Null, Made, IsNull, Returns
  <1>2. CASE Peek(c) = "IDENTIFIER" /\ Peek(name) # "."
    BY <1>2, AcceptMoves DEF MemberAccess, Null, Made, IsNull, Returns, Takes
  <1>3. CASE Peek(c) = "IDENTIFIER" /\ Peek(name) = "."
    <2>1. Past(short, c, name) /\ Sane(name)
      BY <1>3, AcceptMoves, Transitive DEF Takes
    <2>2. Past(short, c, Accept(name)) /\ Sane(Accept(name))
      BY <1>3, <2>1, AcceptMoves, Transitive DEF Takes
    <2>3. Past(short, c, called.context)
      BY <2>2, CallBehind DEF Functions
    <2>4. Past(short, c, call["member_access"][called.context].context)
      <3> HIDE DEF called
      <3> QED BY <2>3, CallBehind DEF Functions
    <2>5. Past(short, c, member.context)
      BY <2>3, <2>4
    <2>6. r.context = member.context
      BY <1>3 DEF MemberAccess, Made
    <2> QED BY <2>5, <2>6, Transitive DEF Returns
  <1> QED BY <1>1, <1>2, <1>3

LEMMA RangeReturns ==
  ASSUME NEW short, tokens \in Inputs, NEW c, Sane(c)
  PROVE  Returns(short, "range", c, RangeExpr(c))
  <1> DEFINE begin == Accept(c)
             end   == Accept(begin)
             r     == RangeExpr(c)
  <1> USE DEF Bounds
  <1>1. CASE Peek(c) \notin Bounds
    BY <1>1, Stays DEF RangeExpr, Null, Made, IsNull, Returns
  <1>2. CASE Peek(c) \in Bounds /\ Peek(begin) # ".."
    BY <1>2, AcceptMoves DEF RangeExpr, Null, Made, IsNull, Returns, Takes
  <1>3. CASE Peek(c) \in Bounds /\ Peek(begin) = ".."
    <2>1. Past(short, c, begin) /\ Sane(begin)
      BY <1>3, AcceptMoves, Transitive DEF Takes
    <2>2. Past(short, c, end) /\ Sane(end)
      BY <1>3, <2>1, AcceptMoves, Transitive DEF Takes
    <2>3. CASE Peek(end) \notin Bounds
      <3>1. Past(short, c, Fail(end, "aborted"))
        BY <2>2, FailStays, Transitive DEF Outcomes
      <3>2. r.context = Fail(end, "aborted")
        BY <1>3, <2>3 DEF RangeExpr, Null, Made
      <3> QED BY <3>1, <3>2, Transitive DEF Returns
    <2>4. CASE Peek(end) \in Bounds
      <3>1. Past(short, c, Accept(end))
        BY <2>2, <2>4, AcceptMoves, Transitive DEF Takes
      <3>2. r.context = Accept(end)
        BY <1>3, <2>4 DEF RangeExpr, Made
      <3> QED BY <3>1, <3>2, Transitive DEF Returns
    <2> QED BY <2>3, <2>4
  <1> QED BY <1>1, <1>2, <1>3

LEMMA TupleReturns ==
  ASSUME tokens \in Inputs, NEW call, NEW n \in Nat, Sound(call, n), NEW short, NEW c, Sane(c), Enough(n, short, "tuple", c)
  PROVE  Returns(short, "tuple", c, Tuple(call, c))
  <1> DEFINE list   == call["expression_list"][Accept(c)]
             opened == IF list.tree = <<>> THEN Fail(list.context, "aborted") ELSE list.context
             closed == Require(opened, ")", "rejected")
             r      == Tuple(call, c)
  <1>1. CASE Peek(c) # "("
    BY <1>1, Stays DEF Tuple, Null, Made, IsNull, Returns
  <1>2. CASE Peek(c) = "("
    <2>1. Past(short, c, Accept(c)) /\ Sane(Accept(c))
      BY <1>2, AcceptMoves, Transitive DEF Takes
    <2>2. Past(short, c, list.context) /\ Sane(list.context)
      BY <2>1, CallBehind DEF Functions
    <2>3. Past(short, c, opened) /\ Sane(opened)
      <3>1. From(short, list.context, opened)
        BY <2>2, FailStays, Stays DEF Outcomes
      <3> HIDE DEF opened, list
      <3> QED BY <2>2, <3>1, Transitive
    <2>4. From(short, opened, closed)
      <3> HIDE DEF opened
      <3> QED BY <2>3, RequireStays DEF Takes, Outcomes
    <2>5. Past(short, c, closed)
      <3> HIDE DEF opened, closed
      <3> QED BY <2>3, <2>4, Transitive
    <2>6. r.context = closed
      BY <1>2 DEF Tuple, Made
    <2> QED BY <2>5, <2>6, Transitive DEF Returns
  <1> QED BY <1>1, <1>2

(* The next alternative, where the one before found nothing.                 *)
LEMMA OrElse ==
  ASSUME tokens \in Inputs, NEW call, NEW n \in Nat, Sound(call, n), NEW short, NEW f \in Functions, NEW c, Sane(c),
         Enough(n, short, f, c), NEW g, NEW r, Tried(short, c, r),
         Below(g, f) \/ (g \in Functions \ ({"statement_block"} \cup Lists) /\ Past(short, c, r.context))
  PROVE  LET e == IF IsNull(r) THEN call[g][r.context] ELSE r
         IN  Tried(short, c, e) /\ Sane(e.context)
  <1>1. Sane(r.context) /\ From(short, c, r.context)
    BY Transitive DEF Tried
  <1>2. CASE IsNull(r)
    <2> DEFINE e == call[g][r.context]
    <2>1. Tried(short, r.context, e)
      BY <1>1, CallBelow, CallBehind
    <2>2. Tried(short, c, e) /\ Sane(e.context)
      <3> HIDE DEF e
      <3> QED BY <1>1, <2>1, Transitive DEF Tried
    <2> QED BY <1>2, <2>2
  <1>3. CASE ~ IsNull(r)
    BY <1>1, <1>3
  <1> QED BY <1>2, <1>3

LEMMA PrimaryReturns ==
  ASSUME tokens \in Inputs, NEW call, NEW n \in Nat, Sound(call, n), NEW short, NEW c, Sane(c), Enough(n, short, "primary", c)
  PROVE  Returns(short, "primary", c, Primary(call, c))
  <1> DEFINE called == call["function_call"][c]
             member == call["member_access"][called.context]
             range  == call["range"][member.context]
             tuple  == call["tuple"][range.context]
             r      == Primary(call, c)
  <1>0. From(short, c, c)
    BY Stays
  <1>1. Tried(short, c, called) /\ Sane(called.context)
    BY <1>0, CallBelow, BelowIs
  <1>2. Tried(short, called.context, member) /\ Sane(member.context) /\ From(short, c, member.context)
    <2>1. From(short, c, called.context)
      BY <1>1 DEF Tried
    <2> HIDE DEF called
    <2> QED BY <2>1, CallBelow, BelowIs
  <1>3. Tried(short, member.context, range) /\ Sane(range.context) /\ From(short, c, range.context)
    <2> HIDE DEF member
    <2> QED BY <1>2, CallBelow, BelowIs
  <1>4. Tried(short, range.context, tuple)
    <2> HIDE DEF range
    <2> QED BY <1>3, CallBelow, BelowIs
  <1>5. Peek(range.context) \in Literals => Past(short, range.context, Accept(range.context))
    BY <1>3, AcceptMoves DEF Literals, Takes
  <1>6. \/ r \in {called, member, range, tuple}
        \/ Peek(range.context) \in Literals /\ r.context = Accept(range.context)
    BY DEF Primary, Made
  <1> HIDE DEF called, member, range, tuple, r
  <1>7. Tried(short, c, r)
    BY <1>1, <1>2, <1>3, <1>4, <1>5, <1>6, Transitive DEF Tried
  <1> QED BY <1>7 DEF r, Tried, Returns

LEMMA UnaryReturns ==
  ASSUME tokens \in Inputs, NEW call, NEW n \in Nat, Sound(call, n), NEW short, NEW c, Sane(c), Enough(n, short, "unary", c)
  PROVE  Returns(short, "unary", c, Unary(call, c))
  <1> DEFINE operand == call["unary"][Accept(c)]
             primary == call["primary"][c]
             r       == Unary(call, c)
  <1>1. CASE Peek(c) \in {"!", "-"}
    <2>1. Past(short, c, Accept(c)) /\ Sane(Accept(c))
      BY <1>1, AcceptMoves, Transitive DEF Takes
    <2>2. Past(short, c, operand.context) /\ Sane(operand.context)
      <3> DEFINE d == Accept(c)
      <3>1. Past(short, c, d) /\ "unary" \in Functions \ {"statement_block"}
        BY <2>1 DEF Functions
      <3> HIDE DEF d
      <3>2. Past(short, c, call["unary"][d].context) /\ Sane(call["unary"][d].context)
        BY <3>1, CallBehind
      <3> QED BY <3>2 DEF d
    <2>3. Past(short, c, Fail(operand.context, "undefined"))
      <3>1. From(short, operand.context, Fail(operand.context, "undefined"))
        BY <2>2, FailStays DEF Outcomes
      <3> HIDE DEF operand
      <3> QED BY <2>2, <3>1, Transitive
    <2>4. r.context \in {operand.context, Fail(operand.context, "undefined")}
      BY <1>1 DEF Unary, Null, Made
    <2> HIDE DEF r
    <2>5. Past(short, c, r.context) /\ From(short, c, r.context)
      BY <2>2, <2>3, <2>4, Transitive
    <2> QED BY <2>5 DEF r, Returns
  <1>2. CASE Peek(c) \notin {"!", "-"}
    <2>1. Tried(short, c, primary) /\ Sane(primary.context)
      <3>1. From(short, c, c)
        BY Stays
      <3> QED BY <3>1, CallBelow, BelowIs
    <2>2. From(short, c, Fail(primary.context, "rejected"))
      BY <2>1, FailStays, Transitive DEF Outcomes, Tried
    <2>3. r = primary \/ r = Null(Fail(primary.context, "rejected"))
      BY <1>2 DEF Unary
    <2> HIDE DEF r, primary
    <2>4. Tried(short, c, r)
      BY <2>1, <2>2, <2>3 DEF Tried, Null, Made, IsNull
    <2> QED BY <2>4 DEF r, Tried, Returns
  <1> QED BY <1>1, <1>2

(* Without a brace the token given back is the last taken.                   *)
LEMMA StatementBlockReturns ==
  ASSUME tokens \in Inputs, NEW call, NEW n \in Nat, Sound(call, n), NEW short, NEW c, Sane(c), Enough(n, short, "statement_block", c), c.last > 0
  PROVE  Returns(short, "statement_block", c, StatementBlock(call, c))
  <1> DEFINE brace == IF Peek(c) = "EOL" THEN Accept(c) ELSE c
             list  == call["statement_list"][SkipLines(Accept(brace))]
             r     == StatementBlock(call, c)
  <1>1. From(short, c, brace) /\ Sane(brace)
    BY AcceptMoves, Stays, Transitive DEF Takes
  <1>2. brace.last > 0
    BY <1>1 DEF From, Sane, Contexts
  <1>3. CASE Peek(brace) # "{"
    <2>1. r = Null(Backup(brace))
      BY <1>3 DEF StatementBlock
    <2> HIDE DEF brace, r
    <2>2. Back(short, c, Backup(brace))
      BY <1>1, <1>2, BackupGoesBack, Transitive
    <2>3. Returns(short, "statement_block", c, r)
      BY <2>1, <2>2 DEF Returns, Null, Made, IsNull
    <2> QED BY <2>3 DEF r
  <1>4. CASE Peek(brace) = "{"
    <2> DEFINE end == Require(list.context, "}", "rejected")
    <2>1. r.context = end
      BY <1>4 DEF StatementBlock, Made
    <2> HIDE DEF brace, r
    <2>2. Past(short, brace, Accept(brace)) /\ Sane(Accept(brace))
      BY <1>1, <1>4, AcceptMoves, Transitive DEF Takes
    <2>3. From(short, Accept(brace), SkipLines(Accept(brace))) /\ Sane(SkipLines(Accept(brace)))
      BY <2>2, SkipLinesStays, Transitive
    <2>4. From(short, SkipLines(Accept(brace)), list.context) /\ Sane(list.context)
      <3>1. Past(short, c, SkipLines(Accept(brace)))
        BY <1>1, <2>2, <2>3, Transitive
      <3> QED BY <3>1, CallBehind DEF Functions
    <2>5. From(short, list.context, end)
      BY <2>4, RequireStays DEF Takes, Outcomes
    <2> HIDE DEF end, list
    <2>6. Past(short, c, end) /\ Back(short, c, end)
      BY <1>1, <2>2, <2>3, <2>4, <2>5, Transitive
    <2> QED BY <2>1, <2>6 DEF r, Returns
  <1> QED BY <1>3, <1>4

LEMMA FunctionReturns ==
  ASSUME tokens \in Inputs, NEW call, NEW n \in Nat, Sound(call, n), NEW short, NEW f \in Functions, NEW b, Sane(b),
         Enough(n, short, f, b), NEW c, Sane(c), Past(short, b, c), NEW name
  PROVE  LET r == Function(call, c, name)
         IN  Back(short, c, r.context) /\ (~ IsNull(r) => Past(short, c, r.context))
  <1> DEFINE args == call["expression_list"][Accept(c)]
             end  == Require(args.context, ")", "aborted")
             head == IF Peek(c) = "(" THEN Made(end, args.tree) ELSE Made(c, <<>>)
             body == call["statement_block"][head.context]
             r    == Function(call, c, name)
  <1>1. From(short, c, head.context) /\ Sane(head.context)
    <2>1. CASE Peek(c) = "("
      <3>1. Past(short, c, Accept(c)) /\ From(short, c, Accept(c))
        BY <2>1, AcceptMoves, Transitive DEF Takes
      <3>2. From(short, Accept(c), args.context) /\ Sane(args.context)
        <4> DEFINE d == Accept(c)
        <4>1. Past(short, b, d)
          BY <3>1, Transitive
        <4>2. "expression_list" \in Functions \ {"statement_block"}
          BY DEF Functions
        <4> HIDE DEF d
        <4>3. From(short, d, call["expression_list"][d].context) /\ Sane(call["expression_list"][d].context)
          BY <4>1, <4>2, CallBehind
        <4> QED BY <4>3 DEF d
      <3>3. From(short, args.context, end)
        BY <3>2, RequireStays DEF Takes, Outcomes
      <3>4. From(short, c, end) /\ Sane(end)
        <4> HIDE DEF args, end
        <4> QED BY <3>1, <3>2, <3>3, Transitive
      <3> HIDE DEF end
      <3> QED BY <2>1, <3>4 DEF Made
    <2>2. CASE Peek(c) # "("
      BY <2>2, Stays DEF Made
    <2> QED BY <2>1, <2>2
  <1>2. r = Null(Fail(body.context, "aborted")) \/ (~ IsNull(body) /\ r.context = body.context)
    BY DEF Function, Made
  <1> HIDE DEF head, r
  <1>3. Past(short, b, head.context)
    BY <1>1, Transitive
  <1>4. Back(short, head.context, body.context) /\ (~ IsNull(body) => Past(short, head.context, body.context))
    BY <1>3, BlockBehind
  <1> HIDE DEF body
  <1>5. Back(short, c, body.context) /\ (~ IsNull(body) => Past(short, c, body.context)) /\ Sane(body.context)
    BY <1>1, <1>4, Transitive DEF Back
  <1>6. Back(short, c, Fail(body.context, "aborted"))
    <2>1. From(short, body.context, Fail(body.context, "aborted"))
      BY <1>5, FailStays DEF Outcomes
    <2> QED BY <1>5, <2>1 DEF From, Back, Fits, Sane, Contexts
  <1>7. CASE r = Null(Fail(body.context, "aborted"))
    <2>1. Back(short, c, r.context) /\ IsNull(r)
      BY <1>6, <1>7 DEF Null, Made, IsNull
    <2> QED BY <2>1 DEF r
  <1>8. CASE ~ IsNull(body) /\ r.context = body.context
    BY <1>5, <1>8 DEF r
  <1> QED BY <1>2, <1>7, <1>8

LEMMA AnonymousDeclReturns ==
  ASSUME tokens \in Inputs, NEW call, NEW n \in Nat, Sound(call, n), NEW short, NEW c, Sane(c), Enough(n, short, "anonymous_decl", c)
  PROVE  Returns(short, "anonymous_decl", c, AnonymousDecl(call, c))
  <1> DEFINE fn == Accept(c)
             r  == Function(call, fn, Anonymous)
  <1>1. CASE Peek(c) # "fn"
    BY <1>1, Stays DEF AnonymousDecl, Null, Made, IsNull, Returns
  <1>2. CASE Peek(c) = "fn" /\ Peek(fn) \notin {"{", "("}
    BY <1>2, AcceptMoves DEF AnonymousDecl, Null, Made, IsNull, Returns, Takes
  <1>3. CASE Peek(c) = "fn" /\ Peek(fn) \in {"{", "("}
    <2>1. Past(short, c, fn) /\ Sane(fn) /\ fn.last > 0
      BY <1>3, AcceptMoves, Transitive DEF Takes
    <2>2. Back(short, fn, r.context) /\ (~ IsNull(r) => Past(short, fn, r.context))
      BY <2>1, FunctionReturns DEF Functions
    <2>3. AnonymousDecl(call, c) = r
      BY <1>3 DEF AnonymousDecl
    <2> HIDE DEF fn, r
    <2>4. From(short, c, r.context) /\ (~ IsNull(r) => Past(short, c, r.context))
      BY <2>1, <2>2, Transitive
    <2> QED BY <2>3, <2>4 DEF Returns
  <1> QED BY <1>1, <1>2, <1>3

LEMMA NamedFunctionReturns ==
  ASSUME tokens \in Inputs, NEW call, NEW n \in Nat, Sound(call, n), NEW short, NEW c, Sane(c),
         Enough(n, short, "function_decl", c)
  PROVE  Tried(short, c, NamedFunction(call, c))
  <1> DEFINE fn   == Accept(c)
             name == Accept(fn)
             r    == Function(call, name, Value(fn))
  <1>1. CASE Peek(c) # "fn"
    BY <1>1, Stays DEF NamedFunction, Null, Made, IsNull, Tried
  <1>2. CASE Peek(c) = "fn" /\ Peek(fn) # "IDENTIFIER"
    BY <1>2, AcceptMoves DEF NamedFunction, Null, Made, IsNull, Tried, Takes
  <1>3. CASE Peek(c) = "fn" /\ Peek(fn) = "IDENTIFIER"
    <2>1. Past(short, c, fn) /\ Sane(fn)
      BY <1>3, AcceptMoves, Transitive DEF Takes
    <2>2. Past(short, c, name) /\ Sane(name) /\ name.last > 0
      BY <1>3, <2>1, AcceptMoves, Transitive DEF Takes
    <2>3. Back(short, name, r.context) /\ (~ IsNull(r) => Past(short, name, r.context))
      BY <2>2, FunctionReturns DEF Functions
    <2>4. NamedFunction(call, c) = r
      BY <1>3 DEF NamedFunction
    <2> HIDE DEF name, r
    <2>5. From(short, c, r.context) /\ (~ IsNull(r) => Past(short, c, r.context))
      BY <2>2, <2>3, Transitive
    <2> QED BY <2>4, <2>5 DEF Tried
  <1> QED BY <1>1, <1>2, <1>3

LEMMA FunctionDeclReturns ==
  ASSUME tokens \in Inputs, NEW call, NEW n \in Nat, Sound(call, n), NEW short, NEW c, Sane(c), Enough(n, short, "function_decl", c)
  PROVE  Returns(short, "function_decl", c, FunctionDecl(call, c))
  <1> DEFINE slash  == Accept(c)
             closed == Require(Accept(slash), "/", "aborted")
             line   == IF Peek(closed) = "EOL" THEN Accept(closed) ELSE closed
             fn     == NamedFunction(call, line)
             r      == FunctionDecl(call, c)
  <1>1. CASE Peek(c) # "/"
    BY <1>1, NamedFunctionReturns DEF FunctionDecl, Tried, Returns
  <1>2. CASE Peek(c) = "/" /\ Peek(slash) # "exported"
    BY <1>2, AcceptMoves DEF FunctionDecl, Null, Made, IsNull, Returns, Takes
  <1>3. CASE Peek(c) = "/" /\ Peek(slash) = "exported"
    <2>1. Past(short, c, slash) /\ Sane(slash)
      BY <1>3, AcceptMoves, Transitive DEF Takes
    <2>2. Past(short, c, Accept(slash)) /\ Sane(Accept(slash))
      BY <1>3, <2>1, AcceptMoves, Transitive DEF Takes
    <2>3. From(short, Accept(slash), closed) /\ Sane(closed)
      BY <2>2, RequireStays, Transitive DEF Takes, Outcomes
    <2>4. From(short, closed, line) /\ Sane(line)
      BY <2>3, AcceptMoves, Stays, Transitive DEF Takes
    <2>5. Tried(short, line, fn)
      <3>1. Past(short, c, line)
        <4> HIDE DEF closed, line
        <4> QED BY <2>2, <2>3, <2>4, Transitive
      <3>2. Enough(n, short, "function_decl", line)
        <4> HIDE DEF line
        <4> QED BY <3>1, EnoughOn, Transitive DEF Functions
      <3> QED BY <2>4, <3>2, NamedFunctionReturns
    <2>6. r = fn \/ r.context = fn.context
      BY <1>3 DEF FunctionDecl, Made
    <2> HIDE DEF closed, line, fn, r
    <2>7. Past(short, c, fn.context)
      BY <2>2, <2>3, <2>4, <2>5, Transitive DEF Tried
    <2>8. r.context = fn.context
      BY <2>6
    <2> QED BY <2>7, <2>8, Transitive DEF r, Returns
  <1> QED BY <1>1, <1>2, <1>3

LEMMA AssignmentReturns ==
  ASSUME tokens \in Inputs, NEW call, NEW n \in Nat, Sound(call, n), NEW short, NEW c, Sane(c), Enough(n, short, "assignment", c)
  PROVE  Returns(short, "assignment", c, Assignment(call, c))
  <1> DEFINE name  == Accept(c)
             value == call["expression"][Accept(name)]
             r     == Assignment(call, c)
  <1>1. CASE Peek(c) # "IDENTIFIER"
    <2>1. From(short, c, c)
      BY Stays
    <2>2. Tried(short, c, call["conjunction"][c])
      BY <2>1, CallBelow, BelowIs
    <2> QED BY <1>1, <2>2 DEF Assignment, Tried, Returns
  <1>2. CASE Peek(c) = "IDENTIFIER" /\ Peek(name) # "="
    <2> DEFINE b == Backup(name)
               e == call["conjunction"][b]
    <2>1. From(short, c, b) /\ Sane(b)
      BY <1>2, AcceptMoves, Transitive DEF Takes
    <2>2. Tried(short, b, e)
      BY <2>1, CallBelow, BelowIs
    <2>3. r = e
      BY <1>2 DEF Assignment
    <2> HIDE DEF b, e, r
    <2>4. Tried(short, c, r)
      BY <2>1, <2>2, <2>3, Transitive DEF Tried
    <2> QED BY <2>4 DEF r, Tried, Returns
  <1>3. CASE Peek(c) = "IDENTIFIER" /\ Peek(name) = "="
    <2>1. Past(short, c, name) /\ Sane(name)
      BY <1>3, AcceptMoves, Transitive DEF Takes
    <2>2. Past(short, c, Accept(name)) /\ Sane(Accept(name))
      BY <1>3, <2>1, AcceptMoves, Transitive DEF Takes
    <2>3. Past(short, c, value.context)
      BY <2>2, CallBehind DEF Functions
    <2>4. r.context = value.context
      BY <1>3 DEF Assignment, Made
    <2> QED BY <2>3, <2>4, Transitive DEF Returns
  <1> QED BY <1>1, <1>2, <1>3

LEMMA ExpressionReturns ==
  ASSUME tokens \in Inputs, NEW call, NEW n \in Nat, Sound(call, n), NEW short, NEW c, Sane(c), Enough(n, short, "expression", c)
  PROVE  Returns(short, "expression", c, Expression(call, c))
  <1> DEFINE value == call["assignment"][c]
             r     == Expression(call, c)
  <1>1. Tried(short, c, value)
    <2>1. From(short, c, c)
      BY Stays
    <2> QED BY <2>1, CallBelow, BelowIs
  <1>2. r = IF IsNull(value) THEN call["anonymous_decl"][value.context] ELSE value
    BY DEF Expression
  <1> HIDE DEF value, r
  <1>3. Tried(short, c, r)
    BY <1>1, <1>2, OrElse, BelowIs DEF Functions
  <1> QED BY <1>3 DEF r, Tried, Returns

LEMMA VariableDeclReturns ==
  ASSUME tokens \in Inputs, NEW call, NEW n \in Nat, Sound(call, n), NEW short, NEW c, Sane(c), Enough(n, short, "variable_decl", c)
  PROVE  Returns(short, "variable_decl", c, VariableDecl(call, c))
  <1> DEFINE keyword == Accept(c)
             name    == Require(keyword, "IDENTIFIER", "rejected")
             value   == call["expression"][Accept(name)]
             r       == VariableDecl(call, c)
  <1>1. CASE Peek(c) \notin {"var", "let"}
    BY <1>1, Stays DEF VariableDecl, Null, Made, IsNull, Returns
  <1>2. CASE Peek(c) \in {"var", "let"}
    <2>1. Past(short, c, keyword) /\ Sane(keyword)
      BY <1>2, AcceptMoves, Transitive DEF Takes
    <2>2. From(short, keyword, name) /\ Sane(name)
      BY <2>1, RequireStays, Transitive DEF Takes, Outcomes
    <2>3. Past(short, c, name)
      <3> HIDE DEF keyword, name
      <3> QED BY <2>1, <2>2, Transitive
    <2>4. CASE r.context = name
      BY <2>3, <2>4, Transitive DEF Returns
    <2>5. CASE Peek(name) = "=" /\ r.context = value.context
      <3>1. Past(short, c, Accept(name))
        <4> HIDE DEF name
        <4> QED BY <2>2, <2>3, <2>5, AcceptMoves, Transitive DEF Takes
      <3>2. Past(short, c, value.context)
        BY <3>1, CallBehind DEF Functions
      <3> HIDE DEF value, r
      <3>3. Past(short, c, r.context)
        BY <2>5, <3>2
      <3> QED BY <3>3, Transitive DEF r, Returns
    <2>6. r.context = name \/ (Peek(name) = "=" /\ r.context = value.context)
      BY <1>2 DEF VariableDecl, Null, Made
    <2> QED BY <2>4, <2>5, <2>6
  <1> QED BY <1>1, <1>2

LEMMA IfStatementReturns ==
  ASSUME tokens \in Inputs, NEW call, NEW n \in Nat, Sound(call, n), NEW short, NEW c, Sane(c), Enough(n, short, "if_statement", c)
  PROVE  Returns(short, "if_statement", c, IfStatement(call, c))
  <1> DEFINE condition == call["expression"][Accept(c)]
             block == call["statement_block"][condition.context]
             body  == IF IsNull(block) THEN call["statement"][block.context] ELSE block
             r     == IfStatement(call, c)
  <1>1. CASE Peek(c) # "if"
    BY <1>1, Stays DEF IfStatement, Null, Made, IsNull, Returns
  <1>2. CASE Peek(c) = "if"
    <2>1. Past(short, c, Accept(c)) /\ Sane(Accept(c))
      BY <1>2, AcceptMoves, Transitive DEF Takes
    <2>2. Past(short, c, condition.context) /\ Sane(condition.context) /\ Tried(short, Accept(c), condition)
      <3>1. Past(short, c, condition.context) /\ Tried(short, Accept(c), condition)
        <4> DEFINE d == Accept(c)
        <4>1. "expression" \in Functions \ {"statement_block"} /\ "expression" \notin Lists /\ "if_statement" \in Functions
          BY DEF Functions, Lists
        <4>2. Past(short, c, d)
          BY <2>1
        <4> HIDE DEF d
        <4>3. Past(short, c, call["expression"][d].context) /\ Tried(short, d, call["expression"][d])
          BY <4>1, <4>2, CallBehind
        <4> QED BY <4>3 DEF d
      <3> HIDE DEF condition
      <3> QED BY <2>1, <3>1, Transitive
    <2>3. Back(short, condition.context, block.context) /\ (~ IsNull(block) => Past(short, condition.context, block.context))
      BY <2>2, BlockBehind DEF Functions
    <2>4. Tried(short, c, block)
      <3> HIDE DEF condition, block
      <3> QED BY <2>2, <2>3, Transitive DEF Tried
    <2>5. ~ IsNull(condition) => Tried(short, c, body)
      <3> HIDE DEF condition, block
      <3>1. SUFFICES ASSUME ~ IsNull(condition) PROVE Tried(short, c, body)
        OBVIOUS
      <3>2. Past(short, c, block.context)
        BY <2>1, <2>2, <2>3, <3>1, Transitive DEF Tried
      <3> QED BY <2>4, <3>2, OrElse DEF Functions, Lists
    <2>6. \/ r = Null(Fail(condition.context, "rejected"))
          \/ ~ IsNull(condition) /\ r = Null(Fail(body.context, "rejected"))
          \/ ~ IsNull(condition) /\ ~ IsNull(body) /\ r.context = body.context
      BY <1>2 DEF IfStatement, Made
    <2> HIDE DEF condition, body, r
    <2>7. /\ From(short, c, Fail(condition.context, "rejected"))
          /\ ~ IsNull(condition) => From(short, c, Fail(body.context, "rejected"))
      BY <2>2, <2>5, FailGoesOn, Transitive DEF Tried, Outcomes
    <2>8. Tried(short, c, r)
      BY <2>5, <2>6, <2>7 DEF Tried, Null, Made, IsNull
    <2> QED BY <2>8 DEF r, Tried, Returns
  <1> QED BY <1>1, <1>2

LEMMA ForStatementReturns ==
  ASSUME tokens \in Inputs, NEW call, NEW n \in Nat, Sound(call, n), NEW short, NEW c, Sane(c), Enough(n, short, "for_statement", c)
  PROVE  Returns(short, "for_statement", c, ForStatement(call, c))
  <1> DEFINE for   == Accept(c)
             name  == Accept(for)
             local == Peek(for) = "IDENTIFIER" /\ Peek(name) = "in"
             over  == IF local THEN call["primary"][Accept(name)]
                      ELSE IF Peek(for) = "IDENTIFIER" THEN call["primary"][Backup(name)] ELSE Null(for)
             iterable == IF IsNull(over) /\ Peek(over.context) \in {"STRING", "(", "NUMBER"}
                           THEN call["primary"][over.context] ELSE over
             body  == call["statement_block"][iterable.context]
             r     == ForStatement(call, c)
  <1>1. CASE Peek(c) # "for"
    BY <1>1, Stays DEF ForStatement, Null, Made, IsNull, Returns
  <1>2. CASE Peek(c) = "for"
    <2>1. Past(short, c, for) /\ Sane(for)
      BY <1>2, AcceptMoves, Transitive DEF Takes
    <2>2. Past(short, c, over.context) /\ Sane(over.context)
      <3>1. CASE local
        <4>1. Past(short, c, name) /\ Sane(name)
          BY <2>1, <3>1, AcceptMoves, Transitive DEF Takes
        <4>2. Past(short, c, Accept(name))
          BY <3>1, <4>1, AcceptMoves, Transitive DEF Takes
        <4> QED BY <3>1, <4>2, CallBehind DEF Functions
      <3>2. CASE ~ local /\ Peek(for) = "IDENTIFIER"
        <4>1. From(short, for, Backup(name))
          BY <2>1, <3>2, AcceptMoves DEF Takes
        <4>2. Past(short, c, Backup(name))
          <5> HIDE DEF for, name
          <5> QED BY <2>1, <4>1, Transitive
        <4> QED BY <3>2, <4>2, CallBehind DEF Functions
      <3>3. CASE Peek(for) # "IDENTIFIER"
        BY <2>1, <3>3, Stays DEF Null, Made
      <3> QED BY <3>1, <3>2, <3>3
    <2> HIDE DEF over
    <2>3. Past(short, c, iterable.context) /\ Sane(iterable.context)
      <3>1. "primary" \in Functions \ {"statement_block"} /\ "for_statement" \in Functions
        BY DEF Functions
      <3>2. Past(short, c, call["primary"][over.context].context) /\ Sane(call["primary"][over.context].context)
        BY <2>2, <3>1, CallBehind
      <3> QED BY <2>2, <3>2
    <2>4. \/ r = Null(Fail(iterable.context, "rejected"))
          \/ r = Null(Fail(body.context, "rejected"))
          \/ ~ IsNull(body) /\ r.context = body.context
      BY <1>2 DEF ForStatement, Made, over
    <2> HIDE DEF iterable, r
    <2>5. Back(short, iterable.context, body.context) /\ (~ IsNull(body) => Past(short, iterable.context, body.context))
      BY <2>3, BlockBehind DEF Functions
    <2> HIDE DEF body
    <2>6. Tried(short, c, body) /\ Sane(body.context)
      BY <2>3, <2>5, Transitive DEF Tried
    <2>7. From(short, c, Fail(iterable.context, "rejected")) /\ From(short, c, Fail(body.context, "rejected"))
      BY <2>3, <2>6, FailGoesOn, Transitive DEF Tried, Outcomes
    <2>8. Tried(short, c, r)
      BY <2>4, <2>6, <2>7 DEF Tried, Null, Made, IsNull
    <2> QED BY <2>8 DEF r, Tried, Returns
  <1> QED BY <1>1, <1>2

LEMMA ImportStatementReturns ==
  ASSUME NEW short, tokens \in Inputs, NEW c, Sane(c)
  PROVE  Returns(short, "import_statement", c, ImportStatement(c))
  <1> DEFINE import == Accept(c)
             r      == ImportStatement(c)
  <1>1. CASE Peek(c) # "import"
    BY <1>1, Stays DEF ImportStatement, Null, Made, IsNull, Returns
  <1>2. CASE Peek(c) = "import"
    <2>1. Past(short, c, import) /\ Sane(import)
      BY <1>2, AcceptMoves, Transitive DEF Takes
    <2>2. CASE Peek(import) # "STRING"
      <3>1. Past(short, c, Fail(import, "rejected"))
        BY <2>1, FailStays, Transitive DEF Outcomes
      <3>2. r.context = Fail(import, "rejected")
        BY <1>2, <2>2 DEF ImportStatement, Null, Made
      <3> QED BY <3>1, <3>2, Transitive DEF Returns
    <2>3. CASE Peek(import) = "STRING"
      <3>1. Past(short, c, Accept(import))
        BY <2>1, <2>3, AcceptMoves, Transitive DEF Takes
      <3>2. r.context = Accept(import)
        BY <1>2, <2>3 DEF ImportStatement, Made
      <3> QED BY <3>1, <3>2, Transitive DEF Returns
    <2> QED BY <2>2, <2>3
  <1> QED BY <1>1, <1>2

LEMMA AlternativesReturn ==
  ASSUME tokens \in Inputs, NEW call, NEW n \in Nat, Sound(call, n), NEW short, NEW c, Sane(c),
         Enough(n, short, "statement", c), NEW declared, Tried(short, c, declared)
  PROVE  Tried(short, c, Alternatives(call, declared))
  <1> DEFINE expr  == IF IsNull(declared) THEN call["expression"][declared.context] ELSE declared
             named == IF IsNull(expr) THEN call["function_decl"][expr.context] ELSE expr
             fn    == IF IsNull(named) THEN call["anonymous_decl"][named.context] ELSE named
             if    == IF IsNull(fn) THEN call["if_statement"][fn.context] ELSE fn
             for   == IF IsNull(if) THEN call["for_statement"][if.context] ELSE if
             last  == IF IsNull(for) THEN call["import_statement"][for.context] ELSE for
  <1>1. Alternatives(call, declared) = last
    BY DEF Alternatives
  <1>2. Tried(short, c, expr)
    BY OrElse, BelowIs DEF Functions
  <1> HIDE DEF expr
  <1>3. Tried(short, c, named)
    BY <1>2, OrElse, BelowIs DEF Functions
  <1> HIDE DEF named
  <1>4. Tried(short, c, fn)
    BY <1>3, OrElse, BelowIs DEF Functions
  <1> HIDE DEF fn
  <1>5. Tried(short, c, if)
    BY <1>4, OrElse, BelowIs DEF Functions
  <1> HIDE DEF if
  <1>6. Tried(short, c, for)
    BY <1>5, OrElse, BelowIs DEF Functions
  <1> HIDE DEF for
  <1>7. Tried(short, c, last)
    BY <1>6, OrElse, BelowIs DEF Functions
  <1> HIDE DEF last
  <1> QED BY <1>1, <1>7

LEMMA StatementReturns ==
  ASSUME tokens \in Inputs, NEW call, NEW n \in Nat, Sound(call, n), NEW short, NEW c, Sane(c), Enough(n, short, "statement", c)
  PROVE  Returns(short, "statement", c, Statement(call, c))
  <1> DEFINE declared == call["variable_decl"][c]
             returned == call["statement"][Accept(declared.context)]
             left     == Alternatives(call, declared)
             again    == call["statement"][Accept(left.context)]
             r        == Statement(call, c)
  <1>1. Tried(short, c, declared) /\ Sane(declared.context)
    <2>1. From(short, c, c)
      BY Stays
    <2> QED BY <2>1, CallBelow, BelowIs
  <1>2. CASE Peek(declared.context) = "return"
    <2>1. Past(short, c, Accept(declared.context))
      <3> HIDE DEF declared
      <3> QED BY <1>1, <1>2, AcceptMoves, Transitive DEF Takes, Tried
    <2>2. Past(short, c, returned.context)
      BY <2>1, CallBehind DEF Functions
    <2>3. r.context = returned.context
      BY <1>2 DEF Statement, Made
    <2> HIDE DEF declared, returned, r
    <2>4. Past(short, c, r.context)
      BY <2>2, <2>3
    <2> QED BY <2>4, Transitive DEF r, Returns
  <1>3. CASE Peek(declared.context) # "return"
    <2>1. Tried(short, c, left)
      <3> HIDE DEF declared
      <3> QED BY <1>1, AlternativesReturn
    <2>2. Sane(left.context)
      <3> HIDE DEF left
      <3> QED BY <2>1, Transitive DEF Tried
    <2>3. CASE Peek(left.context) # "EOL"
      <3>1. r = left
        BY <1>3, <2>3 DEF Statement
      <3> HIDE DEF left
      <3> QED BY <2>1, <3>1 DEF Tried, Returns
    <2>4. CASE Peek(left.context) = "EOL"
      <3>1. Past(short, c, Accept(left.context))
        <4> HIDE DEF left
        <4> QED BY <2>1, <2>2, <2>4, AcceptMoves, Transitive DEF Takes, Tried
      <3>2. Past(short, c, again.context)
        BY <3>1, CallBehind DEF Functions
      <3>3. r = again \/ r.context = Accept(left.context)
        BY <1>3, <2>4 DEF Statement, Made
      <3> HIDE DEF left, again, r
      <3>4. Past(short, c, r.context)
        BY <3>1, <3>2, <3>3
      <3> QED BY <3>4, Transitive DEF r, Returns
    <2> QED BY <2>3, <2>4
  <1> QED BY <1>2, <1>3
-------------------------------------------------------------------------------
(* All functions, by the depth of the calls.                                 *)
LEMMA BodyReturns ==
  ASSUME tokens \in Inputs, NEW call, NEW n \in Nat, Sound(call, n), NEW short, NEW f \in Functions, NEW c, Ready(f, c),
         Enough(n, short, f, c)
  PROVE  Returns(short, f, c, Body(call, f, c))
  <1>1. Sane(c) /\ (f = "statement_block" => c.last > 0)
    BY DEF Ready
  <1>2. CASE f \in Levels
    <2>1. Body(call, f, c) = Level(call, f, c)
      BY <1>2, LevelsAre DEF Body, Levels
    <2> QED BY <1>1, <1>2, <2>1, LevelReturns
  <1>3. CASE f \notin Levels
    <2>1. f \notin DOMAIN Operators
      BY <1>3, LevelsAre
    <2>2. CASE f \in {"statement", "expression_list", "expression", "unary", "primary", "function_call", "member_access"}
      BY <1>1, <2>1, <2>2, StatementReturns, ExpressionListReturns, ExpressionReturns, UnaryReturns, PrimaryReturns,
         FunctionCallReturns, MemberAccessReturns DEF Body
    <2>3. CASE f \in {"statement_list", "statement_block", "tuple", "anonymous_decl", "function_decl"}
      BY <1>1, <2>1, <2>3, StatementListReturns, StatementBlockReturns, TupleReturns, AnonymousDeclReturns,
         FunctionDeclReturns DEF Body
    <2>4. CASE f \in {"assignment", "variable_decl", "if_statement", "for_statement", "import_statement", "range"}
      BY <1>1, <2>1, <2>4, AssignmentReturns, VariableDeclReturns, IfStatementReturns, ForStatementReturns,
         ImportStatementReturns, RangeReturns DEF Body
    <2> QED BY <1>3, <2>2, <2>3, <2>4 DEF Functions, Levels
  <1> QED BY <1>2, <1>3

LEMMA CallsAre ==
  /\ Calls[0] = [f \in Functions |-> [c \in Contexts |-> Null(Fail(c, "overflowed"))]]
  /\ \A n \in 1..Depth : Calls[n] = [f \in Functions |-> [c \in Contexts |-> Body(Calls[n - 1], f, c)]]
  <1> DEFINE Step(call) == [f \in Functions |-> [c \in Contexts |-> Body(call, f, c)]]
             start == [f \in Functions |-> [c \in Contexts |-> Null(Fail(c, "overflowed"))]]
             Recursion(g, k) == g = [i \in 0..k |-> IF i = 0 THEN start ELSE Step(g[i - 1])]
             T == {k \in 0..Depth : ~ \E g : Recursion(g, k)}
             calls == CHOOSE g : Recursion(g, Depth)
  <1>1. Calls = calls
    BY DEF Calls
  <1>2. Depth \in Nat
    BY ParserAssumption
  <1> HIDE DEF Step, start
  <1>3. ASSUME T # {} PROVE FALSE
    <2>1. PICK k \in T : \A m \in T : k <= m
      <3>1. T \in SUBSET Nat
        OBVIOUS
      <3> HIDE DEF T
      <3> QED BY <1>3, <3>1, Least
    <2>2. k # 0
      <3>1. Recursion([i \in {0} |-> start], 0)
        <4>1. 0..0 = {0}
          OBVIOUS
        <4> QED BY <4>1
      <3> HIDE DEF Recursion
      <3> QED BY <2>1, <3>1
    <2>3. k - 1 \in 0..Depth /\ k \in 1..Depth /\ k - 1 \notin T
      <3>1. k \in 0..Depth
        OBVIOUS
      <3>2. k - 1 \in 0..Depth /\ k \in 1..Depth /\ ~ k <= k - 1
        BY <1>2, <2>2, <3>1
      <3> HIDE DEF T
      <3> QED BY <2>1, <3>2
    <2>4. PICK g : Recursion(g, k - 1)
      <3> HIDE DEF Recursion
      <3> QED BY <2>3
    <2> DEFINE longer == [i \in 0..k |-> IF i = k THEN Step(g[k - 1]) ELSE g[i]]
    <2>5. ASSUME NEW i \in 0..k PROVE longer[i] = IF i = 0 THEN start ELSE Step(longer[i - 1])
      <3>1. CASE i = 0
        BY <2>2, <2>3, <2>4, <3>1
      <3>2. CASE i = k
        <4>1. longer[k] = Step(g[k - 1]) /\ longer[k - 1] = g[k - 1] /\ k # 0
          BY <2>2, <2>3
        <4> HIDE DEF longer
        <4> QED BY <3>2, <4>1
      <3>3. CASE i # 0 /\ i # k
        <4>1. i \in 0..k - 1 /\ i - 1 \in 0..k /\ i - 1 # k /\ i \in 0..k
          BY <2>3, <3>3
        <4>2. longer[i] = g[i] /\ longer[i - 1] = g[i - 1]
          BY <3>3, <4>1
        <4>3. g[i] = Step(g[i - 1])
          BY <2>4, <3>3, <4>1
        <4> HIDE DEF longer
        <4> QED BY <3>3, <4>2, <4>3
      <3> QED BY <3>1, <3>2, <3>3
    <2>6. Recursion(longer, k)
      <3>1. longer = [i \in 0..k |-> longer[i]]
        OBVIOUS
      <3> HIDE DEF longer
      <3> QED BY <2>5, <3>1
    <2> HIDE DEF longer, Recursion
    <2> QED BY <2>1, <2>6
  <1>4. \E g : Recursion(g, Depth)
    <2>1. Depth \in 0..Depth
      BY <1>2
    <2> HIDE DEF Recursion
    <2> QED BY <1>3, <2>1
  <1>5. Recursion(calls, Depth)
    BY <1>4
  <1> HIDE DEF calls
  <1>6. calls[0] = start /\ \A i \in 1..Depth : calls[i] = Step(calls[i - 1])
    <2>1. \A i \in 0..Depth : calls[i] = IF i = 0 THEN start ELSE Step(calls[i - 1])
      BY <1>5
    <2>2. 0 \in 0..Depth /\ \A i \in 1..Depth : i \in 0..Depth /\ i # 0
      BY <1>2
    <2> QED BY <2>1, <2>2
  <1> QED BY <1>1, <1>6 DEF Step, start

LEMMA CallsAreSound ==
  ASSUME tokens \in Inputs
  PROVE  \A n \in 0..Depth : Sound(Calls[n], n)
  <1>1. Depth \in Nat
    BY ParserAssumption
  <1>2. Sound(Calls[0], 0)
    <2>1. ASSUME NEW f \in Functions, NEW c \in Contexts, Ready(f, c)
          PROVE  Returns(0 < Need(f, c), f, c, Calls[0][f][c])
      <3> DEFINE less == 0 < Need(f, c)
                 d    == Fail(c, "overflowed")
      <3>1. Calls[0][f][c] = Null(d)
        BY CallsAre
      <3>2. Sane(c)
        BY <2>1 DEF Ready
      <3>3. less
        <4>1. Need(f, c) = 12 * (Len(tokens) - c.next) + Height[f]
          BY HeightIs DEF Need
        <4>2. Len(tokens) - c.next \in Nat /\ Height[f] \in 1..12
          BY <3>2, HeightIs, ParserAssumption DEF Sane
        <4> DEFINE room == Len(tokens) - c.next
                   h    == Height[f]
        <4>3. room \in Nat /\ h \in 1..12 /\ Need(f, c) = 12 * room + h
          BY <4>1, <4>2
        <4> HIDE DEF room, h
        <4>4. 0 < 12 * room + h
          BY <4>3
        <4> QED BY <4>3, <4>4
      <3>4. d \in Contexts /\ d.next = c.next /\ d.last = c.last /\ d.outcome # "stray"
        BY <3>2 DEF Sane, Contexts, Fail
      <3> HIDE DEF less, d
      <3>5. From(less, c, d) /\ Back(less, c, d)
        BY <3>2, <3>3, <3>4 DEF Sane, From, Back, Fits, Contexts
      <3> QED BY <3>1, <3>5 DEF Returns, Null, Made, IsNull, less
    <2> QED BY <2>1 DEF Sound
  <1>3. ASSUME NEW n \in 1..Depth, Sound(Calls[n - 1], n - 1) PROVE Sound(Calls[n], n)
    <2> DEFINE call == Calls[n - 1]
    <2>1. Calls[n] = [f \in Functions |-> [c \in Contexts |-> Body(call, f, c)]]
      BY CallsAre
    <2>2. n - 1 \in Nat /\ (n - 1) + 1 = n
      OBVIOUS
    <2>3. Sound(call, n - 1)
      BY <1>3
    <2> HIDE DEF call
    <2> DEFINE m == n - 1
    <2>4. m \in Nat /\ m + 1 = n /\ Sound(call, m)
      BY <2>2, <2>3
    <2> HIDE DEF m
    <2>5. ASSUME NEW f \in Functions, NEW c \in Contexts, Ready(f, c)
          PROVE  Returns(n < Need(f, c), f, c, Calls[n][f][c])
      <3> DEFINE short == n < Need(f, c)
      <3>1. Calls[n][f][c] = Body(call, f, c)
        BY <2>1
      <3>2. Enough(m, short, f, c)
        BY <2>4 DEF Enough
      <3> HIDE DEF short
      <3>3. Returns(short, f, c, Body(call, f, c))
        BY <2>4, <2>5, <3>2, BodyReturns
      <3> QED BY <3>1, <3>3 DEF short
    <2> QED BY <2>5 DEF Sound
  <1> DEFINE T == {n \in 0..Depth : ~ Sound(Calls[n], n)}
  <1>4. ASSUME T # {} PROVE FALSE
    <2>1. PICK k \in T : \A m \in T : k <= m
      <3>1. T \in SUBSET Nat
        OBVIOUS
      <3> HIDE DEF T
      <3> QED BY <1>4, <3>1, Least
    <2>2. k # 0
      BY <1>2, <2>1
    <2>3. k \in 1..Depth /\ k - 1 \in 0..Depth
      BY <1>1, <2>1, <2>2
    <2>4. k - 1 \notin T
      <3> HIDE DEF T
      <3> QED BY <2>1, <2>3
    <2>5. Sound(Calls[k - 1], k - 1)
      BY <2>3, <2>4
    <2> QED BY <1>3, <2>1, <2>3, <2>5
  <1> QED BY <1>4

(* Whatever the tokens, wherever it starts and however deep the calls it is   *)
(* made in, a loop of parse.c is over within as many turns as there are       *)
(* tokens left: it has stopped, has left the parser, or has nothing more to   *)
(* do.  So what the loops of the model, which are given so many turns, return *)
(* is what "while (true)" does.                                              *)
THEOREM LoopsEnd ==
  ASSUME tokens \in Inputs, NEW n \in 0..Depth, NEW f \in Levels \cup Lists, NEW c, Sane(c), NEW tree
  PROVE  RunsToItsEnd(Calls[n], f, c, tree)
  <1>1. n \in Nat /\ Sound(Calls[n], n)
    BY CallsAreSound, ParserAssumption
  <1> DEFINE call == Calls[n]
  <1>2. Sound(call, n)
    BY <1>1
  <1> HIDE DEF call
  <1>3. RunsToItsEnd(call, f, c, tree)
    BY <1>1, <1>2, LoopRunsToItsEnd
  <1> QED BY <1>3 DEF call
-------------------------------------------------------------------------------
(* The parser: its context is sane, and the calls have not been too deep.    *)
SaneParser == tokens \in Inputs /\ Sane(context) /\ FitsOnStack

LEMMA StepSound ==
  ASSUME SaneParser, [Next]_vars
  PROVE  LET short == Depth < CallsPerToken * Len(tokens)
         IN  /\ tokens' = tokens /\ From(short, context, context')
             /\ statements' # statements => Past(short, context, context')
  <1> DEFINE call  == Calls[Depth]
             short == Depth < CallsPerToken * Len(tokens)
  <1>1. tokens \in Inputs /\ Sane(context) /\ Sound(call, Depth) /\ Depth \in Nat
    <2>1. tokens \in Inputs /\ Sane(context) /\ Depth \in Nat /\ Depth \in 0..Depth
      BY ParserAssumption DEF SaneParser
    <2> QED BY <2>1, CallsAreSound
  <1>2. Enough(Depth, short, "statement_list", context)
    <2>1. Need("statement_list", context) = 12 * (Len(tokens) - context.next) + 12
      BY HeightIs DEF Need, Height
    <2>2. Len(tokens) \in Nat /\ context.next \in 1..Len(tokens)
      BY <1>1, ParserAssumption DEF Sane
    <2> QED BY <1>1, <2>1, <2>2, HeightIs DEF Enough
  <1> HIDE DEF call, short
  <1>3. Tried(short, context, call["statement"][context]) /\ Tried(short, context, Turn(call, context))
    <2>1. From(short, context, context)
      BY <1>1, Stays
    <2> QED BY <1>1, <1>2, <2>1, CallBelow, BelowIs, TurnReturns DEF Tried
  <1> DEFINE GoesOn == /\ tokens' = tokens /\ From(short, context, context')
                       /\ statements' # statements => Past(short, context, context')
  <1>4. ASSUME NEW r, Tried(short, context, r), Take(r) PROVE GoesOn
    BY <1>4 DEF Take, Tried
  <1>5. ASSUME AtEOF \/ UNCHANGED vars PROVE GoesOn
    BY <1>1, <1>5, Stays DEF AtEOF, vars
  <1> HIDE DEF GoesOn
  <1>6. FirstStatement \/ NextStatement => GoesOn
    BY <1>3, <1>4 DEF FirstStatement, NextStatement, call
  <1>7. GoesOn
    BY <1>5, <1>6 DEF Next
  <1> QED BY <1>7 DEF GoesOn, short

LEMMA SaneInvariant == Spec => []SaneParser
  <1>1. Init => SaneParser
    <2> SUFFICES ASSUME Init PROVE SaneParser
      OBVIOUS
    <2>1. tokens \in Inputs /\ Len(tokens) \in Nat \ {0}
      BY ParserAssumption DEF Init
    <2>2. context.next = 1 /\ context.last = 0 /\ context.outcome = "fine" /\ context \in Contexts
      BY DEF Init, Contexts
    <2> QED BY <2>1, <2>2 DEF SaneParser, Sane, FitsOnStack
  <1>2. SaneParser /\ [Next]_vars => SaneParser'
    <2> SUFFICES ASSUME SaneParser, [Next]_vars PROVE SaneParser'
      OBVIOUS
    <2> DEFINE short == Depth < CallsPerToken * Len(tokens)
    <2>1. tokens' = tokens /\ From(short, context, context')
      BY StepSound
    <2>2. Depth \in Nat /\ Len(tokens) \in Nat /\ CallsPerToken = 12
      BY ParserAssumption DEF SaneParser, CallsPerToken
    <2>3. FitsOnStack'
      BY <2>1, <2>2 DEF From, Fits, SaneParser, FitsOnStack
    <2> QED BY <2>1, <2>3 DEF From, SaneParser, Sane
  <1> QED BY <1>1, <1>2, PTL DEF Spec

(* Whatever the tokens, the parser asks for none behind the EOF and gives     *)
(* none back before it has taken one: what the scanner counts on.             *)
THEOREM ParserStaysInInput == Spec => []StaysInInput
  <1>1. SaneParser => StaysInInput
    BY DEF SaneParser, Sane, StaysInInput
  <1> QED BY <1>1, SaneInvariant, PTL

(* Whatever the tokens, a statement found has consumed one, so that the loop   *)
(* of statement_list, which tests for the EOF only, ends.                     *)
THEOREM ParserMovesOn == Spec => MovesOn
  <1>1. SaneParser /\ [Next]_vars => [statements' # statements => context'.next > context.next]_vars
    BY StepSound DEF Past
  <1> QED BY <1>1, SaneInvariant, PTL DEF Spec, MovesOn

(* Whatever the tokens, the functions of parse.c call each other no deeper    *)
(* than twelve calls for each: no rule comes back to itself where it started. *)
THEOREM ParserFitsOnStack == Spec => []FitsOnStack
  <1>1. SaneParser => FitsOnStack
    BY DEF SaneParser
  <1> QED BY <1>1, SaneInvariant, PTL
===============================================================================
