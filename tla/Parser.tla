--------------------------------- MODULE Parser ---------------------------------
(***************************************************************************)
(* compiler/parse.c: recursive descent over the tokens of a source, one turn *)
(* of the loop of statement_list a step.  The functions read the tokens as   *)
(* TokenReader does; each returns the context it leaves and its tree, NULL   *)
(* included.  A context that is not "fine" has left the parser: through      *)
(* exit ("rejected"), through a failed assert ("aborted"), through a NULL    *)
(* tree whose location is read ("undefined"), through a backup to nowhere    *)
(* ("stray") or at the end of the C stack ("overflowed").                    *)
(***************************************************************************)
EXTENDS Naturals, Sequences, Syntax

CONSTANTS
  Inputs,           (* sequences of tokens, the EOF last                      *)
  Depth             (* how many calls of parse.c fit on the C stack           *)

(* The tokens the scanner gives of a source; "left" is Peek's, see below.    *)
ASSUME ParserAssumption ==
  /\ Depth \in Nat
  /\ \A ts \in Inputs :
       /\ Len(ts) \in Nat \ {0} /\ DOMAIN ts = 1..Len(ts)
       /\ \A i \in 1..Len(ts) : (ts[i].type = "EOF" <=> i = Len(ts)) /\ ts[i].type # "left"

VARIABLES
  tokens,
  context,          (* [next, last, outcome]                                  *)
  statements,       (* what statement_list has collected                      *)
  status            (* "starting", "parsing", or how it ended                 *)

vars == <<tokens, context, statements, status>>

-------------------------------------------------------------------------------
(* Reading tokens; where the parser was left, no token is of any type.       *)
Fine(c)   == c.outcome = "fine"
Peek(c)   == IF Fine(c) THEN tokens[c.next].type ELSE "left"
Value(c)  == tokens[c.next].value
Accept(c) == IF Fine(c) THEN [c EXCEPT !.next = @ + 1, !.last = c.next] ELSE c
Fail(c, outcome) == IF Fine(c) THEN [c EXCEPT !.outcome = outcome] ELSE c
(* A backup before any accept goes where a token nobody set happens to be.   *)
Backup(c) == IF ~ Fine(c) THEN c
             ELSE IF c.last = 0 THEN Fail(c, "stray") ELSE [c EXCEPT !.next = c.last]

Made(c, tree) == [context |-> c, tree |-> tree]
Null(c)       == Made(c, NoTree)
IsNull(r)     == r.tree = NoTree
(* assert(accept(context).type == type), and its like with exit.             *)
Require(c, type, outcome) == IF Peek(c) = type THEN Accept(c) ELSE Fail(c, outcome)

(* The first token at or behind the place that is no end of line; the EOF is *)
(* none.                                                                     *)
SkipLines(c) ==
  IF Peek(c) # "EOL" THEN c
  ELSE LET end == CHOOSE i \in c.next..Len(tokens) :
                    tokens[i].type # "EOL" /\ \A j \in c.next..i - 1 : tokens[j].type = "EOL"
       IN  [c EXCEPT !.next = end, !.last = end - 1]

(* The functions of parse.c, each defined below under its name.  They call    *)
(* each other through call: call[f][c] is what f returns in the context c.    *)
Functions == {"statement", "conjunction", "equality", "comparison", "term", "term_md", "expression_list",
  "expression", "unary", "primary", "function_call", "member_access", "statement_list", "statement_block",
  "tuple", "anonymous_decl", "function_decl", "assignment", "variable_decl", "if_statement",
  "for_statement", "import_statement", "range"}
Contexts  == [next : Nat, last : Nat, outcome : {"fine", "rejected", "aborted", "undefined", "stray", "overflowed"}]
-------------------------------------------------------------------------------
(* A loop of f: what it has so far, and whether it has ended.  Every turn     *)
(* that does not end it takes a token.                                       *)
Unfinished(c, tree)  == [context |-> c, tree |-> tree, finished |-> FALSE]
Finished(c, tree) == [context |-> c, tree |-> tree, finished |-> TRUE]

(* Mutant: the two levels of terms exchanged.                                *)
TermsFirst == [conjunction |-> {"and", "or"}, equality |-> {"!=", "=="}, comparison |-> {">", ">=", "<", "<="},
               term |-> {"/", "*"}, term_md |-> {"-", "+", "%"}]
(* The operators of each level.                                              *)
Operators == [conjunction |-> {"and", "or"}, equality |-> {"!=", "=="}, comparison |-> {">", ">=", "<", "<="},
              term |-> {"-", "+", "%"}, term_md |-> {"/", "*"}]
(* The level of its operands.                                                *)
Operands  == [conjunction |-> "equality", equality |-> "comparison", comparison |-> "term",
              term |-> "term_md", term_md |-> "unary"]

(* A slash before "exported" belongs to a function: it is given back, but     *)
(* the left operand is gone.                                                 *)
Operation(call, f, left) ==
  LET op    == Peek(left.context)
      after == Accept(left.context)
      right == call[Operands[f]][after]
  IN  IF op \notin Operators[f] THEN Finished(left.context, left.tree)
      ELSE IF op = "/" /\ Peek(after) = "exported" THEN Finished(Backup(after), NoTree)
      ELSE IF IsNull(left) \/ IsNull(right) THEN Finished(Fail(right.context, "undefined"), NoTree)
      ELSE Unfinished(right.context, Bin(op, left.tree, right.tree))

NextExpression(call, list) ==
  LET expr == call["expression"][Accept(list.context)]
  IN  IF Peek(list.context) # "," THEN Finished(list.context, list.tree)
      ELSE IF IsNull(expr) THEN Finished(Fail(expr.context, "aborted"), list.tree)
      ELSE Unfinished(expr.context, Append(list.tree, expr.tree))

(* An end of line, then a statement.                                         *)
Turn(call, c) == call["statement"][IF Peek(c) = "EOL" THEN Accept(c) ELSE c]
NextStatementOf(call, list) ==
  LET turn == Turn(call, list.context)
  IN  IF Peek(list.context) = "EOF" THEN Finished(list.context, list.tree)
      ELSE IF IsNull(turn) THEN Finished(turn.context, list.tree)
      ELSE Unfinished(turn.context, Append(list.tree, turn.tree))

Again(call, f, r) ==
  CASE f = "expression_list" -> NextExpression(call, r)
    [] f = "statement_list" -> NextStatementOf(call, r)
    [] OTHER -> Operation(call, f, r)
Loop(call, f, c, tree) ==
  LET turn[i \in 0..Len(tokens)] ==
        IF i = 0 THEN Unfinished(c, tree)
        ELSE LET r == turn[i - 1] IN IF r.finished THEN r ELSE Again(call, f, r)
      r == turn[Len(tokens) - c.next]
  IN  Made(r.context, r.tree)

Level(call, f, c) == LET left == call[Operands[f]][c] IN Loop(call, f, left.context, left.tree)
-------------------------------------------------------------------------------
(* A literal, by the type of its token.                                      *)
Literal(c) ==
  CASE Peek(c) = "IDENTIFIER" -> Id(Value(c))
    [] Peek(c) = "NUMBER" -> LNum(Value(c))
    [] Peek(c) = "FLOAT" -> LFloat
    [] Peek(c) = "STRING" -> LStr(Value(c))
    [] Peek(c) \in {"true", "false"} -> LBool(Peek(c) = "true")
    [] Peek(c) = "nil" -> LNil
Literals == {"IDENTIFIER", "NUMBER", "FLOAT", "STRING", "true", "false", "nil"}

(* Mutant: gives back what it did not accept.                                *)
FunctionCallBackingUp(call, c) ==
  LET name == Accept(c)
      args == call["expression_list"][Accept(name)]
  IN  IF Peek(c) # "IDENTIFIER" THEN Null(Backup(c))
      ELSE IF Peek(name) # "(" THEN Null(Backup(name))
      ELSE Made(Require(args.context, ")", "aborted"), CallOf(Value(c), args.tree))

FunctionCall(call, c) ==
  LET name == Accept(c)
      args == call["expression_list"][Accept(name)]
  IN  IF Peek(c) # "IDENTIFIER" THEN Null(c)
      ELSE IF Peek(name) # "(" THEN Null(Backup(name))
      ELSE Made(Require(args.context, ")", "aborted"), CallOf(Value(c), args.tree))

(* Mutant: does not give the name back.                                      *)
MemberAccessKeeping(call, c) ==
  LET name   == Accept(c)
      called == call["function_call"][Accept(name)]
      member == IF IsNull(called) THEN call["member_access"][called.context] ELSE called
  IN  IF Peek(c) # "IDENTIFIER" THEN Null(c)
      ELSE IF Peek(name) # "." THEN Null(name)
      ELSE Made(member.context, Bin(".", Literal(c), member.tree))

MemberAccess(call, c) ==
  LET name   == Accept(c)
      called == call["function_call"][Accept(name)]
      member == IF IsNull(called) THEN call["member_access"][called.context] ELSE called
  IN  IF Peek(c) # "IDENTIFIER" THEN Null(c)
      ELSE IF Peek(name) # "." THEN Null(Backup(name))
      ELSE Made(member.context, Bin(".", Literal(c), member.tree))

Bounds == {"IDENTIFIER", "NUMBER"}
RangeExpr(c) ==
  LET begin == Accept(c)
      end   == Accept(begin)
  IN  IF Peek(c) \notin Bounds THEN Null(c)
      ELSE IF Peek(begin) # ".." THEN Null(Backup(begin))
      ELSE IF Peek(end) \notin Bounds THEN Null(Fail(end, "aborted"))
      ELSE Made(Accept(end), RangeOf(Literal(c), Literal(end)))

(* A tuple of one is a group, which is the tree inside it.                   *)
Tuple(call, c) ==
  LET list   == call["expression_list"][Accept(c)]
      opened == IF list.tree = <<>> THEN Fail(list.context, "aborted") ELSE list.context
      closed == Require(opened, ")", "rejected")
  IN  IF Peek(c) # "(" THEN Null(c)
      ELSE Made(closed, IF Len(list.tree) = 1 THEN list.tree[1] ELSE Items(list.tree))

(* Mutant: a literal is not accepted.                                        *)
PrimaryPeeking(call, c) ==
  LET called == call["function_call"][c]
      member == call["member_access"][called.context]
      range  == call["range"][member.context]
  IN  IF ~ IsNull(called) THEN called
      ELSE IF ~ IsNull(member) THEN member
      ELSE IF ~ IsNull(range) THEN range
      ELSE IF Peek(range.context) \in Literals
        THEN Made(range.context, Literal(range.context))
      ELSE call["tuple"][range.context]

Primary(call, c) ==
  LET called == call["function_call"][c]
      member == call["member_access"][called.context]
      range  == call["range"][member.context]
  IN  IF ~ IsNull(called) THEN called
      ELSE IF ~ IsNull(member) THEN member
      ELSE IF ~ IsNull(range) THEN range
      ELSE IF Peek(range.context) \in Literals
        THEN Made(Accept(range.context), Literal(range.context))
      ELSE call["tuple"][range.context]

(* Mutant: the operator is not accepted.                                     *)
UnaryPeeking(call, c) ==
  LET operand == call["unary"][c]
      primary == call["primary"][c]
  IN  IF Peek(c) \in {"!", "-"}
        THEN IF IsNull(operand) THEN Null(Fail(operand.context, "undefined"))
             ELSE Made(operand.context, Un(Peek(c), operand.tree))
      ELSE IF IsNull(primary) /\ Peek(primary.context) = "INVALID"
        THEN Null(Fail(primary.context, "rejected"))
      ELSE primary

Unary(call, c) ==
  LET operand == call["unary"][Accept(c)]
      primary == call["primary"][c]
  IN  IF Peek(c) \in {"!", "-"}
        THEN IF IsNull(operand) THEN Null(Fail(operand.context, "undefined"))
             ELSE Made(operand.context, Un(Peek(c), operand.tree))
      ELSE IF IsNull(primary) /\ Peek(primary.context) = "INVALID"
        THEN Null(Fail(primary.context, "rejected"))
      ELSE primary

(* expression_list; NULL is the empty list.                                  *)
ExpressionList(call, c) ==
  LET first == call["expression"][c]
  IN  IF IsNull(first) THEN Made(first.context, <<>>)
      ELSE Loop(call, "expression_list", first.context, << first.tree >>)
-------------------------------------------------------------------------------
(* A block; one end of line may come before its brace.  Without a brace one  *)
(* token is given back, the end of line or whatever was accepted last.       *)
StatementBlock(call, c) ==
  LET brace == IF Peek(c) = "EOL" THEN Accept(c) ELSE c
      list  == call["statement_list"][SkipLines(Accept(brace))]
  IN  IF Peek(brace) # "{" THEN Null(Backup(brace))
      ELSE Made(Require(list.context, "}", "rejected"), list.tree)

(* What is left of function_decl and anonymous_decl after the name: the      *)
(* arguments, if there are any, which may be any expressions, and the body.  *)
Function(call, c, name) ==
  LET args == call["expression_list"][Accept(c)]
      head == IF Peek(c) = "(" THEN Made(Require(args.context, ")", "aborted"), args.tree)
              ELSE Made(c, <<>>)
      body == call["statement_block"][head.context]
  IN  IF IsNull(body) THEN Null(Fail(body.context, "aborted"))
      ELSE Made(body.context, FnOf(name, head.tree, body.tree.items))

AnonymousDecl(call, c) ==
  LET fn == Accept(c)
  IN  IF Peek(c) # "fn" THEN Null(c)
      ELSE IF Peek(fn) \notin {"{", "("} THEN Null(Backup(fn))
      ELSE Function(call, fn, Anonymous)

NamedFunction(call, c) ==
  LET fn == Accept(c)
  IN  IF Peek(c) # "fn" THEN Null(c)
      ELSE IF Peek(fn) # "IDENTIFIER" THEN Null(Backup(fn))
      ELSE Function(call, Accept(fn), Value(fn))

FunctionDecl(call, c) ==
  LET slash  == Accept(c)
      closed == Require(Accept(slash), "/", "aborted")
      fn     == NamedFunction(call, IF Peek(closed) = "EOL" THEN Accept(closed) ELSE closed)
  IN  IF Peek(c) # "/" THEN NamedFunction(call, c)
      ELSE IF Peek(slash) # "exported" THEN Null(Backup(slash))
      ELSE IF IsNull(fn) THEN fn ELSE Made(fn.context, Exported(fn.tree))

Assignment(call, c) ==
  LET name  == Accept(c)
      value == call["expression"][Accept(name)]
  IN  IF Peek(c) # "IDENTIFIER" THEN call["conjunction"][c]
      ELSE IF Peek(name) # "=" THEN call["conjunction"][Backup(name)]
      ELSE Made(value.context, SetTo(Value(c), value.tree))

Expression(call, c) ==
  LET value == call["assignment"][c]
  IN  IF IsNull(value) THEN call["anonymous_decl"][value.context] ELSE value

VariableDecl(call, c) ==
  LET keyword == Accept(c)
      name    == Require(keyword, "IDENTIFIER", "rejected")
      value   == call["expression"][Accept(name)]
  IN  IF Peek(c) \notin {"var", "let"} THEN Null(c)
      ELSE IF ~ Fine(name) THEN Null(name)
      ELSE IF Peek(name) # "=" THEN Made(name, Declare(Peek(c) = "var", Value(keyword), NoInitial))
      ELSE Made(value.context, Declare(Peek(c) = "var", Value(keyword), value.tree))

IfStatement(call, c) ==
  LET condition == call["expression"][Accept(c)]
      block == call["statement_block"][condition.context]
      body  == IF IsNull(block) THEN call["statement"][block.context] ELSE block
  IN  IF Peek(c) # "if" THEN Null(c)
      ELSE IF IsNull(condition) THEN Null(Fail(condition.context, "rejected"))
      ELSE IF IsNull(body) THEN Null(Fail(body.context, "rejected"))
      ELSE Made(body.context, If(condition.tree, body.tree))

(* The variable of a for and the token it iterates from.                     *)
ForStatement(call, c) ==
  LET for   == Accept(c)
      name  == Accept(for)
      local == Peek(for) = "IDENTIFIER" /\ Peek(name) = "in"
      over  == IF local THEN call["primary"][Accept(name)]
               ELSE IF Peek(for) = "IDENTIFIER" THEN call["primary"][Backup(name)] ELSE Null(for)
      iterable == IF IsNull(over) /\ Peek(over.context) \in {"STRING", "(", "NUMBER"}
                    THEN call["primary"][over.context] ELSE over
      body  == call["statement_block"][iterable.context]
  IN  IF Peek(c) # "for" THEN Null(c)
      ELSE IF IsNull(iterable) THEN Null(Fail(iterable.context, "rejected"))
      ELSE IF IsNull(body) THEN Null(Fail(body.context, "rejected"))
      ELSE Made(body.context, For(IF local THEN Value(for) ELSE NoVar, iterable.tree, body.tree.items))

ImportStatement(c) ==
  LET import == Accept(c)
  IN  IF Peek(c) # "import" THEN Null(c)
      ELSE IF Peek(import) # "STRING" THEN Null(Fail(import, "rejected"))
      ELSE Made(Accept(import), Import(Value(import)))

(* The alternatives in their order, each where the one before left the       *)
(* context.  A return right behind a declaration takes its place.            *)
Alternatives(call, declared) ==
  LET expr  == IF IsNull(declared) THEN call["expression"][declared.context] ELSE declared
      named == IF IsNull(expr) THEN call["function_decl"][expr.context] ELSE expr
      fn    == IF IsNull(named) THEN call["anonymous_decl"][named.context] ELSE named
      if    == IF IsNull(fn) THEN call["if_statement"][fn.context] ELSE fn
      for   == IF IsNull(if) THEN call["for_statement"][if.context] ELSE if
  IN  IF IsNull(for) THEN call["import_statement"][for.context] ELSE for

Statement(call, c) ==
  LET declared == call["variable_decl"][c]
      returned == call["statement"][Accept(declared.context)]
      left     == Alternatives(call, declared)
  IN  IF Peek(declared.context) = "return" THEN Made(returned.context, Yields(returned.tree))
      ELSE IF Peek(left.context) # "EOL" THEN left
      ELSE IF IsNull(left) THEN call["statement"][Accept(left.context)]
      ELSE Made(Accept(left.context), left.tree)

StatementList(call, c) ==
  LET first == call["statement"][c]
  IN  IF IsNull(first) THEN Made(first.context, Statements(<<>>))
      ELSE LET list == Loop(call, "statement_list", first.context, << first.tree >>)
           IN  Made(list.context, Statements(list.tree))

Body(call, f, c) ==
  CASE f = "statement" -> Statement(call, c)
    [] f \in DOMAIN Operators -> Level(call, f, c)
    [] f = "expression_list" -> ExpressionList(call, c)
    [] f = "expression" -> Expression(call, c)
    [] f = "unary" -> Unary(call, c)
    [] f = "primary" -> Primary(call, c)
    [] f = "function_call" -> FunctionCall(call, c)
    [] f = "member_access" -> MemberAccess(call, c)
    [] f = "statement_list" -> StatementList(call, c)
    [] f = "statement_block" -> StatementBlock(call, c)
    [] f = "tuple" -> Tuple(call, c)
    [] f = "anonymous_decl" -> AnonymousDecl(call, c)
    [] f = "function_decl" -> FunctionDecl(call, c)
    [] f = "assignment" -> Assignment(call, c)
    [] f = "variable_decl" -> VariableDecl(call, c)
    [] f = "if_statement" -> IfStatement(call, c)
    [] f = "for_statement" -> ForStatement(call, c)
    [] f = "import_statement" -> ImportStatement(c)
    [] f = "range" -> RangeExpr(c)

(* What each function returns where so many calls fit on the C stack.        *)
Calls ==
  LET calls[n \in 0..Depth] ==
        IF n = 0 THEN [f \in Functions |-> [c \in Contexts |-> Null(Fail(c, "overflowed"))]]
        ELSE [f \in Functions |-> [c \in Contexts |-> Body(calls[n - 1], f, c)]]
  IN  calls
-------------------------------------------------------------------------------
(* parse: the statement_list of the whole source.                            *)
Init ==
  /\ tokens \in Inputs
  /\ context = [next |-> 1, last |-> 0, outcome |-> "fine"]
  /\ statements = <<>> /\ status = "starting"

(* A statement that is NULL ends the list, wherever the tokens are.          *)
Take(turn) ==
  /\ context' = turn.context
  /\ statements' = IF IsNull(turn) THEN statements ELSE Append(statements, turn.tree)
  /\ status' = IF ~ Fine(turn.context) THEN turn.context.outcome
               ELSE IF IsNull(turn) THEN "parsed" ELSE "parsing"
  /\ UNCHANGED tokens

FirstStatement == status = "starting" /\ Take(Calls[Depth]["statement"][context])
NextStatement  == status = "parsing" /\ Peek(context) # "EOF" /\ Take(Turn(Calls[Depth], context))
AtEOF ==
  /\ status = "parsing" /\ Peek(context) = "EOF"
  /\ status' = "parsed" /\ UNCHANGED <<tokens, context, statements>>

Next == FirstStatement \/ NextStatement \/ AtEOF
Spec == Init /\ [][Next]_vars
-------------------------------------------------------------------------------
(* However it backs up and looks ahead, the parser never asks for a token    *)
(* behind the EOF, where the scanner would read past the text (lex.c:158),   *)
(* and never backs up before it has accepted a token, when the context's     *)
(* previous token is not set (nord.c:45).                                    *)
StaysInInput == (Fine(context) => context.next <= Len(tokens)) /\ context.outcome # "stray"

(* Every turn that finds a statement has moved on, so the loop, which tests  *)
(* for EOF only, ends: a statement made of nothing but tokens given back     *)
(* would be found again and again.                                           *)
MovesOn == [][statements' # statements => context'.next > context.next]_vars

(* The calls one in the other are as deep as the input is long, and no deeper: *)
(* a function that came back to itself without taking a token would do so     *)
(* until the C stack is gone, on an input that need not be long.              *)
CallsPerToken == 12
FitsOnStack == Depth >= CallsPerToken * Len(tokens) => context.outcome # "overflowed"
===============================================================================
