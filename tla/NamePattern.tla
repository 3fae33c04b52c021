----------------------------- MODULE NamePattern -----------------------------
(***************************************************************************)
(* sprintf_pattern: the names, passwords and hosts of the users are made   *)
(* from patterns such as user%(NUM+100:i) by a flex scanner and a yacc     *)
(* parser.  Outside %( and :format) every character stands for itself;     *)
(* inside, an expression over the user's number is computed.  The start    *)
(* condition of the scanner is static: it outlives a call of yyparse.      *)
(*                                                                         *)
(* A pattern is a sequence of the scanner's symbols.  The format, and the  *)
(* characters the scanner skips inside an expression, are left out; so are *)
(* RND, which is a number like NUM but a random one, and the zero divisor, *)
(* which ends the program: the patterns have no remainder or quotient by 0 *)
(* that is of interest.                                                    *)
(***************************************************************************)
EXTENDS Integers, Sequences, SequencesExt

CONSTANTS
  IdNum,     \* yynumid, the number of the user
  Patterns   \* the patterns of the configuration

ASSUME PatternAssumption == IdNum \in Nat

VARIABLES
  condition, \* start condition of the scanner
  brokeOff,  \* history: a pattern has broken off inside an expression
  pattern, made   \* the last pattern, and the text in the buffer

patternVars == <<condition, brokeOff, pattern, made>>

Numbers == [s \in {"1", "2", "3"} |-> CASE s = "1" -> 1 [] s = "2" -> 2 [] s = "3" -> 3]

Abs(n) == IF n < 0 THEN -n ELSE n
Apply(op, a, b) ==
  CASE op = "+" -> a + b [] op = "-" -> a - b [] op = "*" -> a * b
    [] op = "%" -> IF b = 0 THEN 0 ELSE IF a < 0 THEN -((-a) % Abs(b)) ELSE a % Abs(b)
    [] op = "/" -> IF b = 0 THEN 0 ELSE IF (a < 0) = (b < 0) THEN Abs(a) \div Abs(b) ELSE -(Abs(a) \div Abs(b))
    [] op = "none" -> b

(* The left operands on the parser's stack, of one level of brackets: a sum,
   to be combined by sop, a product by pop; atom says that one must follow. *)
Level == [sum |-> 0, sop |-> "none", prod |-> 0, pop |-> "none", atom |-> TRUE]

(* math_atom completes the product. *)
Atom(l, v) == [l EXCEPT !.prod = Apply(l.pop, l.prod, v), !.atom = FALSE]
(* math_mulexpr OP_MUL, and math_addexpr OP_PLUS: reduced from the left. *)
MulAsAdd(l, op) == [l EXCEPT !.sum = Apply(l.sop, l.sum, l.prod), !.sop = op, !.pop = "none", !.atom = TRUE]   \* slip: one precedence
MulOp(l, op) == [l EXCEPT !.pop = op, !.atom = TRUE]
AddOp(l, op) == [l EXCEPT !.sum = Apply(l.sop, l.sum, l.prod), !.sop = op, !.pop = "none", !.atom = TRUE]
math_addexpr(l) == Apply(l.sop, l.sum, l.prod)

(* The parser between two symbols: its levels of brackets, what it has
   written, and whether it has met a syntax error, after which nothing of
   the string is read any more. *)
Start(cond) == [cond |-> cond, levels |-> <<>>, out |-> <<>>, err |-> FALSE]
SyntaxError(p) == [p EXCEPT !.err = TRUE]
OnTop(p, l) == [p EXCEPT !.levels = <<l>> \o Tail(@)]

TokenAtom(p, v) ==
  IF p.levels # <<>> /\ Head(p.levels).atom THEN OnTop(p, Atom(Head(p.levels), v)) ELSE SyntaxError(p)
TokenOp(p, op) ==
  IF p.levels = <<>> \/ Head(p.levels).atom THEN SyntaxError(p)
  ELSE OnTop(p, IF op \in {"*", "/", "%"} THEN MulOp(Head(p.levels), op) ELSE AddOp(Head(p.levels), op))
TokenLeft(p) ==
  IF p.levels # <<>> /\ Head(p.levels).atom THEN [p EXCEPT !.levels = <<Level>> \o @] ELSE SyntaxError(p)
TokenRight(p) ==
  IF Len(p.levels) < 2 \/ Head(p.levels).atom THEN SyntaxError(p)
  ELSE TokenAtom([p EXCEPT !.levels = Tail(@)], math_addexpr(Head(p.levels)))
TokenEnd(p) ==
  IF Len(p.levels) # 1 \/ Head(p.levels).atom THEN SyntaxError(p)
  ELSE [p EXCEPT !.levels = <<>>, !.out = Append(@, math_addexpr(Head(p.levels)))]

(* The scanner, and what the parser does with its token. *)
InExpression(p, s) ==
  CASE s = "%("        -> LET q == TokenOp(p, "%") IN IF q.err THEN q ELSE TokenLeft(q)
    [] s = "("         -> TokenLeft(p)
    [] s = ")"         -> TokenRight(p)
    [] s \in {"+", "-", "*", "/", "%"} -> TokenOp(p, s)
    [] s = "NUM"       -> TokenAtom(p, IdNum)
    [] s \in DOMAIN Numbers -> TokenAtom(p, Numbers[s])
    [] s = ":i)"       -> TokenEnd([p EXCEPT !.cond = "INITIAL"])
    [] OTHER           -> p   \* echoed
yylex(p, s) ==
  IF p.err THEN p
  ELSE IF p.cond = "INITIAL"
         THEN IF s = "%(" THEN [p EXCEPT !.cond = "ST_EXPRESSION", !.levels = <<Level>>]
              ELSE [p EXCEPT !.out = Append(@, s)]
         ELSE InExpression(p, s)

(* yyparse writes as it goes: after an error the beginning stays in the
   buffer.  The next scan starts in the condition this one has ended in. *)
yyparse(text) == FoldLeft(yylex, Start(condition), text)
sprintf_pattern(text) ==
  LET end == yyparse(text)
  IN /\ pattern = <<>> /\ pattern' = text /\ made' = end.out
     /\ condition' = end.cond
     /\ brokeOff' = (brokeOff \/ (end.err /\ end.cond # "INITIAL") \/ end.levels # <<>>)

PatternInit == condition = "INITIAL" /\ brokeOff = FALSE /\ pattern = <<>> /\ made = <<>>
NextBuffer == pattern # <<>> /\ pattern' = <<>> /\ made' = <<>> /\ UNCHANGED <<condition, brokeOff>>
PatternNext == NextBuffer \/ \E text \in Patterns : sprintf_pattern(text)
PatternSpec == PatternInit /\ [][PatternNext]_patternVars
-----------------------------------------------------------------------------
(* The grammar read as a definition: an expression is split at its last sum
   outside brackets, else at its last product. *)
Outside(e, i) ==
  LET before == SubSeq(e, 1, i - 1)
  IN Len(SelectSeq(before, LAMBDA s : s = "(")) = Len(SelectSeq(before, LAMBDA s : s = ")"))
LastOf(e, ops) == SelectLastInSeq([i \in DOMAIN e |-> <<i, e[i]>>],
                                  LAMBDA c : c[2] \in ops /\ Outside(e, c[1]))
RECURSIVE Value(_)
Value(e) ==
  LET sum == LastOf(e, {"+", "-"})
      k == IF sum # 0 THEN sum ELSE LastOf(e, {"*", "/", "%"})
      left == Value(SubSeq(e, 1, k - 1))
      right == Value(SubSeq(e, k + 1, Len(e)))
  IN IF k # 0 THEN IF "bad" \in {left.is, right.is} THEN [is |-> "bad"]
                   ELSE [is |-> "value", of |-> Apply(e[k], left.of, right.of)]
     ELSE IF Len(e) = 1 /\ e[1] = "NUM" THEN [is |-> "value", of |-> IdNum]
     ELSE IF Len(e) = 1 /\ e[1] \in DOMAIN Numbers THEN [is |-> "value", of |-> Numbers[e[1]]]
     ELSE IF Len(e) > 2 /\ e[1] = "(" /\ e[Len(e)] = ")" THEN Value(SubSeq(e, 2, Len(e) - 1))
     ELSE [is |-> "bad"]

(* Read from the start, a pattern that is one expression gives the number
   that the usual precedences and brackets give it, and nothing at all when
   it has no value: %( inside is a remainder and a bracket. *)
Spelled(e) == FlattenSeq([i \in DOMAIN e |-> IF e[i] = "%(" THEN <<"%", "(">> ELSE <<e[i]>>])
ArithmeticAsWritten ==
  [][LET e == SubSeq(pattern', 2, Len(pattern') - 1)
         v == Value(Spelled(e))
     IN /\ condition = "INITIAL" /\ pattern = <<>> /\ Len(pattern') > 2
        /\ pattern'[1] = "%(" /\ pattern'[Len(pattern')] = ":i)" /\ ~ \E i \in DOMAIN e : e[i] \in {":i)", "x"}
        => made' = IF v.is = "bad" THEN <<>> ELSE <<v.of>>]_patternVars

(* Nothing but a pattern that broke off inside its expression, which nothing
   reports, leaves the scanner in the expression; until then every pattern
   is scanned from the start. *)
StuckOnlyAfterBreak == condition = "ST_EXPRESSION" => brokeOff

(* And one such pattern spoils what comes after it: no later pattern, however
   well formed, gives its name before another one has ended an expression. *)
BreakSpoilsNext == [][condition = "ST_EXPRESSION" => made' = <<>>]_patternVars
=============================================================================
