---------------------------- MODULE KconfigText ----------------------------
(***************************************************************************)
(* How kconfiglib.py prints an expression and reads one: expr_str() and    *)
(* the parser's three functions.  A text is the sequence of its tokens;    *)
(* the constants and symbols in it are terms, the rest are signs.          *)
(***************************************************************************)
EXTENDS KconfigTerms

CONSTANTS m,             \* the constant m
          modules        \* the symbol MODULES

Sign(s) == [op |-> s]
Relations == {"=", "!=", "<", "<="}
IsSym(e) == e.op \in {"const", "ref"}

-----------------------------------------------------------------------------
(* Printing.                                                               *)

InParens(s) == <<Sign("(")>> \o s \o <<Sign(")")>>

\* mutant of Parenthesized: printed as if the connectives bound alike
NeverParenthesized(e, type, s) == s

\* _parenthesize, for an expression e that prints as s
Parenthesized(e, type, s) == IF e.op = type THEN InParens(s) ELSE s

RECURSIVE expr_str(_)
expr_str(e) ==
    LET around(type, sign) == Parenthesized(e.l, type, expr_str(e.l))
                              \o <<Sign(sign)>>
                              \o Parenthesized(e.r, type, expr_str(e.r))
    IN  CASE IsSym(e)     -> <<e>>
          [] e.op = "and" -> around("or", "&&")
          [] e.op = "or"  -> around("and", "||")
          [] e.op = "not" -> <<Sign("!")>> \o IF IsSym(e.l) THEN <<e.l>>
                                              ELSE InParens(expr_str(e.l))
          [] OTHER        -> <<e.l, Sign(e.op), e.r>>

-----------------------------------------------------------------------------
(* Reading.  A function takes the tokens and where it begins, and returns  *)
(* the expression with where it ended, 0 for a parse error.                *)

Parsed(e, i) == [expr |-> e, next |-> i]
Malformed == Parsed(Const(0), 0)

TokenAt(ts, i) == IF i \in DOMAIN ts THEN ts[i] ELSE Sign("end")
_check_token(ts, i, sign) == TokenAt(ts, i) = Sign(sign)

RECURSIVE _parse_expr(_, _, _), _parse_and_expr(_, _, _), _parse_factor(_, _, _)

\* what was read up to right, if right could be read
Joined(right, e) == IF right.next = 0 THEN Malformed ELSE Parsed(e, right.next)

_parse_expr(ts, i, transform_m) ==
    LET left == _parse_and_expr(ts, i, transform_m)
        right == _parse_expr(ts, left.next + 1, transform_m)
    IN  IF ~_check_token(ts, left.next, "||") THEN left
        ELSE Joined(right, Or(left.expr, right.expr))

_parse_and_expr(ts, i, transform_m) ==
    LET left == _parse_factor(ts, i, transform_m)
        right == _parse_and_expr(ts, left.next + 1, transform_m)
    IN  IF ~_check_token(ts, left.next, "&&") THEN left
        ELSE Joined(right, And(left.expr, right.expr))

\* a symbol, or a relation between two
PlainOrRelation(ts, i, transform_m) ==
    LET rel == TokenAt(ts, i + 1).op
    IN  IF rel \in Relations
        THEN IF IsSym(TokenAt(ts, i + 2))
             THEN Parsed(Compare(rel, ts[i], ts[i + 2]), i + 3) ELSE Malformed
        ELSE Parsed(IF transform_m /\ ts[i] = m THEN And(m, modules) ELSE ts[i],
                    i + 1)

_parse_factor(ts, i, transform_m) ==
    LET token == TokenAt(ts, i)
        inner == IF token.op = "!"
                 THEN _parse_factor(ts, i + 1, transform_m)
                 ELSE _parse_expr(ts, i + 1, transform_m)
    IN  CASE IsSym(token)   -> PlainOrRelation(ts, i, transform_m)
          [] token.op = "!" -> Joined(inner, Not(inner.expr))
          [] token.op = "(" -> IF _check_token(ts, inner.next, ")")
                               THEN Parsed(inner.expr, inner.next + 1)
                               ELSE Malformed
          [] OTHER          -> Malformed

\* _expect_expr_and_eol
ReadsWhole(ts, transform_m) ==
    _parse_expr(ts, 1, transform_m).next = Len(ts) + 1

ReadBack(e, transform_m) == _parse_expr(expr_str(e), 1, transform_m).expr
=============================================================================
