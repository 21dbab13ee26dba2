---------------------------- MODULE MCKconfigExpr ---------------------------
(***************************************************************************)
(* The expressions of KconfigGrammar, for TLC; each is also printed and    *)
(* read back as kconfiglib.py does.                                        *)
(***************************************************************************)
EXTENDS KconfigGrammar

(* The printer and the parser of kconfiglib.py work on terms, whose symbols *)
(* are tokens as pairs here.  One of the symbols is MODULES.               *)
CONSTANT MODULES

Text == INSTANCE KconfigText WITH m <- [op |-> "ref", arg |-> <<"constant", 1>>],
                                  modules <- [op |-> "ref", arg |-> <<"symbol", MODULES>>]

\* the term that the tokens of expr are the postfix order of
Named(t) == Text!Ref(<<t.kind, t.arg>>)
Negated(op, x) == Text!Not(x)
Applied(op, x, y) == CASE op = "&&" -> Text!And(x, y)
                       [] op = "||" -> Text!Or(x, y)
                       [] OTHER     -> Text!Compare(op, x, y)

Term ==
    LET stack[k \in 0..Len(expr)] ==
          IF k = 0 THEN <<>>
          ELSE Push(stack[k - 1], expr[k], Named, Negated, Applied)
    IN  stack[Len(expr)][1]

\* and back: the postfix order of a term
RECURSIVE Postfix(_)
Postfix(e) ==
    CASE e.op = "ref" -> <<[kind |-> e.arg[1], arg |-> e.arg[2]]>>
      [] e.op = "not" -> Append(Postfix(e.l),
                                Op(IF Text!IsSym(e.l) THEN "!" ELSE "!()"))
      [] OTHER -> Append(Postfix(e.l) \o Postfix(e.r),
                         Op(CASE e.op = "and" -> "&&"
                              [] e.op = "or"  -> "||"
                              [] OTHER        -> e.op))

SameValues(e, f) ==
    /\ evaluateExpr(Postfix(e), env) = evaluateExpr(Postfix(f), env)
    /\ KconfigValue(Postfix(e), env) = KconfigValue(Postfix(f), env)

(* The text kconfiglib prints for an expression, which is what the view    *)
(* gets, means that expression: it is read back whole, and to one of equal *)
(* value in both languages, however the operands of && and || regroup.     *)
(* The rewriting of m to m && MODULES may be done any number of times.     *)
TextKeepsMeaning ==
    Complete =>
        LET rewritten == Text!ReadBack(Term, TRUE)
        IN  /\ \A e \in {Term, rewritten} : Text!ReadsWhole(Text!expr_str(e), TRUE)
            /\ SameValues(Text!ReadBack(Term, FALSE), Term)
            /\ SameValues(Text!ReadBack(rewritten, TRUE), rewritten)
=============================================================================
