----------------------------- MODULE KconfigTerms -----------------------------
(***************************************************************************)
(* Expressions of kconfiglib.py: a constant (n, m, y are 0, 1, 2), a       *)
(* symbol or choice, or an operation on expressions.                       *)
(***************************************************************************)
EXTENDS Integers, Sequences

Const(n)        == [op |-> "const", arg |-> n]
Ref(x)          == [op |-> "ref", arg |-> x]
And(l, r)       == [op |-> "and", l |-> l, r |-> r]
Or(l, r)        == [op |-> "or", l |-> l, r |-> r]
Not(l)          == [op |-> "not", l |-> l]
Compare(op, l, r) == [op |-> op, l |-> l, r |-> r]     \* "=", "!=", "<", "<="

(* make_depend_on: the symbols and choices in an expression.               *)
RECURSIVE Names(_)
Names(e) ==
    CASE e.op = "const" -> {}
      [] e.op = "ref"   -> {e.arg}
      [] e.op = "not"   -> Names(e.l)
      [] OTHER          -> Names(e.l) \cup Names(e.r)
=============================================================================
