---------------------------- MODULE KconfigNodes ----------------------------
(***************************************************************************)
(* Shorthands for the nodes of a Kconfig tree as helper/kconfig2json.py    *)
(* writes them: an absent field is the empty expression.  Of the ranges    *)
(* only the conditions are kept.                                           *)
(***************************************************************************)
EXTENDS KconfigExpr

Yes == <<Tri(2)>>

\* no text has a backslash or a = in it
AsWritten == << >>

Bare == [cond |-> <<>>, dep |-> <<>>, rev_dep |-> <<>>,
         weak_rev_dep |-> <<>>, defaults |-> <<>>, ranges |-> <<>>]

\* an entry of make_default_list(): a constant, another symbol, an expression
Constant(x, cond) ==
    [kind |-> "constant", name |-> "", default |-> x, expr |-> <<>>, cond |-> cond]
Reference(name, x, cond) ==
    [kind |-> "reference", name |-> name, default |-> x, expr |-> <<>>, cond |-> cond]
Expression(expr, cond) ==
    [kind |-> "expression", name |-> "", default |-> 0, expr |-> expr, cond |-> cond]
=============================================================================
