---------------------------- MODULE KconfigGrammar ----------------------------
(***************************************************************************)
(* All expressions of at most MaxTokens tokens the Kconfig grammar can     *)
(* print, under every valuation of their symbols.  A step appends a token  *)
(* in postfix order; shape holds, for each operand still on the stack,     *)
(* whether it is a lone symbol or constant ("term") or a compound.  A      *)
(* relation has operands of one type: two bools or tristates, or an int or *)
(* a string with a literal of its type.                                    *)
(***************************************************************************)
EXTENDS KconfigExpr

CONSTANTS
    Stateful,      \* names of the bool and tristate symbols
    Levels,        \* the values they take: {0, 2}, or 0..2 with modules
    Ints,          \* names of the int symbols
    Numbers,       \* values and literals of ints
    Strings,       \* names of the string symbols
    Texts,         \* values of strings
    Literals,      \* the string literals they are compared with
    MaxTokens      \* bound on the length of an expression

(* A name is that of one symbol; values of bools and tristates are n, m, y. *)
ASSUME GrammarTyped ==
    /\ Levels \subseteq 0..2
    /\ Numbers \subseteq Nat /\ Texts \subseteq Nat /\ Literals \subseteq Nat
    /\ Stateful \cap (Ints \cup Strings) = {} /\ Ints \cap Strings = {}
    /\ MaxTokens \in Nat

VARIABLES expr, shape, env

vars == <<expr, shape, env>>

Init ==
    /\ expr = <<>>
    /\ shape = <<>>
    /\ \E s \in [Stateful -> Levels], i \in [Ints -> Numbers],
          t \in [Strings -> Texts] :
          env = [name \in Stateful \cup Ints \cup Strings |->
                    CASE name \in Stateful -> s[name]
                      [] name \in Ints     -> i[name]
                      [] name \in Strings  -> t[name]]

Room(n) == Len(expr) + n <= MaxTokens

Operand ==
    /\ Room(1)
    /\ \/ \E name \in Stateful : expr' = Append(expr, Sym(name))
       \/ \E n \in Levels : expr' = Append(expr, Tri(n))
       \/ \E name \in Ints : expr' = Append(expr, LoneNumber(Sym(name)))
       \/ \E n \in Numbers : expr' = Append(expr, LoneNumber(Num(n)))
       \/ \E name \in Strings : expr' = Append(expr, LoneText(Sym(name)))
       \/ \E n \in Literals : expr' = Append(expr, LoneText(Str(n)))
    /\ shape' = <<"term">> \o shape

Comparison ==
    /\ Room(3)
    /\ \E op \in {"=", "!=", "<"} :
         \/ \E x \in Ints, n \in Numbers :
              expr' = expr \o <<Sym(x), Num(n), Op(op)>>
         \/ /\ op # "<"
            /\ \E x \in Strings, n \in Literals :
                 expr' = expr \o <<Sym(x), Str(n), Op(op)>>
         \/ /\ op # "<"
            /\ \E x \in Stateful :
                 \/ \E y \in Stateful : expr' = expr \o <<Sym(x), Sym(y), Op(op)>>
                 \/ \E n \in Levels : expr' = expr \o <<Sym(x), Tri(n), Op(op)>>
    /\ shape' = <<"compound">> \o shape

Negation ==
    /\ Room(1)
    /\ shape # <<>>
    /\ expr' = Append(expr, Op(IF shape[1] = "term" THEN "!" ELSE "!()"))
    /\ shape' = <<"compound">> \o Tail(shape)

Connective ==
    /\ Room(1)
    /\ Len(shape) >= 2
    /\ \E op \in {"&&", "||"} : expr' = Append(expr, Op(op))
    /\ shape' = <<"compound">> \o SubSeq(shape, 3, Len(shape))

Next == (Operand \/ Comparison \/ Negation \/ Connective) /\ UNCHANGED env

Spec == Init /\ [][Next]_vars

Complete == Len(shape) = 1

Uses(op) == \E i \in DOMAIN expr : expr[i].kind = "operator" /\ expr[i].arg = op

(* No value and no constant is m.                                          *)
OverBooleans ==
    /\ \A x \in Stateful : env[x] \in {0, 2}
    /\ \A i \in DOMAIN expr : expr[i].kind = "constant" => expr[i].arg # 1

(* An int or a string by itself is n in Kconfig, and true in JavaScript    *)
(* unless it is 0 or empty: where one is not, the two part.                *)
LonesAreZero ==
    \A i \in DOMAIN expr :
        expr[i].kind \in Lone => getConfiguredValue(env, expr[i]) = 0

(* Over y and n alone evaluateExpr returns the value of the Kconfig        *)
(* language, unless a number or a text stands by itself: what the view     *)
(* shows and what the build computes agree.                                *)
ExactOnBooleans ==
    Complete /\ OverBooleans /\ LonesAreZero
        => evaluateExpr(expr, env) = KconfigValue(expr, env)

(* With tristates in it, an expression without a negated parenthesis still *)
(* decides a dependency as the language does, whatever its value: a widget *)
(* is shown exactly when the symbol is assignable.                         *)
ConditionsDecided ==
    Complete /\ ~Uses("!()") /\ LonesAreZero
        => (evaluateCond(expr, env) <=> KconfigValue(expr, env) # 0)

(* So are the conditions with a number or a text by itself.  (It fails: a  *)
(* condition that is the name of an int symbol of value 12 is n in Kconfig *)
(* and holds in the view, main.js:1186.)                                   *)
LonesDecided ==
    Complete /\ ~Uses("!()")
        => (evaluateCond(expr, env) <=> KconfigValue(expr, env) # 0)
=============================================================================
