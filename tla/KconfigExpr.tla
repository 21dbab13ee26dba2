---------------------------- MODULE KconfigExpr ----------------------------
(***************************************************************************)
(* Kconfig expressions as the configuration view evaluates them.           *)
(*                                                                         *)
(* The webview holds an expression as text, replaces every symbol in it by *)
(* its current value and lets JavaScript evaluate the result               *)
(* (resources/config/main.js, evaluateExpr).  Here an expression is the    *)
(* sequence of its tokens in postfix order; evaluating it is a fold of the *)
(* tokens over a stack.  The same tokens under the Kconfig language's own  *)
(* rules (n, m, y are 0, 1, 2; && is min, || is max, ! is 2 - x) give the  *)
(* reference value.                                                        *)
(*                                                                         *)
(* Values are naturals: 0, 1, 2 for n, m, y, the number itself for int     *)
(* symbols, and for a string an index: 0 is the text "0", 1 the empty      *)
(* text.                                                                   *)
(***************************************************************************)
EXTENDS Integers, Sequences

(* Tokens.  A quoted string literal is a token of its own: the code's      *)
(* pattern [\w]+ finds the word inside the quotes and takes it for the     *)
(* name of a symbol.                                                       *)
Sym(name) == [kind |-> "symbol", arg |-> name]
Tri(n)    == [kind |-> "constant", arg |-> n]      \* n, m or y
Num(n)    == [kind |-> "number", arg |-> n]
Str(n)    == [kind |-> "string", arg |-> n]
Op(name)  == [kind |-> "operator", arg |-> name]

(* An int or a string, symbol or literal, that no relation has for an      *)
(* operand: Kconfig takes it for n, JavaScript for a number or a text.     *)
LoneNumber(t) == [kind |-> "lone number", arg |-> t]
LoneText(t)   == [kind |-> "lone text", arg |-> t]
Lone == {"lone number", "lone text"}

IsExpr(s) ==
    /\ s \in Seq({s[i] : i \in DOMAIN s})
    /\ \A i \in DOMAIN s :
          \/ s[i].kind \in {"symbol", "constant", "number", "string", "operator"}
          \/ s[i].kind \in Lone /\ s[i].arg.kind \in {"symbol", "number", "string"}

ZeroText == 0
EmptyText == 1
Quoted == -8      \* a text in quotes, not empty: neither false nor a number

SymbolsIn(s) ==
    {s[i].arg : i \in {j \in DOMAIN s : s[j].kind = "symbol"}}
      \cup {s[i].arg.arg : i \in {j \in DOMAIN s : /\ s[j].kind \in Lone
                                                  /\ s[j].arg.kind = "symbol"}}

Unary == {"!", "!()"}        \* !SYMBOL and !( <expr> )
Binary == {"&&", "||", "=", "!=", "<"}

Truth(b) == IF b THEN 2 ELSE 0

\* mutant of JsUnary: "!" reads 1 - x, as if values were booleans
JsUnaryBoolean(op, x) == IF op = "!" THEN 1 - x ELSE Truth(x = 0)

(* What JavaScript computes.  evaluateExpr rewrites "!<digit>" to          *)
(* "(2-<digit>)" and leaves every other operator to JavaScript, whose &&   *)
(* and || return one of their operands and whose ! of a text or of a       *)
(* parenthesised expression is a boolean; true and false become 2 and 0 in *)
(* the end.                                                                *)
JsUnary(op, x) ==
    CASE op = "!"   -> IF x = Quoted THEN 0 ELSE 2 - x
      [] op = "!()" -> Truth(x = 0)

JsBinary(op, x, y) ==
    CASE op = "&&" -> IF x = 0 THEN x ELSE y
      [] op = "||" -> IF x = 0 THEN y ELSE x
      [] op = "="  -> Truth(x = y)
      [] op = "!=" -> Truth(x # y)
      [] op = "<"  -> Truth(x < y)

(* What the Kconfig language says.                                         *)
KconfigUnary(op, x) == 2 - x

KconfigBinary(op, x, y) ==
    CASE op = "&&" -> IF x < y THEN x ELSE y
      [] op = "||" -> IF x < y THEN y ELSE x
      [] OTHER     -> JsBinary(op, x, y)

(* One step of the fold: the stack after a token, its top first.           *)
Push(stack, token, Operand(_), UnaryOp(_, _), BinaryOp(_, _, _)) ==
    IF token.kind # "operator" THEN <<Operand(token)>> \o stack
    ELSE IF token.arg \in Unary
         THEN <<UnaryOp(token.arg, stack[1])>> \o Tail(stack)
         ELSE <<BinaryOp(token.arg, stack[2], stack[1])>>
                \o SubSeq(stack, 3, Len(stack))

(* env[name] is what getConfiguredValue returns for a symbol of the        *)
(* database.  A name outside of it, and so the word of a string literal,   *)
(* is replaced by 0; an empty literal has no word.                         *)
Configured(env, token) ==
    CASE token.kind = "symbol" -> IF token.arg \in DOMAIN env
                                  THEN env[token.arg] ELSE 0
      [] token.kind \in {"constant", "number"} -> token.arg
      [] token.kind = "string" -> IF token.arg = EmptyText
                                  THEN EmptyText ELSE ZeroText

getConfiguredValue(env, token) ==
    CASE token.kind = "lone number" -> Configured(env, token.arg)
      [] token.kind = "lone text"   -> IF Configured(env, token.arg) = EmptyText
                                       THEN 0 ELSE Quoted
      [] OTHER                      -> Configured(env, token)

(* "!12" becomes "(2-1)2", a syntax error, which makes the whole n.        *)
Unreadable(s, env) ==
    \E i \in DOMAIN s :
        /\ s[i].kind = "lone number" /\ getConfiguredValue(env, s[i]) > 9
        /\ i + 1 \in DOMAIN s /\ s[i + 1].kind = "operator" /\ s[i + 1].arg = "!"

evaluateExpr(s, env) ==
    LET stack[k \in 0..Len(s)] ==
          IF k = 0 THEN <<>>
          ELSE Push(stack[k - 1], s[k],
                    LAMBDA t : getConfiguredValue(env, t), JsUnary, JsBinary)
    IN  IF Unreadable(s, env) THEN 0 ELSE stack[Len(s)][1]

evaluateCond(s, env) == evaluateExpr(s, env) # 0

KconfigValue(s, env) ==
    LET operand(t) == CASE t.kind = "string" -> t.arg
                        [] t.kind \in Lone   -> 0
                        [] OTHER             -> getConfiguredValue(env, t)
        stack[k \in 0..Len(s)] ==
          IF k = 0 THEN <<>>
          ELSE Push(stack[k - 1], s[k], operand, KconfigUnary, KconfigBinary)
    IN  stack[Len(s)][1]
=============================================================================
