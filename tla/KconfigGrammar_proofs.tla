------------------------ MODULE KconfigGrammar_proofs ------------------------
(***************************************************************************)
(* What the view computes of an expression and what the Kconfig language   *)
(* says of it, for expressions of every length.                            *)
(*                                                                         *)
(* A token appended to an expression acts on the stack that its other      *)
(* tokens leave (JsAppended, KconfigAppended).  So the two stacks of the   *)
(* two evaluations are compared along the grammar, which is the induction: *)
(* one position of theirs for each operand in shape.                       *)
(***************************************************************************)
EXTENDS KconfigGrammar, KconfigExpr_proofs

(* What a token does to a stack.                                           *)

(* The first n values of u, none, one or two, have given way to v.         *)
Topped(t, v, u, n) ==
    /\ Len(t) = Len(u) - n + 1
    /\ t[1] = v
    /\ \A i \in 1..(Len(u) - n) : t[i + 1] = u[i + n]

LEMMA OnTop ==
    ASSUME NEW T, NEW u \in Seq(T), NEW v \in T, NEW n \in 0..Len(u),
           NEW w \in Seq(T), Len(w) = Len(u) - n,
           \A i \in 1..Len(w) : w[i] = u[i + n]
    PROVE  <<v>> \o w \in Seq(T) /\ Topped(<<v>> \o w, v, u, n)
<1>1. PICK x : x = <<v>>
  OBVIOUS
<1>2. x \in Seq(T) /\ Len(x) = 1 /\ x[1] = v
  BY <1>1
<1>3. /\ x \o w \in Seq(T)
      /\ Len(x \o w) = Len(x) + Len(w)
      /\ \A i \in 1..(Len(x) + Len(w)) :
            (x \o w)[i] = IF i <= Len(x) THEN x[i] ELSE w[i - Len(x)]
  BY <1>2, ConcatProperties
<1>4. Len(u) \in Nat /\ Len(w) \in Nat
  BY LenProperties
<1>5. (x \o w)[1] = v
  BY <1>2, <1>3, <1>4
<1>6. ASSUME NEW i \in 1..Len(w)
      PROVE  (x \o w)[i + 1] = u[i + n]
  <2>1. i + 1 \in 1..(1 + Len(w)) /\ ~(i + 1 <= 1) /\ (i + 1) - 1 = i
    BY <1>4
  <2>2. QED
    BY <1>2, <1>3, <2>1
<1>7. Len(x \o w) = Len(u) - n + 1
  BY <1>2, <1>3, <1>4
<1>8. QED
  BY <1>1, <1>3, <1>5, <1>6, <1>7 DEF Topped

LEMMA NoneReplaced ==
    ASSUME NEW T, NEW u \in Seq(T), NEW v \in T
    PROVE  <<v>> \o u \in Seq(T) /\ Topped(<<v>> \o u, v, u, 0)
<1>1. /\ 0 \in 0..Len(u) /\ Len(u) = Len(u) - 0
      /\ \A i \in 1..Len(u) : u[i] = u[i + 0]
  BY LenProperties
<1>2. QED
  BY <1>1, OnTop

LEMMA OneReplaced ==
    ASSUME NEW T, NEW u \in Seq(T), NEW v \in T, Len(u) >= 1
    PROVE  <<v>> \o Tail(u) \in Seq(T) /\ Topped(<<v>> \o Tail(u), v, u, 1)
<1>1. Len(u) \in Nat /\ u # <<>>
  BY LenProperties
<1>2. PICK w : w = Tail(u)
  OBVIOUS
<1>3. /\ w \in Seq(T) /\ Len(w) = Len(u) - 1
      /\ \A i \in 1..Len(w) : w[i] = u[i + 1]
  BY <1>1, <1>2, HeadTailProperties
<1>4. 1 \in 0..Len(u)
  BY <1>1
<1>5. QED
  BY <1>2, <1>3, <1>4, OnTop

LEMMA TwoReplaced ==
    ASSUME NEW T, NEW u \in Seq(T), NEW v \in T, Len(u) >= 2
    PROVE  /\ <<v>> \o SubSeq(u, 3, Len(u)) \in Seq(T)
           /\ Topped(<<v>> \o SubSeq(u, 3, Len(u)), v, u, 2)
<1>1. Len(u) \in Nat /\ \A i \in 3..Len(u) : u[i] \in T
  BY LenProperties, ElementOfSeq
<1>2. PICK w : w = SubSeq(u, 3, Len(u))
  OBVIOUS
<1>3. /\ w \in Seq(T)
      /\ Len(w) = IF 3 <= Len(u) THEN Len(u) - 3 + 1 ELSE 0
      /\ \A i \in 1..(Len(u) - 3 + 1) : w[i] = u[3 + i - 1]
  BY <1>1, <1>2, SubSeqProperties
<1>4. Len(w) = Len(u) - 2
  <2>1. PICK n, m : n = Len(u) /\ m = Len(w)
    OBVIOUS
  <2>2. n \in Nat /\ n >= 2 /\ m = IF 3 <= n THEN n - 3 + 1 ELSE 0
    BY <1>1, <1>3, <2>1
  <2>3. QED
    BY <2>1, <2>2
<1>5. ASSUME NEW i \in 1..Len(w)
      PROVE  w[i] = u[i + 2]
  <2>1. i \in 1..(Len(u) - 3 + 1) /\ 3 + i - 1 = i + 2
    BY <1>1, <1>4
  <2>2. QED
    BY <1>3, <2>1
<1>6. 2 \in 0..Len(u)
  BY <1>1
<1>7. QED
  BY <1>2, <1>3, <1>4, <1>5, <1>6, OnTop

(* What stands for an operand, in JavaScript and in Kconfig.               *)
Meaning(js, t, en) ==
    CASE ~js /\ t.kind = "string" -> t.arg
      [] ~js /\ t.kind \in Lone   -> 0
      [] OTHER                    -> getConfiguredValue(en, t)

Negative(js, op, x) == IF js THEN JsUnary(op, x) ELSE KconfigUnary(op, x)

Combined(js, op, x, y) ==
    IF js THEN JsBinary(op, x, y) ELSE KconfigBinary(op, x, y)

LEMMA OperandPushed ==
    ASSUME NEW js \in BOOLEAN, NEW u, NEW t, NEW en, t.kind # "operator"
    PROVE  PushIn(js, u, t, en) = <<Meaning(js, t, en)>> \o u
BY DEF PushIn, JsPush, KconfigPush, Push, Meaning, Lone

LEMMA UnaryPushed ==
    ASSUME NEW js \in BOOLEAN, NEW u, NEW op \in Unary, NEW en
    PROVE  PushIn(js, u, Op(op), en) = <<Negative(js, op, u[1])>> \o Tail(u)
<1>1. Op(op).kind = "operator" /\ Op(op).arg = op
  BY DEF Op
<1>2. QED
  BY <1>1 DEF PushIn, JsPush, KconfigPush, Push, Negative

LEMMA BinaryPushed ==
    ASSUME NEW js \in BOOLEAN, NEW u, NEW op \in Binary, NEW en
    PROVE  PushIn(js, u, Op(op), en)
              = <<Combined(js, op, u[2], u[1])>> \o SubSeq(u, 3, Len(u))
<1>1. Op(op).kind = "operator" /\ Op(op).arg = op /\ op \notin Unary
  BY DEF Op, Unary, Binary
<1>2. QED
  BY <1>1 DEF PushIn, JsPush, KconfigPush, Push, Combined
-----------------------------------------------------------------------------
(* The two stacks of expr, compared operand by operand.                    *)

Related ==
    [kind : {"symbol"}, arg : Stateful \cup Ints \cup Strings]
      \cup [kind : {"constant"}, arg : Levels]
      \cup [kind : {"number"}, arg : Numbers]
      \cup [kind : {"string"}, arg : Literals]

Token ==
    Related
      \cup [kind : Lone, arg : Related]
      \cup [kind : {"operator"}, arg : Unary \cup Binary]

(* Over y and n the two stacks are the same.                               *)
Exactly(J, K, sh) == \A i \in 1..Len(sh) : J[i] = K[i] /\ J[i] \in {0, 2}

(* Else the same operands are n, and lone symbols are the same.            *)
Roughly(J, K, sh) ==
    \A i \in 1..Len(sh) : (J[i] = 0 <=> K[i] = 0) /\ (sh[i] = "term" => J[i] = K[i])

SameHeight(J, K, sh) == Len(J) = Len(sh) /\ Len(K) = Len(sh)

Aligned(J, K, sh) == J \in Seq(0..2) /\ K \in Seq(0..2) /\ SameHeight(J, K, sh)

(* The inductive invariant: where no number and no text by itself sets the *)
(* two apart, they are aligned.                                            *)
GTyped ==
    /\ expr \in Seq(Token)
    /\ shape \in Seq({"term", "compound"})
    /\ env \in [Stateful \cup Ints \cup Strings -> Nat]
    /\ \A x \in Stateful : env[x] \in 0..2

GAligned ==
    /\ Aligned(StackIn(TRUE, expr, env), StackIn(FALSE, expr, env), shape)
    /\ OverBooleans
          => Exactly(StackIn(TRUE, expr, env), StackIn(FALSE, expr, env), shape)
    /\ ~Uses("!()")
          => Roughly(StackIn(TRUE, expr, env), StackIn(FALSE, expr, env), shape)

GInv == GTyped /\ (LonesAreZero => GAligned)

(* New values on top of the two stacks, for as many old ones.              *)
LEMMA Compare ==
    ASSUME NEW J, NEW K, NEW sh, NEW n \in Nat, Len(sh) \in Nat, n =< Len(sh),
           SameHeight(J, K, sh),
           NEW J2, NEW j, Topped(J2, j, J, n),
           NEW K2, NEW k, Topped(K2, k, K, n),
           NEW sh2, NEW x, Topped(sh2, x, sh, n)
    PROVE  /\ SameHeight(J2, K2, sh2)
           /\ Exactly(J, K, sh) /\ j = k /\ j \in {0, 2} => Exactly(J2, K2, sh2)
           /\ Roughly(J, K, sh) /\ (j = 0 <=> k = 0) /\ (x = "term" => j = k)
                 => Roughly(J2, K2, sh2)
<1>1. Len(sh2) = Len(sh) - n + 1 /\ SameHeight(J2, K2, sh2)
  BY DEF Topped, SameHeight
<1>2. J2[1] = j /\ K2[1] = k /\ sh2[1] = x
  BY DEF Topped
<1>3. ASSUME NEW i \in 1..Len(sh2), i # 1
      PROVE  /\ i - 1 + n \in 1..Len(sh)
             /\ J2[i] = J[i - 1 + n] /\ K2[i] = K[i - 1 + n]
             /\ sh2[i] = sh[i - 1 + n]
  <2>1. /\ i - 1 \in 1..(Len(sh) - n) /\ (i - 1) + 1 = i
        /\ i - 1 + n \in 1..Len(sh)
    BY <1>1, <1>3
  <2>2. QED
    BY <2>1 DEF Topped, SameHeight
<1>4. Exactly(J, K, sh) /\ j = k /\ j \in {0, 2} => Exactly(J2, K2, sh2)
  BY <1>2, <1>3 DEF Exactly
<1>5. Roughly(J, K, sh) /\ (j = 0 <=> k = 0) /\ (x = "term" => j = k)
         => Roughly(J2, K2, sh2)
  BY <1>2, <1>3 DEF Roughly
<1>6. QED
  BY <1>1, <1>4, <1>5

Compares(r, s, a, b, op) == r = s \o <<a, b, Op(op)>>

Leaves(js, s, en, u) == u = StackIn(js, s, en)

Verdict(js, op, a, b, en) ==
    JsBinary(op, Meaning(js, a, en), Meaning(js, b, en))

(* A comparison is decided at once: n or y, and the rest of the stack as   *)
(* it was.                                                                 *)
LEMMA Compared ==
    ASSUME NEW js \in BOOLEAN, NEW s \in Seq(Token), NEW en,
           NEW a \in Token, NEW b \in Token, NEW op \in {"=", "!=", "<"},
           a.kind # "operator", b.kind # "operator",
           Meaning(js, a, en) \in Nat, Meaning(js, b, en) \in Nat,
           NEW r, Compares(r, s, a, b, op),
           NEW u \in Seq(0..2), Leaves(js, s, en, u)
    PROVE  /\ r \in Seq(Token)
           /\ Verdict(js, op, a, b, en) \in {0, 2}
           /\ StackIn(js, r, en) \in Seq(0..2)
           /\ Topped(StackIn(js, r, en), Verdict(js, op, a, b, en), u, 0)
<1>0. /\ u = StackIn(js, s, en) /\ r = s \o <<a, b, Op(op)>>
  BY DEF Leaves, Compares
<1> DEFINE v == Verdict(js, op, a, b, en)
<1>1. PICK x, y : x = Meaning(js, a, en) /\ y = Meaning(js, b, en)
  OBVIOUS
<1>2. PICK s1, s2 : s1 = Append(s, a) /\ s2 = Append(s1, b)
  OBVIOUS
<1>3. Op(op) \in Token /\ op \in Binary
  BY DEF Op, Token, Binary
<1>4. s1 \in Seq(Token) /\ s2 \in Seq(Token)
  BY <1>2, AppendProperties
<1>5. r = Append(s2, Op(op))
  BY <1>0, <1>2, <1>3, <1>4
<1>6. PICK u1, u2, u3 :
         /\ u1 = StackIn(js, s1, en)
         /\ u2 = StackIn(js, s2, en)
         /\ u3 = StackIn(js, r, en)
  OBVIOUS
<1>7. u1 = <<x>> \o u
  <2>1. u1 = PushIn(js, u, a, en)
    BY <1>0, <1>2, <1>6, StackAppended
  <2>2. QED
    BY <1>1, <2>1, OperandPushed
<1>8. u2 = <<y>> \o u1
  <2>1. u2 = PushIn(js, u1, b, en)
    BY <1>2, <1>4, <1>6, StackAppended
  <2>2. QED
    BY <1>1, <2>1, OperandPushed
<1>9. u3 = <<Combined(js, op, u2[2], u2[1])>> \o SubSeq(u2, 3, Len(u2))
  <2>1. u3 = PushIn(js, u2, Op(op), en)
    BY <1>3, <1>4, <1>5, <1>6, StackAppended
  <2>2. QED
    BY <1>3, <2>1, BinaryPushed
<1>10. Len(u) \in Nat /\ \A i \in 1..Len(u) : u[i] \in 0..2
  BY LenProperties, ElementOfSeq
<1>11. u1 \in Seq(Nat) /\ Topped(u1, x, u, 0)
  <2>1. u \in Seq(Nat) /\ x \in Nat
    BY <1>1
  <2>2. QED
    BY <1>7, <2>1, NoneReplaced
<1>12. u2 \in Seq(Nat) /\ Topped(u2, y, u1, 0)
  BY <1>1, <1>8, <1>11, NoneReplaced
<1>13. Len(u1) = Len(u) + 1 /\ Len(u2) = Len(u) + 2
  BY <1>10, <1>11, <1>12 DEF Topped
<1>14. /\ u1[1] = x /\ u2[1] = y
       /\ \A i \in 1..Len(u) : u1[i + 1] = u[i]
       /\ \A i \in 1..(Len(u) + 1) : u2[i + 1] = u1[i]
  BY <1>10, <1>11, <1>12, <1>13 DEF Topped
<1>15. u2[2] = x
  <2>1. 1 \in 1..(Len(u) + 1) /\ 1 + 1 = 2
    BY <1>10
  <2>2. QED
    BY <1>14, <2>1
<1>16. v \in {0, 2} /\ Combined(js, op, u2[2], u2[1]) = v
  BY <1>1, <1>14, <1>15 DEF Verdict, Combined, KconfigBinary, JsBinary, Truth
<1> HIDE DEF v
<1>17. u3 \in Seq(Nat) /\ Topped(u3, v, u2, 2)
  <2>1. v \in Nat /\ Len(u2) >= 2
    BY <1>10, <1>13, <1>16
  <2>2. QED
    BY <1>9, <1>12, <1>16, <2>1, TwoReplaced
<1>18. Len(u3) = Len(u) + 1 /\ u3[1] = v
  BY <1>10, <1>13, <1>17 DEF Topped
<1>19. ASSUME NEW i \in 1..Len(u)
       PROVE  u3[i + 1] = u[i]
  <2>1. /\ i \in 1..(Len(u2) - 2) /\ i + 1 \in 1..(Len(u) + 1)
        /\ (i + 1) + 1 = i + 2
    BY <1>10, <1>13
  <2>2. u3[i + 1] = u2[i + 2]
    BY <1>17, <2>1 DEF Topped
  <2>3. u2[(i + 1) + 1] = u1[i + 1] /\ u1[i + 1] = u[i]
    BY <1>14, <2>1
  <2>4. QED
    BY <2>1, <2>2, <2>3
<1>20. Topped(u3, v, u, 0)
  BY <1>10, <1>18, <1>19 DEF Topped
<1>21. u3 \in Seq(0..2)
  <2>1. ASSUME NEW i \in 1..Len(u3)
        PROVE  u3[i] \in 0..2
    <3>1. CASE i = 1
      BY <1>16, <1>18, <3>1
    <3>2. CASE i # 1
      <4>1. i - 1 \in 1..Len(u) /\ (i - 1) + 1 = i
        BY <1>10, <1>18, <3>2
      <4>2. QED
        BY <1>10, <1>19, <4>1
    <3>3. QED
      BY <3>1, <3>2
  <2>2. u3 \in Seq(Nat)
    BY <1>17
  <2>3. QED
    BY <2>1, <2>2
<1>22. r \in Seq(Token)
  BY <1>3, <1>4, <1>5, AppendProperties
<1>23. QED
  BY <1>6, <1>16, <1>20, <1>21, <1>22 DEF v
-----------------------------------------------------------------------------
(* One step of the grammar.                                                *)

LEMMA TokensStay ==
    ASSUME expr \in Seq(Token), expr' \in Seq(Token), UNCHANGED env,
           Len(expr') >= Len(expr), \A i \in 1..Len(expr) : expr'[i] = expr[i]
    PROVE  /\ Uses("!()") => Uses("!()")'
           /\ OverBooleans' => OverBooleans
           /\ LonesAreZero' => LonesAreZero
<1>1. DOMAIN expr = 1..Len(expr) /\ DOMAIN expr' = 1..Len(expr')
  OBVIOUS
<1>2. Len(expr) \in Nat /\ Len(expr') \in Nat
  BY LenProperties
<1>3. \A i \in DOMAIN expr : i \in DOMAIN expr' /\ expr'[i] = expr[i]
  BY <1>1, <1>2
<1>4. QED
  BY <1>3 DEF Uses, OverBooleans, LonesAreZero

(* The operands of relations, and those that stand by themselves.          *)
LEMMA RelatedMean ==
    ASSUME GTyped, NEW t \in Related
    PROVE  /\ Meaning(TRUE, t, env) \in Nat
           /\ t.kind \notin Lone /\ t.kind # "operator" /\ t \in Token
           /\ Literals \subseteq {EmptyText}
                 => Meaning(FALSE, t, env) = Meaning(TRUE, t, env)
<1>1. CASE t.kind = "symbol"
  BY <1>1 DEF Related, Token, Meaning, getConfiguredValue, Configured, GTyped, Lone
<1>2. CASE t.kind = "constant"
  <2>1. t.arg \in Levels /\ t \in Token
    <3>1. t \in [kind : {"constant"}, arg : Levels]
      BY <1>2 DEF Related
    <3>2. QED
      BY <3>1 DEF Token
  <2>2. t.arg \in Nat
    <3>1. Levels \subseteq Nat
      BY GrammarTyped
    <3>2. QED
      BY <2>1, <3>1
  <2>3. QED
    <3>1. t.kind \notin Lone /\ t.kind # "operator" /\ t.kind # "string"
      BY <1>2 DEF Lone
    <3>2. Configured(env, t) = t.arg
      BY <1>2 DEF Configured
    <3>3. getConfiguredValue(env, t) = t.arg
      BY <1>2, <3>2 DEF getConfiguredValue
    <3>4. \A js \in BOOLEAN : Meaning(js, t, env) = t.arg
      BY <3>1, <3>3 DEF Meaning
    <3>5. QED
      BY <2>1, <2>2, <3>1, <3>4
<1>3. CASE t.kind = "number"
  BY <1>3, GrammarTyped
     DEF Related, Token, Meaning, getConfiguredValue, Configured, Lone
<1>4. CASE t.kind = "string"
  BY <1>4 DEF Related, Token, Meaning, getConfiguredValue, Configured, Lone,
              EmptyText, ZeroText
<1>5. QED
  BY <1>1, <1>2, <1>3, <1>4 DEF Related

(* What Operand appends.                                                   *)
LEMMA OperandChosen ==
    ASSUME GTyped, Operand
    PROVE  \E t \in Token :
              /\ expr' = Append(expr, t)
              /\ \/ t.kind = "symbol" /\ t.arg \in Stateful
                 \/ t.kind = "constant" /\ t.arg \in Levels
                 \/ t.kind \in Lone
<1>1. CASE \E name \in Stateful : expr' = Append(expr, Sym(name))
  BY <1>1 DEF Sym, Token, Related
<1>2. CASE \E n \in Levels : expr' = Append(expr, Tri(n))
  BY <1>2 DEF Tri, Token, Related
<1>3. ASSUME NEW u \in Related
      PROVE  /\ LoneNumber(u) \in Token /\ LoneNumber(u).kind \in Lone
             /\ LoneText(u) \in Token /\ LoneText(u).kind \in Lone
  <2>1. "lone number" \in Lone /\ "lone text" \in Lone
    BY DEF Lone
  <2>2. \A k \in Lone : [kind |-> k, arg |-> u] \in [kind : Lone, arg : Related]
    BY <1>3
  <2>3. QED
    BY <2>1, <2>2 DEF LoneNumber, LoneText, Token
<1>4. /\ \A x \in Stateful \cup Ints \cup Strings : Sym(x) \in Related
      /\ \A n \in Numbers : Num(n) \in Related
      /\ \A n \in Literals : Str(n) \in Related
  BY DEF Related, Sym, Num, Str
<1>5. CASE \/ \E name \in Ints : expr' = Append(expr, LoneNumber(Sym(name)))
           \/ \E n \in Numbers : expr' = Append(expr, LoneNumber(Num(n)))
  BY <1>3, <1>4, <1>5
<1>6. CASE \/ \E name \in Strings : expr' = Append(expr, LoneText(Sym(name)))
           \/ \E n \in Literals : expr' = Append(expr, LoneText(Str(n)))
  BY <1>3, <1>4, <1>6
<1>7. QED
  BY <1>1, <1>2, <1>3, <1>4, <1>5, <1>6 DEF Operand

(* What Comparison appends.                                                *)
LEMMA ComparisonChosen ==
    ASSUME GTyped, Comparison
    PROVE  \E op \in {"=", "!=", "<"}, a, b \in Related :
              expr' = expr \o <<a, b, Op(op)>>
<1>1. /\ \A x \in Stateful \cup Ints \cup Strings : Sym(x) \in Related
      /\ \A n \in Levels : Tri(n) \in Related
      /\ \A n \in Numbers : Num(n) \in Related
      /\ \A n \in Literals : Str(n) \in Related
  BY DEF Related, Sym, Tri, Num, Str
<1>2. PICK op \in {"=", "!=", "<"} :
         \/ \E x \in Ints, n \in Numbers :
               expr' = expr \o <<Sym(x), Num(n), Op(op)>>
         \/ \E x \in Strings, n \in Literals :
               expr' = expr \o <<Sym(x), Str(n), Op(op)>>
         \/ \E x \in Stateful :
               \/ \E y \in Stateful : expr' = expr \o <<Sym(x), Sym(y), Op(op)>>
               \/ \E n \in Levels : expr' = expr \o <<Sym(x), Tri(n), Op(op)>>
  BY DEF Comparison
<1>3. QED
  BY <1>1, <1>2, Zenon

(* The tokens that were there stay, whatever step is taken.                *)
LEMMA ComparisonGrows ==
    ASSUME GTyped, NEW op \in {"=", "!=", "<"}, NEW a \in Related, NEW b \in Related,
           expr' = expr \o <<a, b, Op(op)>>
    PROVE  /\ expr' \in Seq(Token)
           /\ Len(expr') >= Len(expr)
           /\ \A i \in 1..Len(expr) : expr'[i] = expr[i]
<1>1. PICK w : w = <<a, b, Op(op)>>
  OBVIOUS
<1>2. w \in Seq(Token) /\ Len(w) = 3
  <2>1. Op(op) \in Token /\ a \in Token /\ b \in Token
    BY DEF Op, Token, Binary
  <2>2. QED
    BY <1>1, <2>1
<1>3. /\ expr' \in Seq(Token)
      /\ Len(expr') = Len(expr) + 3
      /\ \A i \in 1..(Len(expr) + Len(w)) :
            expr'[i] = IF i <= Len(expr) THEN expr[i] ELSE w[i - Len(expr)]
  BY <1>1, <1>2, ConcatProperties DEF GTyped
<1>4. Len(expr) \in Nat
  BY LenProperties DEF GTyped
<1>5. QED
  BY <1>2, <1>3, <1>4

LEMMA StepTyped ==
    ASSUME GTyped, Next
    PROVE  /\ GTyped'
           /\ Len(expr') >= Len(expr)
           /\ \A i \in 1..Len(expr) : expr'[i] = expr[i]
<1>1. UNCHANGED env
  BY DEF Next
<1>2. ASSUME NEW t \in Token, expr' = Append(expr, t)
      PROVE  /\ expr' \in Seq(Token) /\ Len(expr') >= Len(expr)
             /\ \A i \in 1..Len(expr) : expr'[i] = expr[i]
  <2>1. /\ expr' \in Seq(Token) /\ Len(expr') = Len(expr) + 1
        /\ \A i \in 1..Len(expr) : expr'[i] = expr[i]
    BY <1>2, AppendProperties DEF GTyped
  <2>2. QED
    BY <2>1, LenProperties DEF GTyped
<1>3. /\ shape \in Seq({"term", "compound"}) /\ Len(shape) \in Nat
      /\ \A v \in {"term", "compound"} :
            <<v>> \o shape \in Seq({"term", "compound"})
  BY NoneReplaced, LenProperties DEF GTyped
<1>4. CASE Operand
  <2>1. shape' \in Seq({"term", "compound"})
    BY <1>3, <1>4 DEF Operand
  <2>2. QED
    BY <1>1, <1>2, <1>4, <2>1, OperandChosen DEF GTyped
<1>5. CASE Comparison
  <2>1. shape' \in Seq({"term", "compound"})
    BY <1>3, <1>5 DEF Comparison
  <2>2. QED
    BY <1>1, <1>5, <2>1, ComparisonChosen, ComparisonGrows DEF GTyped
<1>6. CASE Negation
  <2>1. Len(shape) >= 1
    BY <1>3, <1>6, EmptySeq DEF Negation
  <2>2. shape' \in Seq({"term", "compound"})
    BY <1>3, <1>6, <2>1, OneReplaced DEF Negation
  <2>3. \E t \in Token : expr' = Append(expr, t)
    BY <1>6 DEF Negation, Op, Token, Unary
  <2>4. QED
    BY <1>1, <1>2, <2>2, <2>3 DEF GTyped
<1>7. CASE Connective
  <2>1. shape' \in Seq({"term", "compound"})
    BY <1>3, <1>7, TwoReplaced DEF Connective
  <2>2. \E t \in Token : expr' = Append(expr, t)
    BY <1>7 DEF Connective, Op, Token, Binary
  <2>3. QED
    BY <1>1, <1>2, <2>1, <2>2 DEF GTyped
<1>8. QED
  BY <1>4, <1>5, <1>6, <1>7 DEF Next

LEMMA OperandAligns ==
    ASSUME GTyped, GAligned, Operand, UNCHANGED env, LonesAreZero'
    PROVE  GAligned'
<1>1. PICK t \in Token :
         /\ expr' = Append(expr, t)
         /\ \/ t.kind = "symbol" /\ t.arg \in Stateful
            \/ t.kind = "constant" /\ t.arg \in Levels
            \/ t.kind \in Lone
  BY OperandChosen
<1>2. PICK v : v = Meaning(TRUE, t, env)
  OBVIOUS
<1>t. /\ expr' \in Seq(Token) /\ Len(expr') = Len(expr) + 1
      /\ \A i \in 1..Len(expr) : expr'[i] = expr[i]
      /\ expr'[Len(expr) + 1] = t
      /\ Len(expr) \in Nat /\ Len(expr) + 1 \in DOMAIN expr'
  BY <1>1, AppendProperties, LenProperties DEF GTyped
<1>3. /\ t \in Token /\ t.kind # "operator"
      /\ v \in 0..2
      /\ OverBooleans' => v \in {0, 2}
      /\ \A js \in BOOLEAN : Meaning(js, t, env) = v
  <2>1. CASE t.kind = "symbol" /\ t.arg \in Stateful
    BY <1>2, <2>1
       DEF Meaning, getConfiguredValue, Configured, GTyped, OverBooleans, Lone
  <2>2. CASE t.kind = "constant" /\ t.arg \in Levels
    <3>1. t.arg \in 0..2
      BY <2>2, GrammarTyped
    <3>2. OverBooleans' => t.arg # 1
      BY <1>t, <2>2 DEF OverBooleans
    <3>3. v = t.arg /\ \A js \in BOOLEAN : Meaning(js, t, env) = t.arg
      BY <1>2, <2>2 DEF Meaning, getConfiguredValue, Configured, Lone
    <3>4. QED
      BY <2>2, <3>1, <3>2, <3>3
  <2>3. CASE t.kind \in Lone
    <3>1. getConfiguredValue(env, t) = 0
      BY <1>t, <2>3 DEF LonesAreZero
    <3>2. t.kind # "string" /\ t.kind # "operator"
      BY <2>3 DEF Lone
    <3>3. \A js \in BOOLEAN : Meaning(js, t, env) = 0
      BY <2>3, <3>1, <3>2 DEF Meaning
    <3>4. v = 0
      BY <1>2, <3>3
    <3>5. QED
      BY <3>2, <3>3, <3>4
  <2>4. QED
    BY <1>1, <2>1, <2>2, <2>3
<1>4. PICK J, K : J = StackIn(TRUE, expr, env) /\ K = StackIn(FALSE, expr, env)
  OBVIOUS
<1>5. PICK J2, K2 : J2 = StackIn(TRUE, expr', env) /\ K2 = StackIn(FALSE, expr', env)
  OBVIOUS
<1>6. J2 = <<v>> \o J /\ K2 = <<v>> \o K
  <2>1. /\ J2 = PushIn(TRUE, J, t, env)
        /\ K2 = PushIn(FALSE, K, t, env)
    BY <1>1, <1>3, <1>4, <1>5, StackAppended DEF GTyped
  <2>2. QED
    BY <1>3, <2>1, OperandPushed
<1>7. /\ J \in Seq(0..2) /\ K \in Seq(0..2)
      /\ SameHeight(J, K, shape) /\ Len(J) = Len(shape) /\ Len(K) = Len(shape)
      /\ shape \in Seq({"term", "compound"}) /\ Len(shape) \in Nat
  BY <1>4, LenProperties DEF GTyped, GAligned, Aligned, SameHeight
<1>8. J2 \in Seq(0..2) /\ Topped(J2, v, J, 0)
  <2>1. v \in 0..2
    BY <1>3
  <2>2. QED
    BY <1>6, <1>7, <2>1, NoneReplaced
<1>9. K2 \in Seq(0..2) /\ Topped(K2, v, K, 0)
  <2>1. v \in 0..2
    BY <1>3
  <2>2. QED
    BY <1>6, <1>7, <2>1, NoneReplaced
<1>10. shape' \in Seq({"term", "compound"}) /\ Topped(shape', "term", shape, 0)
  BY <1>7, NoneReplaced DEF Operand
<1>11. /\ SameHeight(J2, K2, shape')
       /\ Exactly(J, K, shape) /\ v \in {0, 2} => Exactly(J2, K2, shape')
       /\ Roughly(J, K, shape) => Roughly(J2, K2, shape')
  <2>1. PICK n, sh2, x : n = 0 /\ sh2 = shape' /\ x = "term"
    OBVIOUS
  <2>2. n \in Nat /\ n =< Len(shape)
    BY <1>7, <2>1
  <2>3. Topped(J2, v, J, n) /\ Topped(K2, v, K, n) /\ Topped(sh2, x, shape, n)
    BY <1>8, <1>9, <1>10, <2>1
  <2>4. QED
    BY <1>7, <2>1, <2>2, <2>3, Compare
<1>12. (Uses("!()") => Uses("!()")') /\ (OverBooleans' => OverBooleans)
  <2>1. Len(expr') >= Len(expr)
    BY <1>t
  <2>2. QED
    BY <1>t, <2>1, TokensStay DEF GTyped
<1>14. ASSUME OverBooleans'
       PROVE  Exactly(J2, K2, shape')
  <2>1. Exactly(J, K, shape) /\ v \in {0, 2}
    BY <1>3, <1>4, <1>12, <1>14 DEF GAligned
  <2>2. QED
    BY <1>11, <2>1
<1>15. ~Uses("!()")' => Roughly(J2, K2, shape')
  BY <1>4, <1>11, <1>12 DEF GAligned
<1>16. Aligned(J2, K2, shape')
  BY <1>8, <1>9, <1>11 DEF Aligned
<1>17. QED
  BY <1>5, <1>14, <1>15, <1>16 DEF GAligned

LEMMA NegationAligns ==
    ASSUME GTyped, GAligned, Negation, UNCHANGED env
    PROVE  GAligned'
<1>1. PICK op : op = IF shape[1] = "term" THEN "!" ELSE "!()"
  OBVIOUS
<1>2. expr' = Append(expr, Op(op)) /\ op \in Unary /\ Op(op) \in Token
  BY <1>1 DEF Negation, Op, Token, Unary
<1>3. PICK J, K : J = StackIn(TRUE, expr, env) /\ K = StackIn(FALSE, expr, env)
  OBVIOUS
<1>4. PICK J2, K2 : J2 = StackIn(TRUE, expr', env) /\ K2 = StackIn(FALSE, expr', env)
  OBVIOUS
<1>5. PICK j, k : j = JsUnary(op, J[1]) /\ k = 2 - K[1]
  OBVIOUS
<1>6. J2 = <<j>> \o Tail(J) /\ K2 = <<k>> \o Tail(K)
  <2>1. /\ J2 = PushIn(TRUE, J, Op(op), env)
        /\ K2 = PushIn(FALSE, K, Op(op), env)
    BY <1>2, <1>3, <1>4, StackAppended DEF GTyped, GAligned
  <2>2. QED
    BY <1>2, <1>5, <2>1, UnaryPushed DEF Negative, KconfigUnary
<1>7. /\ J \in Seq(0..2) /\ K \in Seq(0..2)
      /\ SameHeight(J, K, shape) /\ Len(J) = Len(shape) /\ Len(K) = Len(shape)
      /\ shape \in Seq({"term", "compound"}) /\ Len(shape) \in Nat
      /\ Len(shape) >= 1
  <2>1. /\ J \in Seq(0..2) /\ K \in Seq(0..2) /\ SameHeight(J, K, shape)
        /\ shape \in Seq({"term", "compound"}) /\ shape # <<>>
    BY <1>3 DEF GTyped, GAligned, Aligned, Negation
  <2>2. Len(shape) \in Nat /\ Len(shape) # 0
    BY <2>1, LenProperties, EmptySeq
  <2>3. QED
    BY <2>1, <2>2 DEF SameHeight
<1>8. J[1] \in 0..2 /\ K[1] \in 0..2
  BY <1>7, ElementOfSeq
<1>9. j \in 0..2 /\ k \in 0..2
  BY <1>2, <1>5, <1>8 DEF JsUnary, Quoted, Truth, Unary
<1>10. J2 \in Seq(0..2) /\ Topped(J2, j, J, 1)
  BY <1>6, <1>7, <1>9, OneReplaced
<1>11. K2 \in Seq(0..2) /\ Topped(K2, k, K, 1)
  BY <1>6, <1>7, <1>9, OneReplaced
<1>12. shape' \in Seq({"term", "compound"}) /\ Topped(shape', "compound", shape, 1)
  BY <1>7, OneReplaced DEF Negation
<1>13. /\ SameHeight(J2, K2, shape')
       /\ Exactly(J, K, shape) /\ j = k /\ j \in {0, 2} => Exactly(J2, K2, shape')
       /\ Roughly(J, K, shape) /\ (j = 0 <=> k = 0) => Roughly(J2, K2, shape')
  <2>1. PICK n, sh2, x : n = 1 /\ sh2 = shape' /\ x = "compound"
    OBVIOUS
  <2>2. n \in Nat /\ n =< Len(shape)
    BY <1>7, <2>1
  <2>3. Topped(J2, j, J, n) /\ Topped(K2, k, K, n) /\ Topped(sh2, x, shape, n)
    BY <1>10, <1>11, <1>12, <2>1
  <2>4. QED
    BY <1>7, <2>1, <2>2, <2>3, Compare
<1>14. /\ expr' \in Seq(Token)
       /\ Uses("!()") => Uses("!()")'
       /\ op = "!()" => Uses("!()")'
       /\ OverBooleans' => OverBooleans
  <2>1. /\ expr' \in Seq(Token) /\ Len(expr') = Len(expr) + 1
        /\ \A i \in 1..Len(expr) : expr'[i] = expr[i]
        /\ expr'[Len(expr) + 1] = Op(op)
    BY <1>2, AppendProperties DEF GTyped, GAligned
  <2>2. Len(expr) \in Nat /\ Len(expr') >= Len(expr)
    BY <2>1, LenProperties DEF GTyped, GAligned
  <2>3. (Uses("!()") => Uses("!()")') /\ (OverBooleans' => OverBooleans)
    BY <2>1, <2>2, TokensStay DEF GTyped
  <2>4. op = "!()" => Uses("!()")'
    <3>1. Len(expr) + 1 \in DOMAIN expr'
      BY <2>1, <2>2
    <3>2. QED
      BY <2>1, <3>1 DEF Uses, Op
  <2>5. QED
    BY <2>1, <2>3, <2>4
<1>15. ASSUME OverBooleans'
       PROVE  Exactly(J2, K2, shape')
  <2>1. Exactly(J, K, shape)
    BY <1>3, <1>14, <1>15 DEF GAligned
  <2>2. J[1] = K[1] /\ J[1] \in {0, 2}
    BY <1>7, <2>1 DEF Exactly
  <2>3. j = k /\ j \in {0, 2}
    BY <1>2, <1>5, <2>2 DEF JsUnary, Quoted, Truth, Unary
  <2>4. QED
    BY <1>13, <2>1, <2>3
<1>16. ASSUME ~Uses("!()")'
       PROVE  Roughly(J2, K2, shape')
  <2>1. Roughly(J, K, shape)
    BY <1>3, <1>14, <1>16 DEF GTyped, GAligned
  <2>2. op = "!" /\ shape[1] = "term"
    BY <1>1, <1>14, <1>16
  <2>3. J[1] = K[1]
    BY <1>7, <2>1, <2>2 DEF Roughly
  <2>4. j = k
    BY <1>5, <1>7, <1>8, <2>2, <2>3 DEF JsUnary, Quoted
  <2>5. QED
    BY <1>13, <2>1, <2>4
<1>17. Aligned(J2, K2, shape')
  BY <1>10, <1>11, <1>13 DEF Aligned
<1>18. QED
  BY <1>4, <1>12, <1>14, <1>15, <1>16, <1>17 DEF GTyped, GAligned

LEMMA ConnectiveAligns ==
    ASSUME GTyped, GAligned, Connective, UNCHANGED env
    PROVE  GAligned'
<1>1. PICK op \in {"&&", "||"} : expr' = Append(expr, Op(op))
  BY DEF Connective
<1>2. op \in Binary /\ Op(op) \in Token
  BY DEF Op, Token, Binary
<1>3. PICK J, K : J = StackIn(TRUE, expr, env) /\ K = StackIn(FALSE, expr, env)
  OBVIOUS
<1>4. PICK J2, K2 : J2 = StackIn(TRUE, expr', env) /\ K2 = StackIn(FALSE, expr', env)
  OBVIOUS
<1>5. PICK j, k : j = JsBinary(op, J[2], J[1]) /\ k = KconfigBinary(op, K[2], K[1])
  OBVIOUS
<1>6. J2 = <<j>> \o SubSeq(J, 3, Len(J)) /\ K2 = <<k>> \o SubSeq(K, 3, Len(K))
  <2>1. /\ J2 = PushIn(TRUE, J, Op(op), env)
        /\ K2 = PushIn(FALSE, K, Op(op), env)
    BY <1>1, <1>2, <1>3, <1>4, StackAppended DEF GTyped, GAligned
  <2>2. QED
    BY <1>2, <1>5, <2>1, BinaryPushed DEF Combined
<1>7. /\ J \in Seq(0..2) /\ K \in Seq(0..2)
      /\ SameHeight(J, K, shape) /\ Len(J) = Len(shape) /\ Len(K) = Len(shape)
      /\ shape \in Seq({"term", "compound"}) /\ Len(shape) \in Nat
      /\ Len(shape) >= 2
  BY <1>3, LenProperties DEF GTyped, GAligned, Aligned, SameHeight, Connective
<1>8. /\ J[1] \in 0..2 /\ K[1] \in 0..2
      /\ J[2] \in 0..2 /\ K[2] \in 0..2
  BY <1>7, ElementOfSeq
<1>9. j \in 0..2 /\ k \in 0..2
  BY <1>5, <1>8 DEF JsBinary, KconfigBinary
<1>10. J2 \in Seq(0..2) /\ Topped(J2, j, J, 2)
  BY <1>6, <1>7, <1>9, TwoReplaced
<1>11. K2 \in Seq(0..2) /\ Topped(K2, k, K, 2)
  BY <1>6, <1>7, <1>9, TwoReplaced
<1>12. shape' \in Seq({"term", "compound"}) /\ Topped(shape', "compound", shape, 2)
  BY <1>7, TwoReplaced DEF Connective
<1>13. /\ SameHeight(J2, K2, shape')
       /\ Exactly(J, K, shape) /\ j = k /\ j \in {0, 2} => Exactly(J2, K2, shape')
       /\ Roughly(J, K, shape) /\ (j = 0 <=> k = 0) => Roughly(J2, K2, shape')
  <2>1. PICK n, sh2, x : n = 2 /\ sh2 = shape' /\ x = "compound"
    OBVIOUS
  <2>2. n \in Nat /\ n =< Len(shape)
    BY <1>7, <2>1
  <2>3. Topped(J2, j, J, n) /\ Topped(K2, k, K, n) /\ Topped(sh2, x, shape, n)
    BY <1>10, <1>11, <1>12, <2>1
  <2>4. QED
    BY <1>7, <2>1, <2>2, <2>3, Compare
<1>14. (Uses("!()") => Uses("!()")') /\ (OverBooleans' => OverBooleans)
  <2>1. /\ expr' \in Seq(Token) /\ Len(expr') = Len(expr) + 1
        /\ \A i \in 1..Len(expr) : expr'[i] = expr[i]
    BY <1>1, <1>2, AppendProperties DEF GTyped, GAligned
  <2>2. Len(expr') >= Len(expr)
    BY <2>1, LenProperties DEF GTyped, GAligned
  <2>3. QED
    BY <2>1, <2>2, TokensStay DEF GTyped
<1>15. ASSUME OverBooleans'
       PROVE  Exactly(J2, K2, shape')
  <2>1. Exactly(J, K, shape)
    BY <1>3, <1>14, <1>15 DEF GAligned
  <2>2. /\ J[1] = K[1] /\ J[1] \in {0, 2}
        /\ J[2] = K[2] /\ J[2] \in {0, 2}
    BY <1>7, <2>1 DEF Exactly
  <2>3. j = k /\ j \in {0, 2}
    BY <1>5, <2>2 DEF JsBinary, KconfigBinary
  <2>4. QED
    BY <1>13, <2>1, <2>3
<1>16. ASSUME ~Uses("!()")'
       PROVE  Roughly(J2, K2, shape')
  <2>1. Roughly(J, K, shape)
    BY <1>3, <1>14, <1>16 DEF GTyped, GAligned
  <2>2. (J[1] = 0 <=> K[1] = 0) /\ (J[2] = 0 <=> K[2] = 0)
    BY <1>7, <2>1 DEF Roughly
  <2>3. j = 0 <=> k = 0
    BY <1>5, <1>8, <2>2 DEF JsBinary, KconfigBinary
  <2>4. QED
    BY <1>13, <2>1, <2>3
<1>17. Aligned(J2, K2, shape')
  BY <1>10, <1>11, <1>13 DEF Aligned
<1>18. QED
  BY <1>4, <1>12, <1>14, <1>15, <1>16, <1>17 DEF GTyped, GAligned

LEMMA ComparisonAligns ==
    ASSUME GTyped, GAligned, Literals \subseteq {EmptyText}, Comparison, UNCHANGED env
    PROVE  GAligned'
<1>1. PICK op \in {"=", "!=", "<"}, a, b \in Related :
         expr' = expr \o <<a, b, Op(op)>>
  BY ComparisonChosen
<1>2. /\ a \in Token /\ a.kind # "operator"
      /\ Meaning(TRUE, a, env) \in Nat
      /\ Meaning(FALSE, a, env) = Meaning(TRUE, a, env)
  BY RelatedMean
<1>3. /\ b \in Token /\ b.kind # "operator"
      /\ Meaning(TRUE, b, env) \in Nat
      /\ Meaning(FALSE, b, env) = Meaning(TRUE, b, env)
  BY RelatedMean
<1>4. PICK J, K : J = StackIn(TRUE, expr, env) /\ K = StackIn(FALSE, expr, env)
  OBVIOUS
<1>5. PICK J2, K2 : J2 = StackIn(TRUE, expr', env) /\ K2 = StackIn(FALSE, expr', env)
  OBVIOUS
<1>6. PICK v : v = Verdict(TRUE, op, a, b, env) /\ v = Verdict(FALSE, op, a, b, env)
  BY <1>2, <1>3 DEF Verdict
<1>7. /\ expr \in Seq(Token)
      /\ J \in Seq(0..2) /\ K \in Seq(0..2) /\ SameHeight(J, K, shape)
      /\ shape \in Seq({"term", "compound"}) /\ Len(shape) \in Nat
  BY <1>4, LenProperties DEF GTyped, GAligned, Aligned
<1>8. /\ v \in {0, 2}
      /\ J2 \in Seq(0..2) /\ Topped(J2, v, J, 0)
  <2>1. /\ Compares(expr', expr, a, b, op) /\ Leaves(TRUE, expr, env, J)
        /\ TRUE \in BOOLEAN
    BY <1>1, <1>4 DEF Compares, Leaves
  <2>2. /\ StackIn(TRUE, expr', env) \in Seq(0..2)
        /\ Topped(StackIn(TRUE, expr', env), Verdict(TRUE, op, a, b, env), J, 0)
    <3>1. /\ a \in Token /\ a.kind # "operator" /\ Meaning(TRUE, a, env) \in Nat
          /\ b \in Token /\ b.kind # "operator" /\ Meaning(TRUE, b, env) \in Nat
          /\ expr \in Seq(Token) /\ J \in Seq(0..2) /\ op \in {"=", "!=", "<"}
      BY <1>1, <1>2, <1>3, <1>7
    <3>2. QED
      BY <2>1, <3>1, Compared, Zenon
  <2>3. v \in {0, 2}
    BY <1>1, <1>6 DEF Verdict, JsBinary, Truth
  <2>4. QED
    BY <1>5, <1>6, <2>2, <2>3
<1>9. K2 \in Seq(0..2) /\ Topped(K2, v, K, 0)
  <2>1. Compares(expr', expr, a, b, op) /\ Leaves(FALSE, expr, env, K)
    BY <1>1, <1>4 DEF Compares, Leaves
  <2>2. Meaning(FALSE, a, env) \in Nat /\ Meaning(FALSE, b, env) \in Nat
    BY <1>2, <1>3
  <2>3. /\ StackIn(FALSE, expr', env) \in Seq(0..2)
        /\ Topped(StackIn(FALSE, expr', env), Verdict(FALSE, op, a, b, env), K, 0)
    BY <1>1, <1>2, <1>3, <1>7, <2>1, <2>2, Compared, Zenon
  <2>4. QED
    BY <1>5, <1>6, <2>3
<1>10. shape' \in Seq({"term", "compound"}) /\ Topped(shape', "compound", shape, 0)
  BY <1>7, NoneReplaced DEF Comparison
<1>11. /\ SameHeight(J2, K2, shape')
       /\ Exactly(J, K, shape) => Exactly(J2, K2, shape')
       /\ Roughly(J, K, shape) => Roughly(J2, K2, shape')
  <2>1. PICK n, sh2, x : n = 0 /\ sh2 = shape' /\ x = "compound"
    OBVIOUS
  <2>2. n \in Nat /\ n =< Len(shape)
    BY <1>7, <2>1
  <2>3. Topped(J2, v, J, n) /\ Topped(K2, v, K, n) /\ Topped(sh2, x, shape, n)
    BY <1>8, <1>9, <1>10, <2>1
  <2>4. QED
    BY <1>7, <1>8, <2>1, <2>2, <2>3, Compare
<1>12. (Uses("!()") => Uses("!()")') /\ (OverBooleans' => OverBooleans)
  BY <1>1, <1>7, ComparisonGrows, TokensStay
<1>13. OverBooleans' => Exactly(J2, K2, shape')
  BY <1>4, <1>11, <1>12 DEF GAligned
<1>14. ~Uses("!()")' => Roughly(J2, K2, shape')
  BY <1>4, <1>11, <1>12 DEF GAligned
<1>15. Aligned(J2, K2, shape')
  BY <1>8, <1>9, <1>11 DEF Aligned
<1>16. QED
  BY <1>5, <1>13, <1>14, <1>15 DEF GAligned
-----------------------------------------------------------------------------
LEMMA InitGInv == Init => GInv
<1> SUFFICES ASSUME Init PROVE GInv
  OBVIOUS
<1>1. /\ env \in [Stateful \cup Ints \cup Strings -> Nat]
      /\ \A x \in Stateful : env[x] \in 0..2
  <2>1. PICK s \in [Stateful -> Levels], i \in [Ints -> Numbers],
             t \in [Strings -> Texts] :
          env = [name \in Stateful \cup Ints \cup Strings |->
                    CASE name \in Stateful -> s[name]
                      [] name \in Ints     -> i[name]
                      [] name \in Strings  -> t[name]]
    BY DEF Init
  <2>2. \A name \in Stateful : env[name] = s[name] /\ s[name] \in Levels
    BY <2>1, GrammarTyped
  <2>3. \A name \in Ints : env[name] = i[name] /\ i[name] \in Numbers
    BY <2>1, GrammarTyped
  <2>4. \A name \in Strings : env[name] = t[name] /\ t[name] \in Texts
    BY <2>1, GrammarTyped
  <2>5. \A name \in Stateful \cup Ints \cup Strings : env[name] \in Nat
    <3>1. Levels \subseteq Nat /\ Numbers \subseteq Nat /\ Texts \subseteq Nat
      BY GrammarTyped
    <3>2. QED
      BY <2>2, <2>3, <2>4, <3>1
  <2>6. QED
    BY <2>1, <2>2, <2>5, GrammarTyped
<1>2. PICK J, K : J = StackIn(TRUE, expr, env) /\ K = StackIn(FALSE, expr, env)
  OBVIOUS
<1>3. /\ expr = <<>> /\ shape = <<>>
      /\ J = <<>> /\ K = <<>>
  BY <1>2, NoTokens DEF Init
<1>4. /\ Aligned(J, K, shape)
      /\ Exactly(J, K, shape) /\ Roughly(J, K, shape)
  BY <1>3 DEF Aligned, SameHeight, Exactly, Roughly
<1>5. expr \in Seq(Token) /\ shape \in Seq({"term", "compound"})
  BY <1>3
<1>6. QED
  BY <1>1, <1>2, <1>4, <1>5 DEF GInv, GTyped, GAligned

LEMMA NextGInv ==
    ASSUME Literals \subseteq {EmptyText}
    PROVE  GInv /\ [Next]_vars => GInv'
<1> SUFFICES ASSUME GInv, [Next]_vars PROVE GInv'
  OBVIOUS
<1>1. CASE UNCHANGED vars
  BY <1>1 DEF vars, GInv, GTyped, GAligned, OverBooleans, LonesAreZero, Uses
<1>2. CASE Next
  <2>1. GTyped /\ GTyped' /\ UNCHANGED env
    BY <1>2, StepTyped DEF GInv, Next
  <2>2. LonesAreZero' => LonesAreZero
    BY <1>2, <2>1, StepTyped, TokensStay DEF GTyped
  <2>3. ASSUME LonesAreZero'
        PROVE  GAligned'
    <3>1. GAligned
      BY <2>2, <2>3 DEF GInv
    <3>2. QED
      BY <1>2, <2>1, <2>3, <3>1, OperandAligns, ComparisonAligns, NegationAligns,
         ConnectiveAligns DEF Next
  <2>4. QED
    BY <2>1, <2>3 DEF GInv
<1>3. QED
  BY <1>1, <1>2

LEMMA AlwaysAligned ==
    ASSUME Literals \subseteq {EmptyText}
    PROVE  Spec => []GInv
<1>1. GInv /\ [Next]_vars => GInv'
  BY NextGInv
<1>2. QED
  BY <1>1, InitGInv, PTL DEF Spec

(* A number by itself that is 0 can be read with a ! before it.            *)
LEMMA ZerosAreRead == LonesAreZero => ~Unreadable(expr, env)
<1>1. "lone number" \in Lone
  BY DEF Lone
<1>2. SUFFICES ASSUME LonesAreZero, NEW i \in DOMAIN expr,
                      expr[i].kind = "lone number",
                      getConfiguredValue(env, expr[i]) > 9
               PROVE  FALSE
  BY DEF Unreadable
<1>3. getConfiguredValue(env, expr[i]) = 0
  BY <1>1, <1>2 DEF LonesAreZero
<1>4. ~(0 > 9)
  OBVIOUS
<1>5. QED
  BY <1>2, <1>3, <1>4

(* However long the expression, over y and n alone evaluateExpr() computes *)
(* what kconfiglib does, if no number and no text that stands by itself in *)
(* it is other than 0 or empty.  Relations are between operands of a type, *)
(* and strings are compared with the empty literal only: of another one    *)
(* the view takes the words for names of symbols.                          *)
THEOREM ExactOverBooleans ==
    ASSUME Literals \subseteq {EmptyText}
    PROVE  Spec => []ExactOnBooleans
<1>1. GInv => ExactOnBooleans
  <2> SUFFICES ASSUME GInv, Complete, OverBooleans, LonesAreZero
               PROVE  evaluateExpr(expr, env) = KconfigValue(expr, env)
    BY DEF ExactOnBooleans
  <2>1. StackIn(TRUE, expr, env)[1] = StackIn(FALSE, expr, env)[1]
    <3>1. 1 \in 1..Len(shape)
      BY DEF Complete
    <3>2. QED
      BY <3>1 DEF GInv, GAligned, Exactly
  <2>2. QED
    BY <2>1, Evaluations, ZerosAreRead
<1>2. QED
  BY <1>1, AlwaysAligned, PTL

(* And with tristates in it, one that negates no parenthesis still decides *)
(* a dependency as kconfiglib does, under the same condition.              *)
THEOREM DependenciesDecided ==
    ASSUME Literals \subseteq {EmptyText}
    PROVE  Spec => []ConditionsDecided
<1>1. GInv => ConditionsDecided
  <2> SUFFICES ASSUME GInv, Complete, ~Uses("!()"), LonesAreZero
               PROVE  evaluateCond(expr, env) <=> KconfigValue(expr, env) # 0
    BY DEF ConditionsDecided
  <2>1. StackIn(TRUE, expr, env)[1] = 0 <=> StackIn(FALSE, expr, env)[1] = 0
    <3>1. 1 \in 1..Len(shape)
      BY DEF Complete
    <3>2. QED
      BY <3>1 DEF GInv, GAligned, Roughly
  <2>2. QED
    BY <2>1, Evaluations, ZerosAreRead DEF evaluateCond
<1>2. QED
  BY <1>1, AlwaysAligned, PTL
=============================================================================
