------------------------- MODULE KconfigExpr_proofs -------------------------
(***************************************************************************)
(* What the proofs need of definitions by recursion, and of expressions,   *)
(* which are evaluated by one.                                             *)
(***************************************************************************)
EXTENDS KconfigExpr, SequenceTheorems, WellFoundedInduction, TLAPS

(* Induction over the naturals, for a set of them.                         *)
LEMMA SetInduction ==
    ASSUME NEW S, 0 \in S, \A n \in Nat : n \in S => n + 1 \in S
    PROVE  \A n \in Nat : n \in S
<1> DEFINE R == {p \in Nat \X Nat : p[1] < p[2]}
           D == Nat \ S
<1>1. IsWellFoundedOn(R, Nat)
  BY NatLessThanWellFounded DEF OpToRel
<1>2. \A a, b \in Nat : a < b => <<a, b>> \in R
  OBVIOUS
<1> HIDE DEF R
<1>3. D \subseteq Nat
  OBVIOUS
<1>4. SUFFICES ASSUME D # {}
               PROVE  FALSE
  OBVIOUS
<1>5. PICK x \in D : \A y \in D : ~(<<y, x>> \in R)
  BY <1>1, <1>3, <1>4, WFMin, Zenon
<1>6. x \in Nat /\ x - 1 \in Nat /\ x - 1 < x /\ (x - 1) + 1 = x
  BY <1>5
<1>7. x - 1 \in D
  BY <1>6
<1>8. QED
  BY <1>2, <1>5, <1>6, <1>7

(* A function defined by recursion on its argument has the values its      *)
(* definition gives it.                                                    *)
Follows(f, n, base, step) ==
    \A i \in 0..n : f[i] = IF i = 0 THEN base ELSE step[<<i, f[i - 1]>>]

LEMMA RecursionExists ==
    ASSUME NEW N \in Nat, NEW A, NEW base \in A, NEW step,
           \A i \in 1..N, a \in A : step[<<i, a>>] \in A
    PROVE  \E f \in [0..N -> A] : Follows(f, N, base, step)
<1> DEFINE S == {n \in Nat : n =< N => \E f \in [0..n -> A] : Follows(f, n, base, step)}
<1>1. 0 \in S
  <2> DEFINE f == [i \in 0..0 |-> base]
  <2>1. f \in [0..0 -> A] /\ Follows(f, 0, base, step)
    BY DEF Follows
  <2>2. QED
    BY <2>1
<1>2. ASSUME NEW n \in Nat, n \in S PROVE n + 1 \in S
  <2>1. SUFFICES ASSUME n + 1 =< N
                 PROVE  \E f \in [0..(n + 1) -> A] : Follows(f, n + 1, base, step)
    OBVIOUS
  <2>2. PICK f \in [0..n -> A] : Follows(f, n, base, step)
    BY <1>2, <2>1
  <2> DEFINE g == [i \in 0..(n + 1) |-> IF i = n + 1 THEN step[<<n + 1, f[n]>>] ELSE f[i]]
  <2>3. f[n] \in A /\ step[<<n + 1, f[n]>>] \in A
    BY <2>1
  <2>4. g \in [0..(n + 1) -> A]
    BY <2>3
  <2>5. Follows(g, n + 1, base, step)
    <3>1. SUFFICES ASSUME NEW i \in 0..(n + 1)
                   PROVE  g[i] = IF i = 0 THEN base ELSE step[<<i, g[i - 1]>>]
      BY DEF Follows
    <3>2. CASE i = n + 1
      BY <3>2
    <3>3. CASE i # n + 1
      <4>1. i \in 0..n /\ g[i] = f[i] /\ (i # 0 => g[i - 1] = f[i - 1])
        BY <3>3
      <4>2. f[i] = IF i = 0 THEN base ELSE step[<<i, f[i - 1]>>]
        BY <2>2, <4>1 DEF Follows
      <4>3. QED
        BY <4>1, <4>2
    <3>4. QED
      BY <3>2, <3>3
  <2>6. QED
    BY <2>4, <2>5
<1> HIDE DEF S
<1>3. N \in S
  BY <1>1, <1>2, SetInduction
<1>4. QED
  BY <1>3 DEF S

LEMMA RecursionTyped ==
    ASSUME NEW N \in Nat, NEW A, NEW base \in A, NEW step,
           \A i \in 1..N, a \in A : step[<<i, a>>] \in A,
           NEW f, Follows(f, N, base, step)
    PROVE  \A i \in 0..N : f[i] \in A
<1> DEFINE S == {n \in Nat : n =< N => f[n] \in A}
<1>0. \A i \in 0..N : f[i] = IF i = 0 THEN base ELSE step[<<i, f[i - 1]>>]
  BY DEF Follows
<1>1. 0 \in S
  <2>1. f[0] = base
    BY <1>0, 0 \in 0..N
  <2>2. QED
    BY <2>1
<1>2. ASSUME NEW n \in Nat, n \in S PROVE n + 1 \in S
  <2>1. SUFFICES ASSUME n + 1 =< N PROVE f[n + 1] \in A
    OBVIOUS
  <2>2. f[n] \in A /\ n + 1 \in 1..N /\ (n + 1) - 1 = n
    BY <1>2, <2>1
  <2>3. f[n + 1] = step[<<n + 1, f[n]>>]
    BY <1>0, <2>2
  <2>4. QED
    BY <2>2, <2>3
<1> HIDE DEF S
<1>3. \A n \in Nat : n \in S
  BY <1>1, <1>2, SetInduction
<1>4. QED
  BY <1>3 DEF S
-----------------------------------------------------------------------------
(* Evaluating an expression.                                               *)

(* One step of the fold in each language...                                *)
JsPush(stack, t, en) ==
    Push(stack, t, LAMBDA u : getConfiguredValue(en, u), JsUnary, JsBinary)

KconfigPush(stack, t, en) ==
    Push(stack, t, LAMBDA u : CASE u.kind = "string" -> u.arg
                                [] u.kind \in Lone   -> 0
                                [] OTHER             -> getConfiguredValue(en, u),
         KconfigUnary, KconfigBinary)

PushIn(js, stack, t, en) ==
    IF js THEN JsPush(stack, t, en) ELSE KconfigPush(stack, t, en)

(* ... and the stack all of s leaves.                                      *)
StackIn(js, s, en) ==
    LET stack[k \in 0..Len(s)] ==
          IF k = 0 THEN <<>> ELSE PushIn(js, stack[k - 1], s[k], en)
    IN  stack[Len(s)]

LEMMA Evaluations ==
    ASSUME NEW s, NEW en
    PROVE  /\ evaluateExpr(s, en) = IF Unreadable(s, en) THEN 0
                                     ELSE StackIn(TRUE, s, en)[1]
           /\ KconfigValue(s, en) = StackIn(FALSE, s, en)[1]
<1> DEFINE js(g) == [k \in 0..Len(s) |->
                        IF k = 0 THEN <<>> ELSE JsPush(g[k - 1], s[k], en)]
           kc(g) == [k \in 0..Len(s) |->
                        IF k = 0 THEN <<>> ELSE KconfigPush(g[k - 1], s[k], en)]
           body(b, g) == [k \in 0..Len(s) |->
                        IF k = 0 THEN <<>> ELSE PushIn(b, g[k - 1], s[k], en)]
<1>1. evaluateExpr(s, en) = IF Unreadable(s, en) THEN 0
                            ELSE (CHOOSE g : g = js(g))[Len(s)][1]
  BY Zenon DEF evaluateExpr, JsPush
<1>2. KconfigValue(s, en) = (CHOOSE g : g = kc(g))[Len(s)][1]
  BY Zenon DEF KconfigValue, KconfigPush
<1>3. \A b : StackIn(b, s, en) = (CHOOSE g : g = body(b, g))[Len(s)]
  BY Zenon DEF StackIn
<1>4. \A g : js(g) = body(TRUE, g) /\ kc(g) = body(FALSE, g)
  BY DEF PushIn
<1> HIDE DEF js, kc, body
<1>5. (CHOOSE g : g = js(g)) = (CHOOSE g : g = body(TRUE, g))
  BY <1>4
<1>6. (CHOOSE g : g = kc(g)) = (CHOOSE g : g = body(FALSE, g))
  BY <1>4
<1>7. QED
  BY <1>1, <1>2, <1>3, <1>5, <1>6
-----------------------------------------------------------------------------
(* The recursion along the tokens.                                         *)

(* f holds the stacks before and after each token of s.                    *)
Stacks(f, js, s, en) ==
    /\ f[0] = <<>>
    /\ \A k \in 1..Len(s) : f[k] = PushIn(js, f[k - 1], s[k], en)
    /\ StackIn(js, s, en) = f[Len(s)]

LEMMA StackFollows ==
    ASSUME NEW js, NEW s, Len(s) \in Nat, NEW en
    PROVE  \E f : Stacks(f, js, s, en)
<1> DEFINE N == Len(s)
           body(g, n) == [k \in 0..n |->
                            IF k = 0 THEN <<>> ELSE PushIn(js, g[k - 1], s[k], en)]
           S == {n \in Nat : \E g : g = body(g, n)}
<1>1. 0 \in S
  <2>1. body(<<>>, 0) = body(body(<<>>, 0), 0)
    OBVIOUS
  <2>2. QED
    BY <2>1
<1>2. ASSUME NEW n \in Nat, n \in S PROVE n + 1 \in S
  <2>1. PICK g : g = body(g, n)
    BY <1>2
  <2> DEFINE h == [k \in 0..(n + 1) |->
                     IF k = n + 1 THEN PushIn(js, g[n], s[n + 1], en) ELSE g[k]]
  <2>2. ASSUME NEW k \in 0..(n + 1)
        PROVE  h[k] = IF k = 0 THEN <<>> ELSE PushIn(js, h[k - 1], s[k], en)
    <3>1. CASE k = n + 1
      <4>1. h[k] = PushIn(js, g[n], s[n + 1], en) /\ h[k - 1] = g[n]
        BY <3>1
      <4>2. QED
        BY <3>1, <4>1
    <3>2. CASE k # n + 1
      <4>1. k \in 0..n /\ h[k] = g[k] /\ (k # 0 => h[k - 1] = g[k - 1])
        BY <3>2
      <4>2. g[k] = IF k = 0 THEN <<>> ELSE PushIn(js, g[k - 1], s[k], en)
        BY <2>1, <4>1
      <4>3. QED
        BY <4>1, <4>2
    <3>3. QED
      BY <3>1, <3>2
  <2>3. h = body(h, n + 1)
    BY <2>2
  <2> HIDE DEF h, body
  <2>4. QED
    BY <2>3
<1> HIDE DEF S
<1>3. N \in S
  BY <1>1, <1>2, SetInduction
<1> DEFINE f == CHOOSE g : g = body(g, N)
<1>4. f = body(f, N)
  BY <1>3 DEF S
<1>5. StackIn(js, s, en) = f[N]
  BY DEF StackIn
<1> HIDE DEF f
<1>6. ASSUME NEW k \in 0..N
      PROVE  f[k] = IF k = 0 THEN <<>> ELSE PushIn(js, f[k - 1], s[k], en)
  <2>1. body(f, N)[k] = IF k = 0 THEN <<>> ELSE PushIn(js, f[k - 1], s[k], en)
    OBVIOUS
  <2> HIDE DEF body
  <2>2. QED
    BY <1>4, <2>1
<1>7. 0 \in 0..N /\ \A k \in 1..N : k \in 0..N /\ k # 0
  OBVIOUS
<1> HIDE DEF body
<1>8. Stacks(f, js, s, en)
  BY <1>5, <1>6, <1>7 DEF Stacks
<1>9. QED
  BY <1>8

LEMMA NoTokens ==
    ASSUME NEW js, NEW en
    PROVE  StackIn(js, <<>>, en) = <<>>
<1>1. PICK s : s = << >> /\ Len(s) = 0
  OBVIOUS
<1>2. PICK f : Stacks(f, js, s, en)
  BY <1>1, StackFollows
<1>3. QED
  BY <1>1, <1>2 DEF Stacks

(* The last token acts on what the others leave.                           *)
LEMMA StackAppended ==
    ASSUME NEW js, NEW T, NEW s \in Seq(T), NEW t \in T, NEW en
    PROVE  StackIn(js, Append(s, t), en) = PushIn(js, StackIn(js, s, en), t, en)
<1>1. PICK r, n : r = Append(s, t) /\ n = Len(s) /\ n \in Nat
  BY LenProperties
<1>2. /\ Len(r) = n + 1
      /\ r[n + 1] = t
      /\ \A k \in 1..n : r[k] = s[k]
  BY <1>1, AppendProperties
<1>3. PICK f : Stacks(f, js, s, en)
  BY <1>1, StackFollows
<1>4. PICK g : Stacks(g, js, r, en)
  <2>1. Len(r) \in Nat
    BY <1>1, <1>2
  <2>2. QED
    BY <2>1, StackFollows
<1> DEFINE S == {k \in Nat : k =< n => g[k] = f[k]}
<1>5. 0 \in S
  BY <1>3, <1>4 DEF Stacks
<1>6. ASSUME NEW k \in Nat, k \in S PROVE k + 1 \in S
  <2>1. SUFFICES ASSUME k + 1 =< n PROVE g[k + 1] = f[k + 1]
    OBVIOUS
  <2>2. k + 1 \in 1..n /\ k + 1 \in 1..(n + 1) /\ (k + 1) - 1 = k
    BY <1>1, <2>1
  <2>3. g[k] = f[k] /\ r[k + 1] = s[k + 1]
    <3>1. k =< n
      BY <1>1, <2>1
    <3>2. QED
      BY <1>2, <1>6, <2>2, <3>1
  <2>4. g[k + 1] = PushIn(js, g[k], r[k + 1], en)
    BY <1>2, <1>4, <2>2 DEF Stacks
  <2>5. f[k + 1] = PushIn(js, f[k], s[k + 1], en)
    BY <1>1, <1>3, <2>2 DEF Stacks
  <2>6. QED
    BY <2>3, <2>4, <2>5
<1> HIDE DEF S
<1>7. \A k \in Nat : k \in S
  BY <1>5, <1>6, SetInduction
<1>8. g[n] = f[n]
  BY <1>1, <1>7 DEF S
<1>9. g[n + 1] = PushIn(js, g[n], t, en)
  <2>1. n + 1 \in 1..(n + 1) /\ (n + 1) - 1 = n
    BY <1>1
  <2>2. QED
    BY <1>2, <1>4, <2>1 DEF Stacks
<1>10. QED
  BY <1>1, <1>2, <1>3, <1>4, <1>8, <1>9 DEF Stacks
-----------------------------------------------------------------------------
(* "y", the condition kconfig2json.py writes of an option that has no      *)
(* other than its choice, holds whatever the symbols' values are.          *)
LEMMA YesHolds == \A en : evaluateCond(<<Tri(2)>>, en)
<1> SUFFICES ASSUME NEW en PROVE evaluateCond(<<Tri(2)>>, en)
  OBVIOUS
<1>1. PICK t, e : t = Tri(2) /\ e = << >>
  OBVIOUS
<1>2. e \in Seq({t}) /\ t \in {t} /\ Append(e, t) = <<t>>
  BY <1>1
<1>3. StackIn(TRUE, Append(e, t), en) = PushIn(TRUE, StackIn(TRUE, e, en), t, en)
  BY <1>2, StackAppended
<1>4. StackIn(TRUE, e, en) = << >>
  BY <1>1, NoTokens
<1>5. getConfiguredValue(en, t) = 2 /\ t.kind # "operator"
  <2>1. t.kind = "constant" /\ t.arg = 2
    BY <1>1 DEF Tri
  <2>2. QED
    BY <2>1 DEF getConfiguredValue, Configured
<1>6. PICK v : v = getConfiguredValue(en, t)
  OBVIOUS
<1>7. PushIn(TRUE, e, t, en) = <<v>> \o e
  BY <1>5, <1>6 DEF PushIn, JsPush, Push
<1>8. PushIn(TRUE, e, t, en)[1] = v
  <2>1. <<v>> \o e = <<v>>
    BY <1>1
  <2>2. PICK r : r = <<v>>
    OBVIOUS
  <2>3. r[1] = v
    BY <2>2
  <2>4. PushIn(TRUE, e, t, en) = r
    BY <1>7, <2>1, <2>2
  <2>5. QED
    BY <2>3, <2>4
<1>9. StackIn(TRUE, <<t>>, en)[1] = 2
  BY <1>1, <1>2, <1>3, <1>4, <1>5, <1>6, <1>8
<1>10. evaluateExpr(<<t>>, en) = 2
  <2>1. PICK r : r = <<t>>
    OBVIOUS
  <2>2. DOMAIN r = {1} /\ r[1].kind = "constant"
    BY <1>1, <2>1 DEF Tri
  <2>3. ~Unreadable(r, en)
    BY <2>2 DEF Unreadable
  <2>4. evaluateExpr(r, en) = StackIn(TRUE, r, en)[1]
    BY <2>3, Evaluations
  <2>5. QED
    BY <1>9, <2>1, <2>4
<1>11. evaluateExpr(<<Tri(2)>>, en) # 0
  BY <1>1, <1>10
<1>12. QED
  BY <1>11, Zenon DEF evaluateCond
-----------------------------------------------------------------------------
(* An expression has the same value wherever its symbols have.             *)
LEMMA EvalAgrees ==
    ASSUME NEW s, IsExpr(s), NEW d, NEW e, DOMAIN d = DOMAIN e,
           \A n \in SymbolsIn(s) : n \in DOMAIN e => d[n] = e[n]
    PROVE  /\ evaluateExpr(s, d) = evaluateExpr(s, e)
           /\ evaluateCond(s, d) = evaluateCond(s, e)
<1> DEFINE body(en, g) == [k \in 0..Len(s) |->
                    IF k = 0 THEN <<>> ELSE PushIn(TRUE, g[k - 1], s[k], en)]
<1>0. DOMAIN s = 1..Len(s) /\ Len(s) \in Nat
  <2>1. PICK T : s \in Seq(T)
    BY DEF IsExpr
  <2>2. QED
    BY <2>1, LenProperties
<1>1. ASSUME NEW k \in 1..Len(s), s[k].kind # "operator"
      PROVE  getConfiguredValue(d, s[k]) = getConfiguredValue(e, s[k])
  <2>1. PICK t : t = s[k]
    OBVIOUS
  <2>2. ASSUME NEW u, u.kind = "symbol" => u.arg \in SymbolsIn(s),
               u.kind \in {"symbol", "constant", "number", "string"}
        PROVE  Configured(d, u) = Configured(e, u)
    <3>1. CASE u.kind = "symbol"
      <4>1. \A en : Configured(en, u) = IF u.arg \in DOMAIN en THEN en[u.arg] ELSE 0
        BY <3>1 DEF Configured
      <4>2. QED
        BY <2>2, <3>1, <4>1
    <3>2. CASE u.kind \in {"constant", "number", "string"}
      BY <3>2 DEF Configured
    <3>3. QED
      BY <2>2, <3>1, <3>2
  <2>3. CASE t.kind \in {"symbol", "constant", "number", "string"}
    <3>1. t.kind = "symbol" => t.arg \in SymbolsIn(s)
      BY <1>0, <2>1 DEF SymbolsIn
    <3>2. Configured(d, t) = Configured(e, t)
      BY <2>2, <2>3, <3>1
    <3>3. QED
      BY <2>1, <2>3, <3>2 DEF getConfiguredValue
  <2>4. CASE t.kind \in Lone
    <3>1. t.arg.kind \in {"symbol", "number", "string"}
      BY <1>0, <2>1, <2>4 DEF IsExpr, Lone
    <3>2. t.arg.kind = "symbol" => t.arg.arg \in SymbolsIn(s)
      BY <1>0, <2>1, <2>4 DEF SymbolsIn
    <3>3. Configured(d, t.arg) = Configured(e, t.arg)
      BY <2>2, <3>1, <3>2
    <3>4. QED
      BY <2>1, <2>4, <3>3 DEF getConfiguredValue, Lone
  <2>5. QED
    BY <1>0, <1>1, <2>1, <2>3, <2>4 DEF IsExpr
<1>2. ASSUME NEW g, NEW k \in 1..Len(s)
      PROVE  PushIn(TRUE, g[k - 1], s[k], d) = PushIn(TRUE, g[k - 1], s[k], e)
  <2>1. CASE s[k].kind = "operator"
    BY <2>1 DEF PushIn, JsPush, Push
  <2>2. CASE s[k].kind # "operator"
    BY <1>1, <2>2 DEF PushIn, JsPush, Push
  <2>3. QED
    BY <2>1, <2>2
<1>3. ASSUME NEW g
      PROVE  body(d, g) = body(e, g)
  <2>1. ASSUME NEW k \in 0..Len(s)
        PROVE  (IF k = 0 THEN <<>> ELSE PushIn(TRUE, g[k - 1], s[k], d))
                 = (IF k = 0 THEN <<>> ELSE PushIn(TRUE, g[k - 1], s[k], e))
    <3>1. CASE k = 0
      BY <3>1
    <3>2. CASE k # 0
      <4>1. k \in 1..Len(s)
        BY <1>0, <3>2
      <4>2. QED
        BY <1>2, <3>2, <4>1
    <3>3. QED
      BY <3>1, <3>2
  <2>2. QED
    BY <2>1
<1>4. \A en : StackIn(TRUE, s, en) = (CHOOSE g : g = body(en, g))[Len(s)]
  BY Zenon DEF StackIn
<1> HIDE DEF body
<1>5. (CHOOSE g : g = body(d, g)) = (CHOOSE g : g = body(e, g))
  BY <1>3
<1>6. StackIn(TRUE, s, d) = StackIn(TRUE, s, e)
  BY <1>4, <1>5
<1>7. evaluateExpr(s, d) = evaluateExpr(s, e)
  <2>1. \A en : evaluateExpr(s, en) = IF Unreadable(s, en) THEN 0
                                      ELSE StackIn(TRUE, s, en)[1]
    BY Evaluations
  <2>2. \A i \in DOMAIN s : s[i].kind = "lone number"
           => getConfiguredValue(d, s[i]) = getConfiguredValue(e, s[i])
    BY <1>0, <1>1
  <2>3. Unreadable(s, d) <=> Unreadable(s, e)
    BY <2>2 DEF Unreadable
  <2>4. QED
    BY <1>6, <2>1, <2>3
<1>8. QED
  BY <1>7 DEF evaluateCond
=============================================================================
