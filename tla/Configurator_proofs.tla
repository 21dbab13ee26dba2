------------------------ MODULE Configurator_proofs -------------------------
(***************************************************************************)
(* Proofs about the widget engine, for every tree of widgets.              *)
(*                                                                         *)
(* The invariant behind them is about the calls still to be made.  A call  *)
(* that waits at a level of work was made while propagateCallstack had     *)
(* only its first entries; WellCalled says what such a call may be of,     *)
(* and it holds for a call as long as those entries stay.                  *)
(*                                                                         *)
(* The second half is about what is left when no call waits any more.  A   *)
(* widget is not as its condition says only while some waiting call will   *)
(* have it evaluated (it is Heeded): whatever changes something it reads   *)
(* puts a propagation to it in wait.  propagate() drops such a promise     *)
(* when the widget is in propagateCallstack already; but a widget enters   *)
(* there only for the sake of one above it, so it reads nothing that       *)
(* changed (Orderly).  Values follow suit, with the options that           *)
(* loadConfig() has still to set.                                          *)
(***************************************************************************)
EXTENDS Configurator, KconfigExpr_proofs

(* t may wait at level k of work when cs is the call stack: an evaluation  *)
(* is of no widget in the first k - 1 entries, save the choice a guarded   *)
(* evaluation has just entered, and the selections a choice makes wait     *)
(* where its evaluation did; a widget that propagates is not there yet,    *)
(* nor among its own referrers, and is no choice.                          *)
WellCalled(t, k, cs) ==
    /\ t.do = "evaluate" =>
          \A j \in 1..(k - 1) : t.of = cs[j] => t.of \in Choice /\ j = k - 1
    /\ t.do = "propagate" =>
          /\ t.of \notin Range(t.to) \cup Choice
          /\ t.of \in Option \/ \A j \in 1..(k - 1) : t.of # cs[j]
    /\ t.do = "select" => \A j \in 1..(k - 1) : Parent(t.of) = cs[j] => j = k - 1
    /\ t.do \in {"guarded", "set"} => k = 1

AllWellCalled(W, cs) ==
    \A k \in 1..Len(W) : \A i \in 1..Len(W[k]) : WellCalled(W[k][i], k, cs)

(* Choices do not propagate: one in the call stack was evaluated by        *)
(* constructTree() or loadConfig(), or picked from.                        *)
ChoicesFirst(cs) == \A j \in 1..Len(cs) : cs[j] \in Choice => j = 1

Legal(ts, k, cs) == \A i \in 1..Len(ts) : WellCalled(ts[i], k, cs)

CallsOK ==
    /\ propagateCallstack \in Seq(Widget)
    /\ work \in Seq(Seq(Task))
    /\ Len(work) = Len(propagateCallstack) + 1
    /\ NoLoop
    /\ ChoicesFirst(propagateCallstack)
    /\ AllWellCalled(work, propagateCallstack)

DataOK ==
    /\ active \in [Widget -> BOOLEAN]
    /\ value \in [Symbol -> Setting]
    /\ user_value \in [Symbol -> Setting]
    /\ chosen \in [Choice -> Option \cup {None}]
    /\ saved \in [Symbol -> Setting] \cup {None}
    /\ saved # None => \A s \in Text : saved[s] # Blank
    /\ edited \in BOOLEAN

(* The inductive invariant.                                                *)
IInv == DataOK /\ CallsOK
-----------------------------------------------------------------------------
(* Sequences of sequences.                                                 *)

(* Every element of r is one of ts or one of q.                            *)
From(r, ts, q) ==
    \A i \in 1..Len(r) :
        \/ \E j \in 1..Len(ts) : r[i] = ts[j]
        \/ \E j \in 1..Len(q) : r[i] = q[j]

LEMMA FrontElements ==
    ASSUME NEW ts \in Seq(Task), NEW q \in Seq(Task), q # <<>>,
           NEW r, r = ts \o Tail(q)
    PROVE  r \in Seq(Task) /\ From(r, ts, q)
<1>1. Tail(q) \in Seq(Task) /\ Len(Tail(q)) = Len(q) - 1
      /\ \A i \in 1..Len(Tail(q)) : Tail(q)[i] = q[i + 1]
  BY HeadTailProperties
<1>2. /\ r \in Seq(Task)
      /\ Len(r) = Len(ts) + Len(Tail(q))
      /\ \A i \in 1..(Len(ts) + Len(Tail(q))) :
            r[i] = IF i <= Len(ts) THEN ts[i] ELSE Tail(q)[i - Len(ts)]
  BY <1>1, ConcatProperties
<1>3. Len(ts) \in Nat /\ Len(q) \in Nat
  BY LenProperties
<1>4. ASSUME NEW i \in 1..Len(r)
      PROVE  \/ \E j \in 1..Len(ts) : r[i] = ts[j]
             \/ \E j \in 1..Len(q) : r[i] = q[j]
  <2>1. CASE i <= Len(ts)
    BY <1>2, <1>3, <2>1, i \in 1..Len(ts)
  <2>2. CASE i > Len(ts)
    <3>1. i - Len(ts) \in 1..Len(Tail(q)) /\ i - Len(ts) + 1 \in 1..Len(q)
      BY <1>1, <1>2, <1>3, <2>2
    <3>2. r[i] = q[i - Len(ts) + 1]
      BY <1>1, <1>2, <1>3, <2>2, <3>1
    <3>3. QED
      BY <3>1, <3>2
  <2>3. QED
    BY <1>1, <1>2, <1>3, <2>1, <2>2
<1>5. From(r, ts, q)
  BY <1>4, Zenon DEF From
<1>6. QED
  BY <1>2, <1>5, Zenon

(* Replacing the running call by the calls it makes.                       *)
LEMMA LevelReplaced ==
    ASSUME NEW W \in Seq(Seq(Task)), NEW n \in 1..Len(W), NEW r \in Seq(Task),
           NEW V, V = [W EXCEPT ![n] = r]
    PROVE  /\ V \in Seq(Seq(Task))
           /\ Len(V) = Len(W)
           /\ \A k \in 1..Len(W) : V[k] = IF k = n THEN r ELSE W[k]
BY ExceptSeq

(* V is W with the call at the head of level n replaced by ts.             *)
Replaces(V, W, n, ts) ==
    /\ Len(V) = Len(W)
    /\ \A k \in 1..Len(W) : k # n => V[k] = W[k]
    /\ From(V[n], ts, W[n])

LEMMA ThenWork ==
    ASSUME NEW W \in Seq(Seq(Task)), NEW n \in 1..Len(W),
           NEW q \in Seq(Task), q = W[n], q # <<>>,
           NEW ts \in Seq(Task), NEW r, r = ts \o Tail(q),
           NEW V, V = [W EXCEPT ![n] = r]
    PROVE  V \in Seq(Seq(Task)) /\ Replaces(V, W, n, ts)
<1>1. r \in Seq(Task) /\ From(r, ts, q)
  BY FrontElements, Zenon
<1>2. /\ V \in Seq(Seq(Task))
      /\ Len(V) = Len(W)
      /\ \A k \in 1..Len(W) : V[k] = IF k = n THEN r ELSE W[k]
  BY <1>1, LevelReplaced
<1>3. QED
  BY <1>1, <1>2 DEF Replaces

LEMMA LevelKeeps ==
    ASSUME NEW W, NEW n \in 1..Len(W), NEW ts, NEW V, NEW cs,
           Replaces(V, W, n, ts), AllWellCalled(W, cs), Legal(ts, n, cs)
    PROVE  AllWellCalled(V, cs)
<1>1. ASSUME NEW k \in 1..Len(V), NEW i \in 1..Len(V[k])
      PROVE  WellCalled(V[k][i], k, cs)
  <2>1. CASE k # n
    BY <2>1 DEF AllWellCalled, Replaces
  <2>2. CASE k = n
    BY <2>2 DEF AllWellCalled, From, Legal, Replaces
  <2>3. QED
    BY <2>1, <2>2
<1>2. QED
  BY <1>1 DEF AllWellCalled

(* WellCalled looks at the first k - 1 entries only.                       *)
LEMMA SamePrefix ==
    ASSUME NEW t, NEW k \in Nat, NEW cs, NEW ds,
           \A j \in 1..(k - 1) : cs[j] = ds[j],
           WellCalled(t, k, cs)
    PROVE  WellCalled(t, k, ds)
BY DEF WellCalled

(* Entering the call stack.                                                *)
LEMMA LevelAdded ==
    ASSUME NEW n \in Nat, NEW V, NEW cs, NEW U, NEW ds, NEW inner,
           Len(V) = n + 1, Len(U) = n + 2,
           \A i \in 1..(n + 1) : U[i] = V[i],
           U[n + 2] = inner,
           \A i \in 1..n : ds[i] = cs[i],
           AllWellCalled(V, cs), Legal(inner, n + 2, ds)
    PROVE  AllWellCalled(U, ds)
<1>1. ASSUME NEW k \in 1..(n + 1), NEW i \in 1..Len(V[k])
      PROVE  WellCalled(V[k][i], k, ds)
  <2>1. WellCalled(V[k][i], k, cs)
    BY DEF AllWellCalled
  <2>2. \A j \in 1..(k - 1) : cs[j] = ds[j]
    OBVIOUS
  <2>3. QED
    BY <2>1, <2>2, SamePrefix
<1>2. ASSUME NEW k \in 1..(n + 2), NEW i \in 1..Len(U[k])
      PROVE  WellCalled(U[k][i], k, ds)
  <2>1. CASE k = n + 2
    BY <2>1 DEF Legal
  <2>2. CASE k \in 1..(n + 1)
    BY <1>1, <2>2
  <2>3. QED
    BY <2>1, <2>2
<1>3. QED
  BY <1>2 DEF AllWellCalled

(* U and ds are V and cs with the new level m on top.                      *)
Grown(U, ds, V, cs, inner, w, m) ==
    /\ U = Append(V, inner)
    /\ ds = Append(cs, w)
    /\ Len(V) = Len(cs) + 1
    /\ m = Len(V) + 1

LEMMA EnterKeeps ==
    ASSUME NEW V \in Seq(Seq(Task)), NEW cs \in Seq(Widget),
           NEW w \in Widget, NEW inner \in Seq(Task),
           NEW U, NEW ds, NEW m, Grown(U, ds, V, cs, inner, w, m),
           AllWellCalled(V, cs), Legal(inner, m, ds)
    PROVE  /\ U \in Seq(Seq(Task))
           /\ ds \in Seq(Widget)
           /\ Len(U) = Len(ds) + 1
           /\ AllWellCalled(U, ds)
<1>1. U = Append(V, inner) /\ ds = Append(cs, w)
      /\ Len(V) = Len(cs) + 1 /\ m = Len(V) + 1
  BY DEF Grown
<1>2. /\ ds \in Seq(Widget)
      /\ Len(ds) = Len(cs) + 1
      /\ \A i \in 1..Len(cs) : ds[i] = cs[i]
  BY <1>1, AppendProperties
<1>3. /\ U \in Seq(Seq(Task))
      /\ Len(U) = Len(V) + 1
      /\ \A i \in 1..Len(V) : U[i] = V[i]
      /\ U[Len(V) + 1] = inner
  BY <1>1, AppendProperties
<1>4. PICK n \in Nat : n = Len(cs)
  BY LenProperties
<1>5. Len(V) = n + 1 /\ Len(U) = n + 2
  BY <1>1, <1>3, <1>4
<1>6. /\ \A i \in 1..(n + 1) : U[i] = V[i]
      /\ U[n + 2] = inner
      /\ \A i \in 1..n : ds[i] = cs[i]
  BY <1>2, <1>3, <1>4, <1>5
<1>7. Legal(inner, n + 2, ds)
  <2>1. m = n + 2
    BY <1>1, <1>4
  <2>2. QED
    BY <2>1
<1>8. AllWellCalled(U, ds)
  BY <1>4, <1>5, <1>6, <1>7, LevelAdded, Zenon
<1>9. QED
  BY <1>1, <1>2, <1>3, <1>8

(* Leaving it.                                                             *)
LEMMA FrontOf ==
    ASSUME NEW S, NEW s \in Seq(S), NEW n \in Nat, Len(s) = n + 1
    PROVE  /\ SubSeq(s, 1, n) \in Seq(S)
           /\ Len(SubSeq(s, 1, n)) = n
           /\ \A i \in 1..n : SubSeq(s, 1, n)[i] = s[i]
<1>1. \A i \in 1..n : s[i] \in S
  BY ElementOfSeq
<1>2. QED
  BY <1>1, SubSeqProperties

LEMMA FrontKeeps ==
    ASSUME NEW n \in Nat, NEW W, NEW cs, NEW V, NEW ds,
           Len(W) = n + 2, Len(V) = n + 1,
           \A i \in 1..(n + 1) : V[i] = W[i],
           \A i \in 1..n : ds[i] = cs[i],
           AllWellCalled(W, cs)
    PROVE  AllWellCalled(V, ds)
<1>1. ASSUME NEW k \in 1..(n + 1), NEW i \in 1..Len(V[k])
      PROVE  WellCalled(V[k][i], k, ds)
  <2>1. WellCalled(V[k][i], k, cs)
    BY <1>1 DEF AllWellCalled
  <2>2. \A j \in 1..(k - 1) : cs[j] = ds[j]
    OBVIOUS
  <2>3. QED
    BY <2>1, <2>2, SamePrefix
<1>2. QED
  BY <1>1 DEF AllWellCalled
-----------------------------------------------------------------------------
(* The values the engine computes.                                         *)

LEMMA MinElement ==
    ASSUME NEW S \in SUBSET Nat, S # {}
    PROVE  Min(S) \in S
<1> DEFINE R == {p \in Nat \X Nat : p[1] < p[2]}
<1>1. IsWellFoundedOn(R, Nat)
  BY NatLessThanWellFounded DEF OpToRel
<1> HIDE DEF R
<1>2. S \subseteq Nat
  OBVIOUS
<1>3. PICK x \in S : \A y \in S : ~(<<y, x>> \in R)
  BY <1>1, <1>2, WFMin, Zenon
<1>4. ASSUME NEW y \in S
      PROVE  x =< y
  <2>1. y \in Nat /\ x \in Nat /\ ~(<<y, x>> \in R)
    BY <1>2, <1>3
  <2>2. y < x => <<y, x>> \in R
    BY <2>1 DEF R
  <2>3. QED
    BY <2>1, <2>2
<1>5. QED
  BY <1>4 DEF Min

LEMMA OptionHasParent ==
    ASSUME NEW o \in Option
    PROVE  Parent(o) \in Choice /\ o \in Range(Children[Parent(o)])
BY DEF Option, Parent

LEMMA OwnChoice ==
    ASSUME NEW c \in Choice, NEW o \in Range(Children[c])
    PROVE  o \in Option /\ Parent(o) = c
<1>1. o \in Option
  BY DEF Option
<1>2. Parent(o) \in Choice /\ o \in Range(Children[Parent(o)])
  BY <1>1, OptionHasParent
<1>3. QED
  BY <1>1, <1>2, ChoicesApart

LEMMA YMNType == \A x : YMN(x) \in Setting
BY DEF YMN, Setting, Unset

LEMMA ValueType ==
    ASSUME value \in [Symbol -> Setting], NEW s \in Symbol
    PROVE  Value(s) \in Setting
BY TreeTyped DEF Value, Reads

LEMMA DefaultType ==
    ASSUME value \in [Symbol -> Setting], NEW w \in Symbol
    PROVE  getDefault(w) \in Setting
<1> DEFINE d == Node[w].defaults
           hits == {i \in DOMAIN d : evaluateCond(d[i].cond, Env)}
<1>1. CASE hits = {}
  BY <1>1, TreeTyped DEF getDefault
<1>2. CASE hits # {}
  <2>1. hits \in SUBSET Nat
    BY DefaultsTyped
  <2>2. Min(hits) \in DOMAIN d
    BY <1>2, <2>1, MinElement
  <2> DEFINE hit == d[Min(hits)]
  <2>3. hit.default \in Setting
    BY <2>2, DefaultsTyped DEF Setting
  <2>4. hit.kind \in {"constant", "reference", "expression"}
    BY <2>2, DefaultsTyped
  <2>5. hit.name \in Symbol => Value(hit.name) \in Setting
    BY ValueType
  <2>6. YMN(evaluateExpr(hit.expr, Env)) \in Setting
    BY YMNType
  <2>7. getDefault(w) = CASE hit.kind = "constant"   -> hit.default
                          [] hit.kind = "reference"  -> IF hit.name \in Symbol
                                                        THEN Value(hit.name)
                                                        ELSE hit.default
                          [] hit.kind = "expression" -> YMN(evaluateExpr(hit.expr, Env))
    BY <1>2 DEF getDefault
  <2> HIDE DEF hit
  <2>8. QED
    BY <2>3, <2>4, <2>5, <2>6, <2>7
<1>3. QED
  BY <1>1, <1>2

LEMMA AssignedType ==
    ASSUME value \in [Symbol -> Setting], NEW w \in Symbol, NEW x \in Setting
    PROVE  Assigned(w, x) \in Setting
<1>1. getDefault(w) \in Setting
  BY DefaultType
<1>2. 2 \in Setting /\ EmptyText \in Setting
  BY DEF Setting, EmptyText
<1>3. QED
  BY <1>1, <1>2 DEF Assigned

LEMMA RestoredType ==
    ASSUME user_value \in [Symbol -> Setting], NEW w \in Symbol
    PROVE  Restored(w) \in Setting
<1>1. 2 \in Setting
  BY DEF Setting
<1>2. QED
  BY <1>1, YMNType DEF Restored

LEMMA ConditionsBoolean ==
    \A w : /\ Cond(w) \in BOOLEAN
           /\ OptionCond(w) \in BOOLEAN
           /\ \A val : Visible(w, val) \in BOOLEAN
BY DEF Cond, OptionCond, evaluateCond, Visible

LEMMA ChosenType ==
    ASSUME chosen \in [Choice -> Option \cup {None}],
           NEW o \in Option, NEW x
    PROVE  Chosen(o, x) \in Option \cup {None}
<1>1. Parent(o) \in Choice
  BY OptionHasParent
<1>2. QED
  BY <1>1 DEF Chosen

LEMMA ContentType ==
    ASSUME value \in [Symbol -> Setting]
    PROVE  /\ Content \in [Symbol -> Setting]
           /\ \A s \in Text : Content[s] # Blank
BY DEF Content, Setting, Symbol, Unset, Blank, EmptyText
-----------------------------------------------------------------------------
(* The calls it makes.                                                     *)

LEMMA Kinds ==
    /\ Option \subseteq Symbol
    /\ Symbol \subseteq Widget
    /\ Choice \subseteq Widget
    /\ \A o \in Option : o \notin Choice
    /\ \A s \in Symbol : s \notin Choice
BY WidgetsDisjoint DEF Symbol, Stateful, Widget

LEMMA FilterFollows ==
    ASSUME NEW S, NEW s \in Seq(S), NEW T
    PROVE  \E f : /\ f[0] = <<>>
                  /\ \A i \in 1..Len(s) :
                        f[i] = IF s[i] \in T THEN Append(f[i - 1], s[i]) ELSE f[i - 1]
                  /\ \A i \in 0..Len(s) : f[i] \in Seq(S)
                  /\ Filtered(s, T) = f[Len(s)]
<1> DEFINE N == Len(s)
           step == [p \in (1..N) \X Seq(S) |->
                       IF s[p[1]] \in T THEN Append(p[2], s[p[1]]) ELSE p[2]]
           body(g) == [i \in 0..N |-> IF i = 0 THEN <<>>
                        ELSE IF s[i] \in T THEN Append(g[i - 1], s[i]) ELSE g[i - 1]]
<1>1. N \in Nat /\ << >> \in Seq(S)
  BY LenProperties
<1>2. ASSUME NEW i \in 1..N, NEW a \in Seq(S)
      PROVE  /\ step[<<i, a>>] \in Seq(S)
             /\ step[<<i, a>>] = IF s[i] \in T THEN Append(a, s[i]) ELSE a
  <2>1. s[i] \in S
    BY ElementOfSeq
  <2>2. <<i, a>> \in (1..N) \X Seq(S)
    OBVIOUS
  <2>3. QED
    BY <2>1, <2>2, AppendProperties
<1> HIDE DEF step
<1>3. PICK g \in [0..N -> Seq(S)] : Follows(g, N, <<>>, step)
  BY <1>1, <1>2, RecursionExists
<1>4. g = body(g)
  <2>1. ASSUME NEW i \in 0..N
        PROVE  g[i] = IF i = 0 THEN <<>>
                      ELSE IF s[i] \in T THEN Append(g[i - 1], s[i]) ELSE g[i - 1]
    <3>1. i # 0 => i \in 1..N /\ g[i - 1] \in Seq(S)
      BY <1>1
    <3>2. QED
      BY <1>2, <1>3, <3>1 DEF Follows
  <2>2. QED
    BY <2>1
<1> DEFINE f == CHOOSE h : h = body(h)
<1>5. f = body(f)
  BY <1>4
<1>6. Filtered(s, T) = f[N]
  BY DEF Filtered
<1> HIDE DEF f
<1>7. /\ f[0] = <<>>
      /\ \A i \in 1..N : f[i] = IF s[i] \in T THEN Append(f[i - 1], s[i]) ELSE f[i - 1]
  <2>1. ASSUME NEW i \in 0..N
        PROVE  f[i] = IF i = 0 THEN <<>>
                      ELSE IF s[i] \in T THEN Append(f[i - 1], s[i]) ELSE f[i - 1]
    <3>1. body(f)[i] = IF i = 0 THEN <<>>
                       ELSE IF s[i] \in T THEN Append(f[i - 1], s[i]) ELSE f[i - 1]
      OBVIOUS
    <3> HIDE DEF body
    <3>2. QED
      BY <1>5, <3>1
  <2>2. 0 \in 0..N /\ \A i \in 1..N : i \in 0..N /\ i # 0
    BY <1>1
  <2> HIDE DEF body, N
  <2>3. QED
    BY <2>1, <2>2
<1>8. \A i \in 0..N : f[i] \in Seq(S)
  <2> DEFINE U == {n \in Nat : n =< N => f[n] \in Seq(S)}
  <2>1. 0 \in U
    <3>1. f[0] \in Seq(S)
      BY <1>1, <1>7
    <3>2. QED
      BY <3>1
  <2>2. ASSUME NEW n \in Nat, n =< N => f[n] \in Seq(S), n + 1 =< N
        PROVE  f[n + 1] \in Seq(S)
    <3>1. n + 1 \in 1..N /\ (n + 1) - 1 = n
      BY <1>1, <2>2
    <3>2. f[n] \in Seq(S) /\ s[n + 1] \in S
      BY <1>1, <2>2, <3>1, ElementOfSeq
    <3>3. f[n + 1] = IF s[n + 1] \in T THEN Append(f[n], s[n + 1]) ELSE f[n]
      BY <1>7, <3>1
    <3>4. QED
      BY <3>2, <3>3, AppendProperties
  <2>3. \A n \in Nat : n \in U => n + 1 \in U
    BY <2>2
  <2> HIDE DEF U
  <2>4. \A n \in Nat : n \in U
    BY <2>1, <2>3, SetInduction
  <2>5. QED
    BY <1>1, <2>4 DEF U
<1>9. QED
  BY <1>6, <1>7, <1>8

(* Whoever listens to a widget is a widget, and an option's choice comes   *)
(* first.                                                                  *)
LEMMA ReferrersTyped ==
    /\ \A w \in Widget : Referrers[w] \in Seq(Widget)
    /\ \A o \in Option : Referrers[o] # <<>> /\ Head(Referrers[o]) = Parent(o)
<1>1. DependOrder \in Seq(Widget)
  <2>1. /\ Database \in Seq(Widget)
        /\ LabelList \in Seq(Widget)
        /\ ChoiceList \in Seq(Widget)
    BY TreeTyped, Kinds DEF Widget
  <2>2. QED
    BY <2>1, ConcatProperties DEF DependOrder
<1>2. ASSUME NEW T
      PROVE  Filtered(DependOrder, T) \in Seq(Widget)
  <2>1. PICK n \in Nat : n = Len(DependOrder)
    BY <1>1, LenProperties
  <2>2. n \in 0..Len(DependOrder)
    BY <2>1
  <2>3. QED
    BY <1>1, <2>1, <2>2, FilterFollows
<1> DEFINE parent(w) == IF w \in Option THEN <<Parent(w)>> ELSE <<>>
<1>3. ASSUME NEW w \in Widget
      PROVE  \E rs \in Seq(Widget) : Referrers[w] = parent(w) \o rs
  BY <1>2 DEF Referrers
<1>4. ASSUME NEW w \in Widget
      PROVE  Referrers[w] \in Seq(Widget)
  <2>1. PICK rs \in Seq(Widget) : Referrers[w] = parent(w) \o rs
    BY <1>3
  <2>2. parent(w) \in Seq(Widget)
    <3>1. CASE w \in Option
      BY <3>1, OptionHasParent, Kinds
    <3>2. CASE w \notin Option
      BY <3>2
    <3>3. QED
      BY <3>1, <3>2
  <2>3. QED
    BY <2>1, <2>2, ConcatProperties
<1>5. ASSUME NEW o \in Option
      PROVE  Referrers[o] # <<>> /\ Head(Referrers[o]) = Parent(o)
  <2>1. PICK rs \in Seq(Widget), c \in Widget :
           c = Parent(o) /\ Referrers[o] = <<c>> \o rs
    BY <1>3, Kinds, OptionHasParent
  <2>2. /\ Len(<<c>> \o rs) = 1 + Len(rs)
        /\ (<<c>> \o rs)[1] = c
        /\ Len(rs) \in Nat
    BY ConcatProperties, LenProperties
  <2>3. <<c>> \o rs # <<>>
    BY <2>2, EmptySeq
  <2>4. QED
    BY <2>1, <2>2, <2>3
<1>6. QED
  BY <1>4, <1>5

LEMMA TaskFields ==
    ASSUME NEW t \in Task
    PROVE  /\ t.do = "evaluate" => t.of \in Widget
           /\ t.do = "propagate" => t.of \in Widget /\ t.to \in Seq(Widget)
           /\ t.do = "select" => /\ t.of \in Option
                                 /\ t.selected \in BOOLEAN
                                 /\ t.changed \in BOOLEAN
           /\ t.do = "set" => t.of \in Symbol /\ t.to \in Setting \cup {Malformed}
           /\ t.do = "guarded" => t.of \in Choice
BY DEF Task

LEMMA OneCall ==
    ASSUME NEW t \in Task, NEW k, NEW cs, WellCalled(t, k, cs)
    PROVE  <<t>> \in Seq(Task) /\ Legal(<<t>>, k, cs)
BY DEF Legal

LEMMA NoCall ==
    \A k, cs : << >> \in Seq(Task) /\ Legal(<< >>, k, cs)
BY DEF Legal

LEMMA ConcatCalls ==
    ASSUME NEW ts \in Seq(Task), NEW us \in Seq(Task), NEW k, NEW cs,
           Legal(ts, k, cs), Legal(us, k, cs)
    PROVE  ts \o us \in Seq(Task) /\ Legal(ts \o us, k, cs)
<1>1. /\ ts \o us \in Seq(Task)
      /\ Len(ts \o us) = Len(ts) + Len(us)
      /\ \A i \in 1..(Len(ts) + Len(us)) :
            (ts \o us)[i] = IF i <= Len(ts) THEN ts[i] ELSE us[i - Len(ts)]
  BY ConcatProperties
<1>2. Len(ts) \in Nat /\ Len(us) \in Nat
  BY LenProperties
<1>3. ASSUME NEW i \in 1..(Len(ts) + Len(us))
      PROVE  WellCalled((ts \o us)[i], k, cs)
  <2>1. CASE i <= Len(ts)
    BY <1>1, <1>2, <2>1 DEF Legal
  <2>2. CASE i > Len(ts)
    <3>1. i - Len(ts) \in 1..Len(us)
      BY <1>2, <2>2
    <3>2. QED
      BY <1>1, <1>2, <2>2, <3>1 DEF Legal
  <2>3. QED
    BY <1>2, <2>1, <2>2
<1>4. QED
  BY <1>1, <1>3 DEF Legal

LEMMA EvaluateCall ==
    ASSUME NEW w \in Widget, NEW k, NEW cs,
           \A j \in 1..(k - 1) : w = cs[j] => w \in Choice /\ j = k - 1
    PROVE  <<Evaluate(w)>> \in Seq(Task) /\ Legal(<<Evaluate(w)>>, k, cs)
<1> DEFINE t == Evaluate(w)
<1>1. t \in Task
  BY DEF Task, Evaluate
<1>2. WellCalled(t, k, cs)
  BY DEF WellCalled, Evaluate
<1> HIDE DEF t
<1>3. <<t>> \in Seq(Task) /\ Legal(<<t>>, k, cs)
  BY <1>1, <1>2, OneCall
<1>4. QED
  BY <1>3 DEF t

LEMMA NotifyCalls ==
    ASSUME NEW w \in Widget, w \notin Choice, NEW k, NEW cs,
           w \in Option \/ \A j \in 1..(k - 1) : w # cs[j]
    PROVE  Notify(w) \in Seq(Task) /\ Legal(Notify(w), k, cs)
<1> DEFINE t == Propagate(w, Referrers[w])
<1>1. t \in Task
  BY ReferrersTyped DEF Task, Propagate
<1>2. WellCalled(t, k, cs)
  BY NoSelfReference DEF WellCalled, Propagate
<1> HIDE DEF t
<1>3. QED
  BY <1>1, <1>2, OneCall DEF Notify, t

LEMMA ChangedCalls ==
    ASSUME NEW w \in Widget, w \notin Choice, NEW k, NEW cs,
           w \in Option \/ \A j \in 1..(k - 1) : w # cs[j]
    PROVE  Changed(w) \in Seq(Task) /\ Legal(Changed(w), k, cs)
<1> DEFINE us == IF w = Modules THEN <<InvalidateTristate>> ELSE <<>>
<1>1. us \in Seq(Task) /\ Legal(us, k, cs)
  <2>1. InvalidateTristate \in Task /\ WellCalled(InvalidateTristate, k, cs)
    BY DEF InvalidateTristate, Task, WellCalled
  <2>2. QED
    BY <2>1, OneCall, NoCall
<1>2. Notify(w) \in Seq(Task) /\ Legal(Notify(w), k, cs)
  BY NotifyCalls
<1> HIDE DEF us
<1>3. QED
  BY <1>1, <1>2, ConcatCalls DEF Changed, us

LEMMA SelectCalls ==
    ASSUME NEW c \in Choice, NEW name, NEW changed \in BOOLEAN, NEW k, NEW cs,
           \A j \in 1..(k - 1) : c = cs[j] => j = k - 1
    PROVE  /\ SelectOptions(c, name, changed) \in Seq(Task)
           /\ Legal(SelectOptions(c, name, changed), k, cs)
<1>1. Children[c] \in Seq(Option) /\ Len(Children[c]) \in Nat
  BY TreeTyped, LenProperties
<1>2. ASSUME NEW i \in 1..Len(Children[c])
      PROVE  /\ Select(Children[c][i], Children[c][i] = name, changed) \in Task
             /\ WellCalled(Select(Children[c][i], Children[c][i] = name, changed), k, cs)
  <2>1. Children[c][i] \in Range(Children[c])
    BY <1>1, RangeEquality
  <2>2. Children[c][i] \in Option /\ Parent(Children[c][i]) = c
    BY <2>1, OwnChoice
  <2>3. QED
    BY <2>2 DEF Select, Task, WellCalled
<1>3. QED
  BY <1>1, <1>2 DEF SelectOptions, Legal

LEMMA GuardedCalls ==
    ASSUME NEW cs
    PROVE  EvaluateChoices \in Seq(Task) /\ Legal(EvaluateChoices, 1, cs)
<1>1. ChoiceList \in Seq(Choice) /\ Len(ChoiceList) \in Nat
  BY TreeTyped, LenProperties
<1>2. ASSUME NEW i \in 1..Len(ChoiceList)
      PROVE  /\ Guarded(ChoiceList[i]) \in Task
             /\ WellCalled(Guarded(ChoiceList[i]), 1, cs)
  <2>1. ChoiceList[i] \in Choice
    BY <1>1, ElementOfSeq
  <2>2. QED
    BY <2>1 DEF Guarded, Task, WellCalled
<1>3. QED
  BY <1>1, <1>2 DEF EvaluateChoices, Legal
-----------------------------------------------------------------------------
(* One step of the engine, as far as the calls are concerned.              *)

LEMMA TopLevel ==
    ASSUME CallsOK
    PROVE  /\ Depth \in Nat /\ Depth \in 1..Len(work)
           /\ Depth - 1 = Len(propagateCallstack)
           /\ work[Depth] \in Seq(Task)
<1>1. Len(work) \in Nat /\ Len(propagateCallstack) \in Nat
      /\ Len(work) = Len(propagateCallstack) + 1
  BY LenProperties DEF CallsOK
<1>2. Depth \in 1..Len(work)
  BY <1>1 DEF Depth
<1>3. work[Depth] \in Seq(Task)
  BY <1>2, ElementOfSeq DEF CallsOK
<1>4. QED
  BY <1>1, <1>2, <1>3 DEF Depth

LEMMA RunningCall ==
    ASSUME CallsOK, work[Depth] # <<>>
    PROVE  Call \in Task /\ WellCalled(Call, Depth, propagateCallstack)
<1>1. Depth \in 1..Len(work) /\ work[Depth] \in Seq(Task)
  BY TopLevel
<1>2. 1 \in 1..Len(work[Depth]) /\ Call = work[Depth][1]
  BY <1>1, EmptySeq DEF Call
<1>3. Call \in Task
  BY <1>1, <1>2, ElementOfSeq
<1>4. WellCalled(Call, Depth, propagateCallstack)
  BY <1>1, <1>2 DEF CallsOK, AllWellCalled
<1>5. QED
  BY <1>3, <1>4

LEMMA Replaced ==
    ASSUME CallsOK, work[Depth] # <<>>,
           NEW ts \in Seq(Task), Legal(ts, Depth, propagateCallstack),
           NEW V, V = [work EXCEPT ![Depth] = ts \o Tail(@)]
    PROVE  /\ V \in Seq(Seq(Task))
           /\ Len(V) = Len(work)
           /\ AllWellCalled(V, propagateCallstack)
<1>1. /\ Depth \in 1..Len(work)
      /\ work[Depth] \in Seq(Task)
      /\ work \in Seq(Seq(Task))
      /\ AllWellCalled(work, propagateCallstack)
  BY TopLevel DEF CallsOK
<1>2. PICK q \in Seq(Task) : q = work[Depth]
  BY <1>1
<1>3. PICK r : r = ts \o Tail(q)
  OBVIOUS
<1>4. V = [work EXCEPT ![Depth] = r] /\ q # <<>>
  BY <1>2, <1>3
<1>5. V \in Seq(Seq(Task)) /\ Replaces(V, work, Depth, ts)
  BY <1>1, <1>2, <1>3, <1>4, ThenWork, Zenon
<1>6. AllWellCalled(V, propagateCallstack)
  BY <1>1, <1>5, LevelKeeps
<1>7. QED
  BY <1>5, <1>6 DEF Replaces

LEMMA ThenStep ==
    ASSUME CallsOK, work[Depth] # <<>>,
           NEW ts \in Seq(Task), Legal(ts, Depth, propagateCallstack),
           Then(ts)
    PROVE  CallsOK'
<1>1. /\ work' \in Seq(Seq(Task))
      /\ Len(work') = Len(work)
      /\ AllWellCalled(work', propagateCallstack)
  BY Replaced, Zenon DEF Then
<1>2. propagateCallstack' = propagateCallstack
  BY DEF Then
<1>3. NoLoop'
  BY <1>2 DEF CallsOK, NoLoop
<1>4. QED
  BY <1>1, <1>2, <1>3 DEF CallsOK

LEMMA EnterStep ==
    ASSUME CallsOK, work[Depth] # <<>>,
           NEW w \in Widget,
           w \in Option \/ w \notin Range(propagateCallstack),
           w \in Choice => Len(propagateCallstack) = 0,
           NEW inner \in Seq(Task), NEW rest \in Seq(Task),
           Legal(rest, Depth, propagateCallstack),
           Legal(inner, Depth + 1, propagateCallstack'),
           Enter(w, inner, rest)
    PROVE  CallsOK'
<1> DEFINE cs == propagateCallstack
<1>0. PICK V : V = [work EXCEPT ![Depth] = rest \o Tail(@)]
  OBVIOUS
<1>1. /\ V \in Seq(Seq(Task))
      /\ Len(V) = Len(work)
      /\ AllWellCalled(V, propagateCallstack)
  BY <1>0, Replaced, Zenon
<1>2. /\ cs \in Seq(Widget)
      /\ Len(V) = Len(cs) + 1
      /\ NoLoop
  BY <1>1 DEF CallsOK
<1>3. /\ propagateCallstack' = Append(cs, w)
      /\ work' = Append(V, inner)
  BY <1>0 DEF Enter
<1>4. PICK m : m = Depth + 1
  OBVIOUS
<1>5. m = Len(V) + 1 /\ Legal(inner, m, propagateCallstack')
  <2>1. m = Len(V) + 1
    BY <1>1, <1>4 DEF Depth
  <2>2. Legal(inner, m, propagateCallstack')
    BY <1>4
  <2>3. QED
    BY <2>1, <2>2
<1>6. Grown(work', propagateCallstack', V, cs, inner, w, m)
  BY <1>2, <1>3, <1>5 DEF Grown
<1>7. /\ work' \in Seq(Seq(Task))
      /\ propagateCallstack' \in Seq(Widget)
      /\ Len(work') = Len(propagateCallstack') + 1
      /\ AllWellCalled(work', propagateCallstack')
  BY <1>1, <1>2, <1>5, <1>6, EnterKeeps
<1>8. NoLoop'
  <2>1. /\ Len(propagateCallstack') = Len(cs) + 1
        /\ Len(cs) \in Nat
        /\ \A i \in 1..Len(cs) : propagateCallstack'[i] = cs[i]
        /\ propagateCallstack'[Len(cs) + 1] = w
    BY <1>2, <1>3, AppendProperties, LenProperties
  <2>2. \A i \in 1..Len(cs) : cs[i] = w => w \in Option
    BY <1>2, RangeEquality
  <2>3. ASSUME NEW i \in 1..(Len(cs) + 1), NEW j \in 1..(Len(cs) + 1),
               propagateCallstack'[i] = propagateCallstack'[j]
        PROVE  i = j \/ propagateCallstack'[i] \in Option
    <3>1. CASE i = Len(cs) + 1 \/ j = Len(cs) + 1
      BY <2>1, <2>2, <2>3, <3>1
    <3>2. CASE i \in 1..Len(cs) /\ j \in 1..Len(cs)
      BY <1>2, <2>1, <2>3, <3>2 DEF NoLoop
    <3>3. QED
      BY <2>1, <3>1, <3>2
  <2>4. QED
    BY <2>1, <2>3 DEF NoLoop
<1>9. ChoicesFirst(propagateCallstack')
  <2>1. /\ Len(propagateCallstack') = Len(cs) + 1
        /\ Len(cs) \in Nat
        /\ \A i \in 1..Len(cs) : propagateCallstack'[i] = cs[i]
        /\ propagateCallstack'[Len(cs) + 1] = w
    BY <1>2, <1>3, AppendProperties, LenProperties
  <2>2. ASSUME NEW j \in 1..(Len(cs) + 1), propagateCallstack'[j] \in Choice
        PROVE  j = 1
    <3>1. CASE j = Len(cs) + 1
      BY <2>1, <2>2, <3>1
    <3>2. CASE j \in 1..Len(cs)
      BY <2>1, <2>2, <3>2 DEF CallsOK, ChoicesFirst
    <3>3. QED
      BY <2>1, <3>1, <3>2
  <2>3. QED
    BY <2>1, <2>2 DEF ChoicesFirst
<1>10. QED
  BY <1>7, <1>8, <1>9 DEF CallsOK
-----------------------------------------------------------------------------
(* Each call keeps the invariant.                                          *)

LEMMA Runs ==
    ASSUME CallsOK, NEW kind, Running(kind)
    PROVE  /\ work[Depth] # <<>>
           /\ Call.do = kind
           /\ Call \in Task
           /\ WellCalled(Call, Depth, propagateCallstack)
BY RunningCall DEF Running, Call

LEMMA EvaluateWidgetKeeps ==
    ASSUME IInv, EvaluateWidget
    PROVE  IInv'
<1> DEFINE w == Call.of
           x == IF Cond(w) /\ w \in Symbol THEN Assigned(w, Restored(w))
                ELSE value[w]
<1>1. /\ work[Depth] # <<>>
      /\ Call.do = "evaluate"
      /\ Call \in Task
      /\ WellCalled(Call, Depth, propagateCallstack)
  BY Runs DEF IInv, EvaluateWidget
<1>2. w \in Widget /\ w \notin Option \cup Choice
  BY <1>1, TaskFields DEF EvaluateWidget
<1>3. \A j \in 1..(Depth - 1) : w # propagateCallstack[j]
  BY <1>1, <1>2 DEF WellCalled
<1>4. /\ Notify(w) \in Seq(Task)
      /\ Legal(Notify(w), Depth, propagateCallstack)
      /\ Changed(w) \in Seq(Task)
      /\ Legal(Changed(w), Depth, propagateCallstack)
  BY <1>2, <1>3, NotifyCalls, ChangedCalls
<1>5. /\ Changed(w) \o Notify(w) \in Seq(Task)
      /\ Legal(Changed(w) \o Notify(w), Depth, propagateCallstack)
  BY <1>4, ConcatCalls
<1>6. CallsOK'
  <2>1. CASE Then(Changed(w) \o Notify(w))
    BY <1>1, <1>5, <2>1, ThenStep DEF IInv
  <2>2. CASE Then(Notify(w))
    BY <1>1, <1>4, <2>2, ThenStep DEF IInv
  <2>3. QED
    BY <2>1, <2>2 DEF EvaluateWidget
<1>7. active' \in [Widget -> BOOLEAN]
  BY <1>2, ConditionsBoolean DEF EvaluateWidget, IInv, DataOK
<1>8. value' \in [Symbol -> Setting]
  <2>1. CASE w \in Symbol /\ x # value[w]
    <3>1. x \in Setting
      BY <2>1, AssignedType, RestoredType DEF IInv, DataOK
    <3>2. value' = [value EXCEPT ![w] = x]
      BY <2>1 DEF EvaluateWidget
    <3>3. QED
      BY <2>1, <3>1, <3>2 DEF IInv, DataOK
  <2>2. CASE ~(w \in Symbol /\ x # value[w])
    BY <2>2 DEF EvaluateWidget, IInv, DataOK
  <2>3. QED
    BY <2>1, <2>2
<1>9. QED
  BY <1>6, <1>7, <1>8 DEF EvaluateWidget, file, IInv, DataOK

LEMMA EvaluateOptionKeeps ==
    ASSUME IInv, EvaluateOption
    PROVE  IInv'
<1> DEFINE o == Call.of
<1>1. work[Depth] # <<>> /\ o \in Option
  BY Runs DEF IInv, EvaluateOption
<1>2. o \in Widget /\ Parent(o) \in Choice
  BY <1>1, Kinds, OptionHasParent
<1>3. Notify(o) \in Seq(Task) /\ Legal(Notify(o), Depth, propagateCallstack)
  BY <1>1, <1>2, Kinds, NotifyCalls
<1>4. CallsOK'
  BY <1>1, <1>3, ThenStep DEF IInv, EvaluateOption
<1>5. active' \in [Widget -> BOOLEAN]
  BY <1>2, ConditionsBoolean DEF EvaluateOption, IInv, DataOK
<1>6. chosen' \in [Choice -> Option \cup {None}]
  <2>1. Chosen(o, Restored(o)) \in Option \cup {None}
    BY <1>1, ChosenType DEF IInv, DataOK
  <2>2. QED
    BY <1>2, <2>1 DEF EvaluateOption, IInv, DataOK
<1>7. QED
  BY <1>4, <1>5, <1>6 DEF EvaluateOption, file, IInv, DataOK

LEMMA EvaluateChoiceKeeps ==
    ASSUME IInv, EvaluateChoice
    PROVE  IInv'
<1> DEFINE c == Call.of
           act == [w \in Widget |->
                      IF w = c THEN Cond(c)
                      ELSE IF w \in Range(Children[c]) /\ Cond(c)
                      THEN OptionCond(w) ELSE active[w]]
           name == IF chosen[c] # None THEN chosen[c] ELSE ChoiceDefault(c, act)
           changed == active[c] # Cond(c)
<1>1. work[Depth] # <<>> /\ c \in Choice
  BY Runs DEF IInv, EvaluateChoice
<1>2. /\ SelectOptions(c, name, changed) \in Seq(Task)
      /\ Legal(SelectOptions(c, name, changed), Depth, propagateCallstack)
  <2>1. changed \in BOOLEAN
    OBVIOUS
  <2>2. \A j \in 1..(Depth - 1) : c = propagateCallstack[j] => j = Depth - 1
    BY Runs DEF IInv, EvaluateChoice, WellCalled
  <2> HIDE DEF name, changed
  <2>3. QED
    BY <1>1, <2>1, <2>2, SelectCalls
<1>3. active' = act /\ Then(SelectOptions(c, name, changed))
  BY DEF EvaluateChoice
<1>4. CallsOK'
  <2> HIDE DEF name, changed, act
  <2>1. QED
    BY <1>1, <1>2, <1>3, ThenStep DEF IInv
<1>5. active' \in [Widget -> BOOLEAN]
  BY <1>3, ConditionsBoolean DEF IInv, DataOK
<1>6. QED
  BY <1>4, <1>5 DEF EvaluateChoice, file, IInv, DataOK

LEMMA SelectOptionKeeps ==
    ASSUME IInv, SelectOption
    PROVE  IInv'
<1> DEFINE o == Call.of
<1>1. work[Depth] # <<>> /\ o \in Option
  BY Runs, TaskFields DEF IInv, SelectOption
<1>2. o \in Widget /\ o \in Symbol
  BY <1>1, Kinds
<1>3. /\ Notify(o) \in Seq(Task)
      /\ Legal(Notify(o), Depth, propagateCallstack)
  BY <1>1, <1>2, Kinds, NotifyCalls
<1>4. CallsOK'
  BY <1>1, <1>3, NoCall, ThenStep DEF IInv, SelectOption
<1>5. value' \in [Symbol -> Setting]
  <2>1. 0 \in Setting /\ 2 \in Setting
    BY DEF Setting
  <2>2. QED
    BY <1>2, <2>1 DEF SelectOption, IInv, DataOK
<1>6. QED
  BY <1>4, <1>5 DEF SelectOption, file, IInv, DataOK

(* What is left of a propagation once its first referrer is dealt with.    *)
LEMMA RestOfPropagation ==
    ASSUME NEW t \in Task, t.do = "propagate", t.to # <<>>,
           NEW k, NEW cs, WellCalled(t, k, cs)
    PROVE  /\ Head(t.to) \in Widget
           /\ Head(t.to) # t.of
           /\ <<Propagate(t.of, Tail(t.to))>> \in Seq(Task)
           /\ Legal(<<Propagate(t.of, Tail(t.to))>>, k, cs)
<1>1. t.of \in Widget /\ t.to \in Seq(Widget)
  BY TaskFields
<1>2. t.of \notin Range(t.to)
  BY DEF WellCalled
<1>3. /\ Head(t.to) \in Widget
      /\ Tail(t.to) \in Seq(Widget)
      /\ Range(Tail(t.to)) \subseteq Range(t.to)
  <2>1. PICK q \in Seq(Widget) : q = t.to
    BY <1>1
  <2>2. /\ Head(q) \in Widget
        /\ Tail(q) \in Seq(Widget)
        /\ Len(Tail(q)) = Len(q) - 1
        /\ \A i \in 1..Len(Tail(q)) : Tail(q)[i] = q[i + 1]
    BY <2>1, HeadTailProperties
  <2>3. Len(q) \in Nat
    BY LenProperties
  <2>4. Range(Tail(q)) = {Tail(q)[i] : i \in 1..Len(Tail(q))}
        /\ Range(q) = {q[i] : i \in 1..Len(q)}
    BY <2>2, RangeEquality
  <2>5. \A i \in 1..Len(Tail(q)) : i + 1 \in 1..Len(q)
    BY <2>2, <2>3
  <2>6. Range(Tail(q)) \subseteq Range(q)
    BY <2>2, <2>4, <2>5
  <2>7. QED
    BY <2>1, <2>2, <2>6
<1>4. Head(t.to) # t.of
  BY <1>1, <1>2, EmptySeq, RangeEquality
<1> DEFINE u == Propagate(t.of, Tail(t.to))
<1>5. u \in Task
  BY <1>1, <1>3 DEF Task, Propagate
<1>6. WellCalled(u, k, cs)
  BY <1>2, <1>3 DEF WellCalled, Propagate
<1> HIDE DEF u
<1>7. <<u>> \in Seq(Task) /\ Legal(<<u>>, k, cs)
  BY <1>5, <1>6, OneCall
<1>8. QED
  BY <1>3, <1>4, <1>7 DEF u

LEMMA PropagateEndKeeps ==
    ASSUME IInv, PropagateEnd
    PROVE  IInv'
<1>1. work[Depth] # <<>>
  BY Runs DEF IInv, PropagateEnd
<1>2. CallsOK'
  BY <1>1, NoCall, ThenStep DEF IInv, PropagateEnd
<1>3. QED
  BY <1>2 DEF PropagateEnd, state, file, IInv, DataOK

LEMMA PropagateSkipKeeps ==
    ASSUME IInv, PropagateSkip
    PROVE  IInv'
<1>1. /\ work[Depth] # <<>>
      /\ Call.do = "propagate" /\ Call.to # <<>>
      /\ Call \in Task /\ WellCalled(Call, Depth, propagateCallstack)
  BY Runs DEF IInv, PropagateSkip
<1> DEFINE rest == <<Propagate(Call.of, Tail(Call.to))>>
<1>2. rest \in Seq(Task) /\ Legal(rest, Depth, propagateCallstack)
  BY <1>1, RestOfPropagation
<1>3. Then(rest)
  BY DEF PropagateSkip
<1> HIDE DEF rest
<1>4. CallsOK'
  BY <1>1, <1>2, <1>3, ThenStep DEF IInv
<1>5. QED
  BY <1>4 DEF PropagateSkip, state, file, IInv, DataOK

LEMMA PropagateVisitKeeps ==
    ASSUME IInv, PropagateVisit
    PROVE  IInv'
<1> DEFINE w == Call.of
           x == Head(Call.to)
           inner == <<Evaluate(x)>>
           rest == <<Propagate(w, Tail(Call.to))>>
<1>1. /\ work[Depth] # <<>>
      /\ Call.do = "propagate" /\ Call.to # <<>>
      /\ Call \in Task /\ WellCalled(Call, Depth, propagateCallstack)
  BY Runs DEF IInv, PropagateVisit
<1>2. /\ x \in Widget /\ x # w
      /\ rest \in Seq(Task) /\ Legal(rest, Depth, propagateCallstack)
  BY <1>1, RestOfPropagation
<1>3. /\ propagateCallstack \in Seq(Widget)
      /\ Depth \in Nat /\ Depth - 1 = Len(propagateCallstack)
      /\ Len(propagateCallstack) \in Nat
  BY TopLevel, LenProperties DEF IInv, CallsOK
<1>4. /\ w \in Widget /\ w \notin Choice
      /\ w \in Option \/ w \notin Range(propagateCallstack)
  <2>1. w \in Widget /\ w \notin Choice
    BY <1>1, TaskFields DEF WellCalled
  <2>2. w \in Option \/ \A j \in 1..Len(propagateCallstack) : w # propagateCallstack[j]
    BY <1>1, <1>3 DEF WellCalled
  <2>3. QED
    BY <1>3, <2>1, <2>2, RangeEquality
<1>5. Enter(w, inner, rest) /\ x \notin Range(propagateCallstack)
  BY DEF PropagateVisit
<1>6. \A j \in 1..Depth : x # propagateCallstack'[j]
  <2>1. propagateCallstack' = Append(propagateCallstack, w)
    BY <1>5 DEF Enter
  <2>2. \A j \in 1..Len(propagateCallstack) : x # propagateCallstack[j]
    BY <1>3, <1>5, RangeEquality
  <2>3. QED
    <3>1. PICK n \in Nat : n = Len(propagateCallstack)
      BY <1>3
    <3>2. /\ \A j \in 1..n : propagateCallstack'[j] = propagateCallstack[j]
          /\ propagateCallstack'[n + 1] = w
      BY <1>3, <1>4, <2>1, <3>1, AppendProperties
    <3>3. \A j \in 1..(n + 1) : j \in 1..n \/ j = n + 1
      BY <3>1
    <3>4. Depth = n + 1
      BY <1>3, <3>1
    <3>5. QED
      BY <1>2, <2>2, <3>1, <3>2, <3>3, <3>4
<1>7. inner \in Seq(Task) /\ Legal(inner, Depth + 1, propagateCallstack')
  <2>1. PICK m, y, cs : m = Depth + 1 /\ y = x /\ cs = propagateCallstack'
    OBVIOUS
  <2>2. y \in Widget /\ \A j \in 1..(m - 1) : y # cs[j]
    BY <1>2, <1>3, <1>6, <2>1
  <2>3. <<Evaluate(y)>> \in Seq(Task) /\ Legal(<<Evaluate(y)>>, m, cs)
    BY <2>2, EvaluateCall
  <2>4. QED
    BY <2>1, <2>3
<1> HIDE DEF inner, rest, w
<1>8. CallsOK'
  BY <1>1, <1>2, <1>4, <1>5, <1>7, EnterStep DEF IInv
<1>9. QED
  BY <1>8 DEF PropagateVisit, state, file, IInv, DataOK

LEMMA PropagateReturnKeeps ==
    ASSUME IInv, PropagateReturn
    PROVE  IInv'
<1>1. /\ Depth \in Nat /\ Depth > 1
      /\ propagateCallstack \in Seq(Widget)
      /\ work \in Seq(Seq(Task))
      /\ Len(work) = Depth /\ Len(propagateCallstack) = Depth - 1
      /\ NoLoop
      /\ AllWellCalled(work, propagateCallstack)
  BY TopLevel DEF IInv, CallsOK, PropagateReturn, Depth
<1>2. PICK n \in Nat : n = Depth - 2
  BY <1>1
<1>3. Len(propagateCallstack) = n + 1 /\ Len(work) = n + 2
  BY <1>1, <1>2
<1>4. work' = SubSeq(work, 1, n + 1)
      /\ propagateCallstack' = SubSeq(propagateCallstack, 1, n)
  BY <1>1, <1>2 DEF PropagateReturn
<1>5. /\ propagateCallstack' \in Seq(Widget)
      /\ Len(propagateCallstack') = n
      /\ \A i \in 1..n : propagateCallstack'[i] = propagateCallstack[i]
  BY <1>1, <1>3, <1>4, FrontOf
<1>6. /\ work' \in Seq(Seq(Task))
      /\ Len(work') = n + 1
      /\ \A i \in 1..(n + 1) : work'[i] = work[i]
  <2>1. PICK m \in Nat : m = n + 1
    OBVIOUS
  <2>2. Len(work) = m + 1 /\ work' = SubSeq(work, 1, m)
    BY <1>3, <1>4, <2>1
  <2>3. /\ work' \in Seq(Seq(Task))
        /\ Len(work') = m
        /\ \A i \in 1..m : work'[i] = work[i]
    BY <1>1, <2>2, FrontOf
  <2>4. QED
    BY <2>1, <2>3
<1>7. AllWellCalled(work', propagateCallstack')
  <2>1. PICK V, ds : V = work' /\ ds = propagateCallstack'
    OBVIOUS
  <2>2. /\ Len(V) = n + 1
        /\ \A i \in 1..(n + 1) : V[i] = work[i]
        /\ \A i \in 1..n : ds[i] = propagateCallstack[i]
    BY <1>5, <1>6, <2>1
  <2>3. AllWellCalled(V, ds)
    BY <1>1, <1>3, <2>2, FrontKeeps
  <2>4. QED
    BY <2>1, <2>3
<1>8. NoLoop'
  BY <1>1, <1>3, <1>5 DEF NoLoop
<1>9. ChoicesFirst(propagateCallstack')
  BY <1>3, <1>5 DEF ChoicesFirst, IInv, CallsOK
<1>10. CallsOK'
  BY <1>5, <1>6, <1>7, <1>8, <1>9 DEF CallsOK
<1>11. QED
  BY <1>10 DEF PropagateReturn, state, file, IInv, DataOK

(* Two kinds of call are only ever made with an empty call stack.          *)
LEMMA OutermostCall ==
    ASSUME IInv, NEW kind \in {"guarded", "set"}, Running(kind)
    PROVE  Depth = 1 /\ Len(propagateCallstack) = 0
<1>1. Depth = 1
  BY Runs DEF IInv, WellCalled
<1>2. Len(propagateCallstack) \in Nat /\ Depth - 1 = Len(propagateCallstack)
  BY TopLevel, LenProperties DEF IInv, CallsOK
<1>3. QED
  BY <1>1, <1>2

LEMMA EvaluateGuardedKeeps ==
    ASSUME IInv, EvaluateGuarded
    PROVE  IInv'
<1>1. /\ work[Depth] # <<>>
      /\ Call.of \in Choice
      /\ Depth = 1 /\ Len(propagateCallstack) = 0
  BY Runs, TaskFields, OutermostCall DEF IInv, EvaluateGuarded
<1>2. PICK c \in Choice : c = Call.of
  BY <1>1
<1>3. c \in Widget
  BY Kinds
<1>4. c \notin Range(propagateCallstack)
  <2>1. Range(propagateCallstack) =
           {propagateCallstack[i] : i \in 1..Len(propagateCallstack)}
    BY RangeEquality DEF IInv, CallsOK
  <2>2. QED
    BY <1>1, <2>1
<1> DEFINE inner == <<Evaluate(c)>>
<1>5. inner \in Seq(Task) /\ Legal(inner, Depth + 1, propagateCallstack')
  <2>1. PICK m, cs : m = 2 /\ cs = propagateCallstack'
    OBVIOUS
  <2>2. \A j \in 1..(m - 1) : c = cs[j] => c \in Choice /\ j = m - 1
    BY <2>1
  <2>3. inner \in Seq(Task) /\ Legal(inner, m, cs)
    BY <1>3, <2>2, EvaluateCall
  <2>4. m = Depth + 1
    BY <1>1, <2>1
  <2>5. QED
    BY <2>1, <2>3, <2>4
<1>6. Enter(c, inner, <<>>)
  BY <1>2 DEF EvaluateGuarded
<1> HIDE DEF inner
<1>7. CallsOK'
  BY <1>1, <1>3, <1>4, <1>5, <1>6, NoCall, EnterStep DEF IInv
<1>8. QED
  BY <1>7 DEF EvaluateGuarded, state, file, IInv, DataOK

LEMMA ModulesChangeKeeps ==
    ASSUME IInv, ModulesChange
    PROVE  IInv'
<1>1. work[Depth] # <<>>
  BY Runs DEF IInv, ModulesChange
<1>2. CallsOK'
  BY <1>1, NoCall, ThenStep DEF IInv, ModulesChange
<1>3. value' \in [Symbol -> Setting]
  <2>1. 2 \in Setting
    BY DEF Setting
  <2>2. QED
    BY <2>1 DEF ModulesChange, IInv, DataOK
<1>4. QED
  BY <1>2, <1>3 DEF ModulesChange, file, IInv, DataOK

LEMMA ReadType ==
    ASSUME NEW s, NEW x \in Setting
    PROVE  Read(s, x) \in Setting
BY InputsTyped DEF Read, Setting, Range, Unset

LEMMA LoadOptionKeeps ==
    ASSUME IInv, LoadOption
    PROVE  IInv'
<1> DEFINE s == Call.of
           x == Read(s, Call.to)
<1>1. /\ work[Depth] # <<>>
      /\ s \in Symbol
      /\ Call.to \in Setting \cup {Malformed}
      /\ Depth = 1
  BY Runs, TaskFields, OutermostCall DEF IInv, LoadOption
<1>2. x \in Setting
  BY <1>1, ReadType DEF LoadOption
<1>3. /\ s \in Widget /\ s \notin Choice
      /\ s \in Option => Parent(s) \in Choice
  BY <1>1, Kinds, OptionHasParent
<1>4. Changed(s) \in Seq(Task) /\ Legal(Changed(s), Depth, propagateCallstack)
  <2>1. PICK m : m = Depth
    OBVIOUS
  <2>2. \A j \in 1..(m - 1) : s # propagateCallstack[j]
    BY <1>1, <2>1
  <2>3. QED
    BY <1>3, <2>1, <2>2, ChangedCalls
<1>5. CallsOK'
  <2>1. CASE Then(<<>>)
    BY <1>1, <2>1, NoCall, ThenStep DEF IInv
  <2>2. CASE Then(Changed(s))
    BY <1>1, <1>4, <2>2, ThenStep DEF IInv
  <2>3. QED
    BY <2>1, <2>2 DEF LoadOption
<1>6. user_value' \in [Symbol -> Setting]
  BY <1>1, <1>2 DEF LoadOption, IInv, DataOK
<1>7. chosen' \in [Choice -> Option \cup {None}]
  <2>1. CASE s \in Option
    <3>1. Chosen(s, x) \in Option \cup {None}
      BY <2>1, ChosenType DEF IInv, DataOK
    <3>2. chosen' = [chosen EXCEPT ![Parent(s)] = Chosen(s, x)]
      BY <2>1 DEF LoadOption
    <3> HIDE DEF x, s
    <3>3. QED
      BY <1>3, <2>1, <3>1, <3>2 DEF IInv, DataOK
  <2>2. CASE s \notin Option
    BY <2>2 DEF LoadOption, IInv, DataOK
  <2>3. QED
    BY <2>1, <2>2
<1>8. value' \in [Symbol -> Setting]
  <2>1. Assigned(s, x) \in Setting
    BY <1>1, <1>2, AssignedType DEF IInv, DataOK
  <2>2. value' = value \/ value' = [value EXCEPT ![s] = Assigned(s, x)]
    BY DEF LoadOption
  <2> HIDE DEF x, s
  <2>3. QED
    BY <1>1, <2>1, <2>2 DEF IInv, DataOK
<1>9. QED
  BY <1>5, <1>6, <1>7, <1>8 DEF LoadOption, file, IInv, DataOK
-----------------------------------------------------------------------------
(* Each event of the user keeps it.                                        *)

LEMMA StartStep ==
    ASSUME NEW ts \in Seq(Task), Legal(ts, 1, propagateCallstack'),
           propagateCallstack' = <<>>, work' = <<ts>>
    PROVE  CallsOK'
<1>1. propagateCallstack' \in Seq(Widget) /\ Len(propagateCallstack') = 0
  OBVIOUS
<1>2. PICK W : W = <<ts>>
  OBVIOUS
<1>3. W \in Seq(Seq(Task)) /\ Len(W) = 1 /\ W[1] = ts
  BY <1>2
<1>4. AllWellCalled(W, propagateCallstack')
  BY <1>3 DEF AllWellCalled, Legal
<1>5. NoLoop' /\ ChoicesFirst(propagateCallstack')
  BY <1>1 DEF NoLoop, ChoicesFirst
<1>6. QED
  BY <1>1, <1>2, <1>3, <1>4, <1>5 DEF CallsOK

LEMMA Rests ==
    ASSUME CallsOK, Quiescent
    PROVE  propagateCallstack = <<>>
<1>1. Len(work) = 1
  BY DEF Quiescent
<1>2. Len(propagateCallstack) = 0
  BY <1>1, LenProperties DEF CallsOK
<1>3. QED
  BY <1>2, EmptySeq DEF CallsOK

LEMMA LoadFailsKeeps ==
    ASSUME IInv, LoadFails
    PROVE  IInv'
<1>1. propagateCallstack = <<>>
  BY OutermostCall, EmptySeq DEF IInv, CallsOK, LoadFails
<1>2. CallsOK'
  BY <1>1, NoCall, StartStep DEF LoadFails
<1>3. QED
  BY <1>2 DEF LoadFails, state, file, IInv, DataOK

(* What the change handlers of the input fields have in common.            *)
LEMMA UserSetsKeeps ==
    ASSUME IInv, Quiescent, NEW w \in Symbol, NEW x \in Setting, UserSets(w, x),
           Start(Changed(w)) \/ Start(Notify(w))
    PROVE  IInv'
<1>1. propagateCallstack = <<>>
  BY Rests DEF IInv
<1>2. propagateCallstack' = <<>>
  BY <1>1 DEF Start
<1>3. /\ Notify(w) \in Seq(Task) /\ Legal(Notify(w), 1, propagateCallstack')
      /\ Changed(w) \in Seq(Task) /\ Legal(Changed(w), 1, propagateCallstack')
  <2>1. w \in Widget /\ w \notin Choice
    BY Kinds
  <2>2. PICK m : m = 1
    OBVIOUS
  <2>3. \A j \in 1..(m - 1) : w # propagateCallstack'[j]
    BY <2>2
  <2>4. /\ Notify(w) \in Seq(Task) /\ Legal(Notify(w), m, propagateCallstack')
        /\ Changed(w) \in Seq(Task) /\ Legal(Changed(w), m, propagateCallstack')
    BY <2>1, <2>3, NotifyCalls, ChangedCalls
  <2>5. QED
    BY <2>2, <2>4
<1>4. CallsOK'
  BY <1>2, <1>3, StartStep DEF Start
<1>5. /\ value' \in [Symbol -> Setting]
      /\ user_value' \in [Symbol -> Setting]
      /\ edited' \in BOOLEAN
  BY DEF UserSets, IInv, DataOK
<1>6. QED
  BY <1>4, <1>5 DEF UserSets, IInv, DataOK

LEMMA ClickBoolKeeps ==
    ASSUME IInv, NEW w \in Bool, ClickBool(w)
    PROVE  IInv'
<1>1. w \in Symbol /\ 0 \in Setting /\ 2 \in Setting
  BY DEF Symbol, Stateful, Setting
<1>2. PICK x \in Setting : UserSets(w, x)
  BY <1>1 DEF ClickBool
<1>3. QED
  BY <1>1, <1>2, UserSetsKeeps DEF ClickBool, Editable

LEMMA ClickTristateKeeps ==
    ASSUME IInv, NEW w \in Tristate, ClickTristate(w)
    PROVE  IInv'
<1>1. w \in Symbol /\ 0 \in Setting /\ 1 \in Setting /\ 2 \in Setting
  BY DEF Symbol, Stateful, Setting
<1>2. PICK x \in Setting : UserSets(w, x)
  <2>1. PICK x : x = IF value[w] # Unset THEN value[w]
                     ELSE IF getDefault(w) # Unset THEN getDefault(w) ELSE 0
    OBVIOUS
  <2>2. x \in Setting
    BY <1>1, <2>1, DefaultType DEF IInv, DataOK
  <2>3. QED
    BY <1>1, <2>1, <2>2 DEF ClickTristate
<1>3. QED
  BY <1>1, <1>2, UserSetsKeeps DEF ClickTristate, Editable

LEMMA EditTextKeeps ==
    ASSUME IInv, NEW w \in Number \cup Text, NEW x \in Typed(w), EditText(w, x)
    PROVE  IInv'
<1>1. w \in Symbol /\ x \in Setting
  BY TreeTyped DEF Symbol, Setting, Typed
<1>2. QED
  BY <1>1, UserSetsKeeps DEF EditText, Editable

LEMMA PickOptionKeeps ==
    ASSUME IInv, NEW o \in Option, PickOption(o)
    PROVE  IInv'
<1>1. PICK c \in Choice : c = Parent(o)
  BY OptionHasParent
<1>2. c \in Widget
  BY Kinds
<1>3. PICK cs, m, ts : cs = <<c>> /\ m = 2 /\ ts = SelectOptions(c, o, FALSE)
  OBVIOUS
<1>4. propagateCallstack' = cs /\ work' = << <<>>, ts >>
  BY <1>1, <1>3 DEF PickOption
<1>5. cs \in Seq(Widget) /\ Len(cs) = 1
  BY <1>2, <1>3
<1>6. ts \in Seq(Task) /\ Legal(ts, 2, cs)
  <2>1. \A j \in 1..(m - 1) : c = cs[j] => j = m - 1
    BY <1>3
  <2>2. ts \in Seq(Task) /\ Legal(ts, m, cs)
    BY <1>3, <2>1, SelectCalls
  <2>3. QED
    BY <1>3, <2>2
<1>7. PICK e, W : e = <<>> /\ W = <<e, ts>>
  OBVIOUS
<1>8. e \in Seq(Task) /\ Legal(e, 1, cs)
  BY <1>7, NoCall
<1>9. W \in Seq(Seq(Task)) /\ Len(W) = 2 /\ W[1] = e /\ W[2] = ts
  BY <1>6, <1>7, <1>8
<1>10. AllWellCalled(W, cs)
  <2>1. ASSUME NEW k \in 1..2, NEW i \in 1..Len(W[k])
        PROVE  WellCalled(W[k][i], k, cs)
    <3>1. CASE k = 1
      BY <1>8, <1>9, <3>1 DEF Legal
    <3>2. CASE k = 2
      BY <1>6, <1>9, <3>2 DEF Legal
    <3>3. QED
      BY <3>1, <3>2
  <2>2. QED
    BY <1>9, <2>1 DEF AllWellCalled
<1>11. NoLoop' /\ ChoicesFirst(propagateCallstack')
  BY <1>4, <1>5 DEF NoLoop, ChoicesFirst
<1>12. CallsOK'
  BY <1>4, <1>5, <1>7, <1>9, <1>10, <1>11 DEF CallsOK
<1>13. chosen' \in [Choice -> Option \cup {None}] /\ edited' \in BOOLEAN
  BY <1>1 DEF PickOption, IInv, DataOK
<1>14. QED
  BY <1>12, <1>13 DEF PickOption, IInv, DataOK

LEMMA LoadKeeps ==
    ASSUME IInv, NEW f \in Files \cup ({saved} \ {None}), Load(f)
    PROVE  IInv'
<1> DEFINE sets == [i \in 1..Len(Database) |-> SetValue(Database[i], f[Database[i]])]
<1>1. f \in [Symbol -> Setting \cup {Malformed}]
  BY InputsTyped DEF IInv, DataOK
<1>2. Database \in Seq(Symbol) /\ Len(Database) \in Nat
  BY TreeTyped, LenProperties
<1>3. ASSUME NEW i \in 1..Len(Database)
      PROVE  /\ SetValue(Database[i], f[Database[i]]) \in Task
             /\ WellCalled(SetValue(Database[i], f[Database[i]]), 1,
                           propagateCallstack')
  <2>1. Database[i] \in Symbol
    BY <1>2, ElementOfSeq
  <2>2. QED
    BY <1>1, <2>1 DEF SetValue, Task, WellCalled
<1>4. sets \in Seq(Task) /\ Legal(sets, 1, propagateCallstack')
  <2>1. sets \in Seq(Task)
    BY <1>2, <1>3
  <2>2. Len(sets) = Len(Database)
    BY <1>2
  <2>3. \A i \in 1..Len(sets) : WellCalled(sets[i], 1, propagateCallstack')
    BY <1>2, <1>3, <2>2
  <2>4. QED
    BY <2>3, <2>1 DEF Legal
<1> HIDE DEF sets
<1>5. PICK ts : ts = sets \o EvaluateChoices
  OBVIOUS
<1>6. ts \in Seq(Task) /\ Legal(ts, 1, propagateCallstack')
  BY <1>4, <1>5, GuardedCalls, ConcatCalls
<1>7. propagateCallstack' = <<>> /\ work' = <<ts>>
  BY <1>5, Rests DEF Load, Start, sets, IInv
<1>8. CallsOK'
  BY <1>6, <1>7, StartStep
<1>9. /\ user_value' \in [Symbol -> Setting]
      /\ chosen' \in [Choice -> Option \cup {None}]
      /\ edited' \in BOOLEAN
  BY DEF Load, Setting
<1>10. QED
  BY <1>8, <1>9 DEF Load, IInv, DataOK

LEMMA SaveKeeps ==
    ASSUME IInv, Save
    PROVE  IInv'
<1>1. CallsOK'
  BY DEF IInv, Save, CallsOK, NoLoop
<1>2. QED
  BY <1>1, ContentType DEF Save, state, IInv, DataOK
-----------------------------------------------------------------------------
(* The inductive invariant holds of a tree just built...                   *)
LEMMA InitIInv == Init => IInv
<1> SUFFICES ASSUME Init PROVE IInv
  OBVIOUS
<1>1. PICK k \in Shipped :
         /\ value = k.value
         /\ user_value = k.user_value
         /\ active = [w \in Widget |-> Visible(w, k.value)]
         /\ chosen = [c \in Choice |->
               LET y == {o \in Range(Children[c]) : k.value[o] = 2}
               IN  IF y = {} THEN None ELSE CHOOSE o \in y : TRUE]
  BY DEF Init
<1>2. value \in [Symbol -> Setting] /\ user_value \in [Symbol -> Setting]
  BY <1>1, InputsTyped
<1>3. active \in [Widget -> BOOLEAN]
  BY <1>1, ConditionsBoolean
<1>4. chosen \in [Choice -> Option \cup {None}]
  <2>1. ASSUME NEW c \in Choice
        PROVE  LET y == {o \in Range(Children[c]) : k.value[o] = 2}
               IN  (IF y = {} THEN None ELSE CHOOSE o \in y : TRUE)
                      \in Option \cup {None}
    <3> DEFINE y == {o \in Range(Children[c]) : k.value[o] = 2}
    <3>1. y \subseteq Option
      BY DEF Option
    <3>2. y # {} => (CHOOSE o \in y : TRUE) \in y
      OBVIOUS
    <3>3. QED
      BY <3>1, <3>2
  <2>2. QED
    BY <1>1, <2>1
<1>5. DataOK
  BY <1>2, <1>3, <1>4 DEF DataOK, Init
<1> DEFINE us == IF Modules # None THEN <<InvalidateTristate>> ELSE <<>>
<1>6. us \in Seq(Task) /\ Legal(us, 1, propagateCallstack)
  <2>1. /\ InvalidateTristate \in Task
        /\ WellCalled(InvalidateTristate, 1, propagateCallstack)
    BY DEF InvalidateTristate, Task, WellCalled
  <2>2. QED
    BY <2>1, OneCall, NoCall
<1> HIDE DEF us
<1>7. PICK ts : ts = EvaluateChoices \o us
  OBVIOUS
<1>8. ts \in Seq(Task) /\ Legal(ts, 1, propagateCallstack)
  BY <1>6, <1>7, GuardedCalls, ConcatCalls
<1>9. propagateCallstack = <<>> /\ work = <<ts>>
  BY <1>7 DEF Init, us
<1>10. work \in Seq(Seq(Task)) /\ Len(work) = 1 /\ work[1] = ts
  BY <1>8, <1>9
<1>11. AllWellCalled(work, propagateCallstack)
  BY <1>8, <1>10 DEF AllWellCalled, Legal
<1>12. CallsOK
  BY <1>9, <1>10, <1>11 DEF CallsOK, NoLoop, ChoicesFirst
<1>13. QED
  BY <1>5, <1>12 DEF IInv

(* ... and every call and every event keeps it.                            *)
LEMMA NextIInv == IInv /\ [Next]_vars => IInv'
<1> SUFFICES ASSUME IInv, [Next]_vars PROVE IInv'
  OBVIOUS
<1>1. CASE Engine
  BY <1>1, EvaluateWidgetKeeps, EvaluateOptionKeeps, EvaluateChoiceKeeps,
     SelectOptionKeeps, PropagateEndKeeps, PropagateSkipKeeps,
     PropagateVisitKeeps, PropagateReturnKeeps, EvaluateGuardedKeeps,
     ModulesChangeKeeps, LoadOptionKeeps, LoadFailsKeeps DEF Engine
<1>2. CASE User
  BY <1>2, ClickBoolKeeps, ClickTristateKeeps, EditTextKeeps, PickOptionKeeps,
     LoadKeeps, SaveKeeps DEF User
<1>3. CASE UNCHANGED vars
  BY <1>3 DEF vars, IInv, DataOK, CallsOK, NoLoop
<1>4. QED
  BY <1>1, <1>2, <1>3 DEF Next

LEMMA Invariance == Spec => []IInv
<1>1. QED
  BY InitIInv, NextIInv, PTL DEF Spec

(* Whatever the tree, the values kconfig2json.py computed, the files and   *)
(* the order of the user's actions: the widgets keep well-typed values,    *)
(* and propagateCallstack has one entry for each nested propagation.       *)
THEOREM TypeCorrect == Spec => []TypeOK
<1>1. IInv => TypeOK
  BY DEF IInv, DataOK, CallsOK, TypeOK
<1>2. QED
  BY <1>1, Invariance, PTL

(* propagate()'s check of propagateCallstack keeps every widget but an     *)
(* option from being entered twice, in every tree whose symbols do not     *)
(* depend on themselves directly: cycles of any length are cut.            *)
THEOREM LoopsAreCut == Spec => []NoLoop
<1>1. IInv => NoLoop
  BY DEF IInv, CallsOK
<1>2. QED
  BY <1>1, Invariance, PTL
-----------------------------------------------------------------------------
(* What the steps do to the calls that wait.                               *)

LEMMA OptionsOfChoice ==
    ASSUME NEW c \in Choice
    PROVE  /\ Children[c] \in Seq(Option)
           /\ Len(Children[c]) \in Nat /\ Len(Children[c]) > 0
           /\ Range(Children[c]) = {Children[c][i] : i \in 1..Len(Children[c])}
<1>1. Children[c] \in Seq(Option) /\ Children[c] # <<>>
  BY TreeTyped
<1>2. QED
  BY <1>1, LenProperties, EmptySeq, RangeEquality

LEMMA OptionAt ==
    ASSUME NEW c \in Choice, NEW i \in 1..Len(Children[c])
    PROVE  Children[c][i] \in Range(Children[c])
BY OptionsOfChoice

(* No call that may throw an exception.                                    *)
NoSets(ts) == \A i \in 1..Len(ts) : ts[i].do # "set"

(* No call that only constructTree() or loadConfig() makes.                *)
Calm(ts) == \A i \in 1..Len(ts) : ts[i].do \notin {"set", "guarded"}

LEMMA CalmCalls ==
    ASSUME NEW w
    PROVE  /\ Calm(<< >>)
           /\ Calm(Notify(w))
           /\ \A c \in Choice : \A name, chg : Calm(SelectOptions(c, name, chg))
<1>1. Calm(<< >>)
  BY DEF Calm
<1>2. Calm(Notify(w))
  BY DEF Calm, Notify, Propagate
<1>3. ASSUME NEW c \in Choice, NEW name, NEW chg
      PROVE  Calm(SelectOptions(c, name, chg))
  BY OptionsOfChoice DEF Calm, SelectOptions, Select
<1>4. QED
  BY <1>1, <1>2, <1>3

LEMMA CalmConcat ==
    ASSUME NEW ts \in Seq(Task), NEW us \in Seq(Task)
    PROVE  /\ Calm(ts) /\ Calm(us) => Calm(ts \o us)
           /\ NoSets(ts) /\ NoSets(us) => NoSets(ts \o us)
<1>1. /\ Len(ts \o us) = Len(ts) + Len(us)
      /\ \A i \in 1..(Len(ts) + Len(us)) :
            (ts \o us)[i] = IF i <= Len(ts) THEN ts[i] ELSE us[i - Len(ts)]
  BY ConcatProperties
<1>2. Len(ts) \in Nat /\ Len(us) \in Nat
  BY LenProperties
<1>3. \A i \in 1..(Len(ts) + Len(us)) : i > Len(ts) => i - Len(ts) \in 1..Len(us)
  BY <1>2
<1>4. ASSUME Calm(ts), Calm(us)
      PROVE  Calm(ts \o us)
  BY <1>1, <1>2, <1>3, <1>4 DEF Calm
<1>5. ASSUME NoSets(ts), NoSets(us)
      PROVE  NoSets(ts \o us)
  BY <1>1, <1>2, <1>3, <1>5 DEF NoSets
<1>6. QED
  BY <1>4, <1>5

LEMMA CalmChanged ==
    ASSUME NEW w \in Widget
    PROVE  Calm(Changed(w)) /\ Calm(Changed(w) \o Notify(w))
<1> DEFINE us == IF w = Modules THEN <<InvalidateTristate>> ELSE <<>>
<1>1. us \in Seq(Task) /\ Calm(us)
  <2>1. InvalidateTristate \in Task /\ InvalidateTristate.do = "modules"
    BY DEF InvalidateTristate, Task
  <2>2. QED
    BY <2>1 DEF Calm
<1>2. Notify(w) \in Seq(Task) /\ Calm(Notify(w))
  BY ReferrersTyped, CalmCalls DEF Notify, Propagate, Task
<1> HIDE DEF us
<1>3. Notify(w) \o us \in Seq(Task) /\ Calm(Notify(w) \o us)
  BY <1>1, <1>2, CalmConcat, ConcatProperties
<1>4. Changed(w) = Notify(w) \o us
  BY DEF Changed, us
<1>5. QED
  BY <1>2, <1>3, <1>4, CalmConcat

(* The calls that wait behind the one that runs still wait behind those it *)
(* makes.                                                                  *)
LEMMA Behind ==
    ASSUME NEW ts \in Seq(Task), NEW q \in Seq(Task), q # <<>>,
           NEW r, r = ts \o Tail(q)
    PROVE  /\ r \in Seq(Task)
           /\ Len(r) = Len(ts) + Len(q) - 1
           /\ \A i \in 1..Len(ts) : r[i] = ts[i]
           /\ \A i \in 2..Len(q) : r[Len(ts) + i - 1] = q[i]
<1>1. Tail(q) \in Seq(Task) /\ Len(Tail(q)) = Len(q) - 1
      /\ \A i \in 1..Len(Tail(q)) : Tail(q)[i] = q[i + 1]
  BY HeadTailProperties
<1>2. /\ r \in Seq(Task)
      /\ Len(r) = Len(ts) + Len(Tail(q))
      /\ \A i \in 1..(Len(ts) + Len(Tail(q))) :
            r[i] = IF i <= Len(ts) THEN ts[i] ELSE Tail(q)[i - Len(ts)]
  BY <1>1, ConcatProperties
<1>3. Len(ts) \in Nat /\ Len(q) \in Nat
  BY LenProperties
<1>4. ASSUME NEW i \in 2..Len(q)
      PROVE  r[Len(ts) + i - 1] = q[i]
  <2>1. /\ Len(ts) + i - 1 \in 1..(Len(ts) + Len(Tail(q)))
        /\ ~(Len(ts) + i - 1 <= Len(ts))
        /\ Len(ts) + i - 1 - Len(ts) = i - 1
        /\ i - 1 \in 1..Len(Tail(q)) /\ (i - 1) + 1 = i
    BY <1>1, <1>3
  <2>2. QED
    BY <1>1, <1>2, <2>1
<1>5. QED
  BY <1>1, <1>2, <1>3, <1>4

LEMMA Levels ==
    ASSUME CallsOK
    PROVE  /\ Depth \in Nat /\ Depth >= 1
           /\ Len(propagateCallstack) = Depth - 1
           /\ propagateCallstack \in Seq(Widget)
           /\ \A k \in 1..Depth : work[k] \in Seq(Task)
<1>1. /\ work \in Seq(Seq(Task))
      /\ Len(work) = Depth
      /\ propagateCallstack \in Seq(Widget)
  BY DEF CallsOK, Depth
<1>2. Depth \in Nat /\ Depth >= 1 /\ Len(propagateCallstack) = Depth - 1
  BY TopLevel
<1>3. \A k \in 1..Depth : work[k] \in Seq(Task)
  BY <1>1, ElementOfSeq
<1>4. QED
  BY <1>1, <1>2, <1>3

LEMMA ThenLevels ==
    ASSUME CallsOK, work[Depth] # <<>>, NEW ts \in Seq(Task), Then(ts)
    PROVE  /\ Depth' = Depth
           /\ propagateCallstack' = propagateCallstack
           /\ work'[Depth] = ts \o Tail(work[Depth])
           /\ \A k \in 1..Depth : k # Depth => work'[k] = work[k]
<1>1. /\ work \in Seq(Seq(Task))
      /\ Depth \in 1..Len(work) /\ Len(work) = Depth
      /\ work[Depth] \in Seq(Task)
  BY TopLevel DEF CallsOK, Depth
<1>2. PICK r : r = ts \o Tail(work[Depth])
  OBVIOUS
<1>3. r \in Seq(Task)
  BY <1>1, <1>2, Behind
<1>4. work' = [work EXCEPT ![Depth] = r]
  BY <1>1, <1>2 DEF Then
<1>5. /\ Len(work') = Len(work)
      /\ \A k \in 1..Len(work) : work'[k] = IF k = Depth THEN r ELSE work[k]
  BY <1>1, <1>3, <1>4, LevelReplaced
<1>6. Depth' = Len(work')
  BY DEF Depth
<1>7. QED
  BY <1>1, <1>2, <1>5, <1>6 DEF Then

LEMMA EnterLevels ==
    ASSUME CallsOK, work[Depth] # <<>>, NEW w \in Widget,
           NEW inner \in Seq(Task), NEW rest \in Seq(Task),
           Enter(w, inner, rest)
    PROVE  /\ Depth' = Depth + 1
           /\ propagateCallstack'[Depth] = w
           /\ \A k \in 1..(Depth - 1) : propagateCallstack'[k] = propagateCallstack[k]
           /\ work'[Depth + 1] = inner
           /\ work'[Depth] = rest \o Tail(work[Depth])
           /\ \A k \in 1..Depth : k # Depth => work'[k] = work[k]
<1>1. /\ work \in Seq(Seq(Task))
      /\ Depth \in 1..Len(work) /\ Len(work) = Depth
      /\ work[Depth] \in Seq(Task)
      /\ propagateCallstack \in Seq(Widget)
      /\ Depth - 1 = Len(propagateCallstack) /\ Depth \in Nat
  BY TopLevel DEF CallsOK, Depth
<1>2. PICK r : r = rest \o Tail(work[Depth])
  OBVIOUS
<1>3. r \in Seq(Task)
  BY <1>1, <1>2, Behind
<1>4. PICK V : V = [work EXCEPT ![Depth] = r]
  OBVIOUS
<1>5. /\ V \in Seq(Seq(Task))
      /\ Len(V) = Len(work)
      /\ \A k \in 1..Len(work) : V[k] = IF k = Depth THEN r ELSE work[k]
  BY <1>1, <1>3, <1>4, LevelReplaced
<1>6. work' = Append(V, inner)
      /\ propagateCallstack' = Append(propagateCallstack, w)
  BY <1>1, <1>2, <1>4 DEF Enter
<1>7. /\ Len(work') = Len(V) + 1
      /\ \A k \in 1..Len(V) : work'[k] = V[k]
      /\ work'[Len(V) + 1] = inner
  BY <1>5, <1>6, AppendProperties
<1>8. /\ \A k \in 1..Len(propagateCallstack) :
            propagateCallstack'[k] = propagateCallstack[k]
      /\ propagateCallstack'[Len(propagateCallstack) + 1] = w
  BY <1>1, <1>6, AppendProperties
<1>9. Depth' = Len(work')
  BY DEF Depth
<1>10. Len(V) = Depth /\ Depth' = Depth + 1
  BY <1>1, <1>5, <1>7, <1>9
<1>11. work'[Depth + 1] = inner
  BY <1>7, <1>10
<1>12. \A k \in 1..Depth : work'[k] = IF k = Depth THEN r ELSE work[k]
  BY <1>1, <1>5, <1>7, <1>10
<1>13. /\ propagateCallstack'[Depth] = w
       /\ \A k \in 1..(Depth - 1) :
             propagateCallstack'[k] = propagateCallstack[k]
  <2>1. Len(propagateCallstack) + 1 = Depth
    BY <1>1
  <2>2. QED
    BY <1>1, <1>8, <2>1
<1>14. QED
  BY <1>1, <1>2, <1>10, <1>11, <1>12, <1>13

-----------------------------------------------------------------------------
(* Options without conditions of their own are shown with their choice.    *)
(* For such an option kconfig2json.py finds no dependency but the choice,  *)
(* which it writes as y and leaves out, and the condition y.               *)

OptionsShown == \A o \in Option : active[Parent(o)] => active[o]

LEMMA PlainConditions ==
    ASSUME PlainOptions, NEW o \in Option
    PROVE  Cond(o) = TRUE /\ OptionCond(o) = TRUE
BY YesHolds DEF PlainOptions, Cond, OptionCond

LEMMA InitOptionsShown == PlainOptions /\ Init => OptionsShown
<1> SUFFICES ASSUME PlainOptions, Init, NEW o \in Option, active[Parent(o)]
             PROVE  active[o]
  BY DEF OptionsShown
<1>1. PICK val : active = [w \in Widget |-> Visible(w, val)]
  BY DEF Init
<1>2. PICK c \in Choice : c = Parent(o)
  BY OptionHasParent
<1>3. o \in Widget /\ c \in Widget /\ c \notin Option
  BY Kinds
<1>4. Visible(c, val)
  BY <1>1, <1>2, <1>3
<1>5. Node[o].dep = <<>>
  BY DEF PlainOptions
<1>6. Visible(o, val)
  BY <1>2, <1>3, <1>4, <1>5 DEF Visible
<1>7. QED
  BY <1>1, <1>3, <1>6

LEMMA NextOptionsShown ==
    ASSUME PlainOptions, IInv, OptionsShown, [Next]_vars
    PROVE  OptionsShown'
<1>1. active \in [Widget -> BOOLEAN]
  BY DEF IInv, DataOK
<1>2. \A o \in Option : o \in Widget /\ Parent(o) \in Choice /\ o \notin Choice
  BY OptionHasParent, Kinds
<1>3. CASE EvaluateWidget
  <2>1. PICK w, x : /\ w \notin Option \cup Choice
                    /\ active' = [active EXCEPT ![w] = x]
    BY <1>3 DEF EvaluateWidget
  <2>2. QED
    BY <1>1, <1>2, <2>1 DEF OptionsShown
<1>4. CASE EvaluateOption
  <2>1. PICK p \in Option : active' = [active EXCEPT ![p] = Cond(p)]
    BY <1>4 DEF EvaluateOption
  <2>2. active' = [active EXCEPT ![p] = TRUE]
    BY <2>1, PlainConditions
  <2>3. QED
    BY <1>1, <1>2, <2>2 DEF OptionsShown
<1>5. CASE EvaluateChoice
  <2>1. PICK c \in Choice :
           active' = [w \in Widget |->
                         IF w = c THEN Cond(c)
                         ELSE IF w \in Range(Children[c]) /\ Cond(c)
                         THEN OptionCond(w) ELSE active[w]]
    BY <1>5 DEF EvaluateChoice
  <2>2. SUFFICES ASSUME NEW o \in Option, active'[Parent(o)]
                 PROVE  active'[o]
    BY DEF OptionsShown
  <2>3. PICK d \in Choice : d = Parent(o) /\ o \in Range(Children[d])
    BY OptionHasParent
  <2>4. o \in Widget /\ d \in Widget /\ o # c /\ d \notin Option
    BY Kinds
  <2>5. CASE d = c
    BY <2>1, <2>2, <2>3, <2>4, <2>5, PlainConditions
  <2>6. CASE d # c
    <3>1. o \notin Range(Children[c]) /\ d \notin Range(Children[c])
      BY <2>3, <2>4, <2>6, OwnChoice
    <3>2. active'[o] = active[o] /\ active'[d] = active[d]
      BY <2>1, <2>4, <2>6, <3>1
    <3>3. QED
      BY <2>2, <2>3, <3>2 DEF OptionsShown
  <2>7. QED
    BY <2>5, <2>6
<1>6. CASE UNCHANGED active
  BY <1>6 DEF OptionsShown
<1>7. Engine => \/ UNCHANGED active
                \/ EvaluateWidget \/ EvaluateOption \/ EvaluateChoice
  BY DEF Engine, SelectOption, PropagateEnd, PropagateSkip, PropagateVisit,
     PropagateReturn, EvaluateGuarded, ModulesChange, LoadOption, LoadFails, state
<1>8. User => UNCHANGED active
  BY DEF User, ClickBool, ClickTristate, EditText, UserSets, PickOption, Load,
     Save, state
<1>9. QED
  BY <1>3, <1>4, <1>5, <1>6, <1>7, <1>8 DEF Next, vars

-----------------------------------------------------------------------------
(* What a widget's condition and value are computed from.                  *)

(* The widgets whose change makes x be evaluated anew.                     *)
Needs(x) == IF x \in Choice THEN CondSymbols(x) ELSE Mentions(x)

(* A configuration known by what its symbols read as.                      *)
View == [s \in Symbol |-> Value(s)]

EnvIn(r) ==
    [s \in Symbol |-> IF r[s] \in {Unset, Blank} THEN 0 ELSE r[s]]

HoldsIn(r, w) ==
    IF Node[w].cond # <<>> THEN evaluateCond(Node[w].cond, EnvIn(r))
    ELSE Node[w].dep # <<>> => evaluateCond(Node[w].dep, EnvIn(r))

SelectedIn(r, w) ==
    Node[w].rev_dep # <<>> /\ evaluateCond(Node[w].rev_dep, EnvIn(r))

DefaultAt(r, w, i) ==
    LET d == Node[w].defaults[i]
    IN  CASE d.kind = "constant"   -> d.default
          [] d.kind = "reference"  -> IF d.name \in Symbol THEN r[d.name]
                                      ELSE d.default
          [] d.kind = "expression" -> YMN(evaluateExpr(d.expr, EnvIn(r)))

HitsIn(r, w) ==
    {i \in DOMAIN Node[w].defaults :
        evaluateCond(Node[w].defaults[i].cond, EnvIn(r))}

DefaultIn(r, w) ==
    IF HitsIn(r, w) = {} THEN TypeDefault[w]
    ELSE DefaultAt(r, w, Min(HitsIn(r, w)))

AssignedIn(r, w, x) ==
    LET y == IF x = Unset THEN DefaultIn(r, w) ELSE x
    IN  IF w \in Bool /\ SelectedIn(r, w) THEN 2
        ELSE IF w \in Text /\ y \in {Unset, Blank} THEN EmptyText ELSE y

(* The engine computes from what symbols read as and from nothing else.    *)
IsViewed ==
    /\ Env = EnvIn(View)
    /\ \A w : Cond(w) = HoldsIn(View, w)
    /\ \A w : isSelected(w) = SelectedIn(View, w)
    /\ \A w \in Symbol : getDefault(w) = DefaultIn(View, w)
    /\ \A w \in Symbol : \A x : Assigned(w, x) = AssignedIn(View, w, x)

LEMMA Viewed == IsViewed
<1>1. Env = EnvIn(View)
  BY DEF Env, EnvOf, EnvIn, View, Value
<1>2. \A w : Cond(w) = HoldsIn(View, w)
  BY <1>1 DEF Cond, HoldsIn
<1>3. \A w : isSelected(w) = SelectedIn(View, w)
  BY <1>1 DEF isSelected, SelectedIn
<1>4. ASSUME NEW w \in Symbol
      PROVE  getDefault(w) = DefaultIn(View, w)
  <2>1. PICK hits : hits = HitsIn(View, w)
    OBVIOUS
  <2>2. hits = {i \in DOMAIN Node[w].defaults :
                   evaluateCond(Node[w].defaults[i].cond, Env)}
    BY <1>1, <2>1 DEF HitsIn
  <2>3. CASE hits = {}
    BY <2>1, <2>2, <2>3 DEF getDefault, DefaultIn
  <2>4. CASE hits # {}
    <3>1. PICK i : i = Min(hits)
      OBVIOUS
    <3>2. i \in DOMAIN Node[w].defaults
      <4>1. hits \in SUBSET Nat
        BY <2>2, DefaultsTyped
      <4>2. QED
        BY <2>2, <2>4, <3>1, <4>1, MinElement
    <3>3. PICK d : d = Node[w].defaults[i]
      OBVIOUS
    <3>4. d.kind \in {"constant", "reference", "expression"}
      BY <3>2, <3>3, DefaultsTyped
    <3>5. getDefault(w) =
             CASE d.kind = "constant"   -> d.default
               [] d.kind = "reference"  -> IF d.name \in Symbol
                                           THEN Value(d.name) ELSE d.default
               [] d.kind = "expression" -> YMN(evaluateExpr(d.expr, Env))
      BY <2>2, <2>4, <3>1, <3>3 DEF getDefault
    <3>6. DefaultIn(View, w) =
             CASE d.kind = "constant"   -> d.default
               [] d.kind = "reference"  -> IF d.name \in Symbol
                                           THEN View[d.name] ELSE d.default
               [] d.kind = "expression" -> YMN(evaluateExpr(d.expr, Env))
      BY <1>1, <2>1, <2>4, <3>1, <3>3 DEF DefaultIn, DefaultAt
    <3>7. d.name \in Symbol => View[d.name] = Value(d.name)
      BY DEF View
    <3>8. QED
      BY <3>4, <3>5, <3>6, <3>7
  <2>5. QED
    BY <2>3, <2>4
<1>5. \A w \in Symbol : \A x : Assigned(w, x) = AssignedIn(View, w, x)
  BY <1>3, <1>4 DEF Assigned, AssignedIn
<1>6. QED
  BY <1>1, <1>2, <1>3, <1>4, <1>5 DEF IsViewed

LEMMA ViewedNext == IsViewed'
BY Viewed, PTL

(* Two of them with the same readings of the symbols in S.                 *)
Agree(q, r, S) == \A s \in S \cap Symbol : q[s] = r[s]

LEMMA AgreeExpr ==
    ASSUME NEW q, NEW r, NEW s, IsExpr(s), Agree(q, r, SymbolsIn(s))
    PROVE  /\ evaluateExpr(s, EnvIn(q)) = evaluateExpr(s, EnvIn(r))
           /\ evaluateCond(s, EnvIn(q)) = evaluateCond(s, EnvIn(r))
<1>1. PICK d, e : d = EnvIn(q) /\ e = EnvIn(r)
  OBVIOUS
<1>2. DOMAIN d = DOMAIN e
      /\ \A n \in SymbolsIn(s) : n \in DOMAIN e => d[n] = e[n]
  BY <1>1 DEF EnvIn, Agree
<1>3. /\ evaluateExpr(s, d) = evaluateExpr(s, e)
      /\ evaluateCond(s, d) = evaluateCond(s, e)
  BY <1>2, EvalAgrees
<1>4. QED
  BY <1>1, <1>3

LEMMA AgreeHolds ==
    ASSUME NEW q, NEW r, NEW x \in Widget, Agree(q, r, CondSymbols(x))
    PROVE  HoldsIn(q, x) = HoldsIn(r, x)
<1>1. IsExpr(Node[x].cond) /\ IsExpr(Node[x].dep)
  BY ExpressionsTyped
<1>2. Agree(q, r, SymbolsIn(Node[x].cond)) /\ Agree(q, r, SymbolsIn(Node[x].dep))
  BY DEF Agree, CondSymbols
<1>3. /\ evaluateCond(Node[x].cond, EnvIn(q)) = evaluateCond(Node[x].cond, EnvIn(r))
      /\ evaluateCond(Node[x].dep, EnvIn(q)) = evaluateCond(Node[x].dep, EnvIn(r))
  BY <1>1, <1>2, AgreeExpr
<1>4. QED
  BY <1>3 DEF HoldsIn

LEMMA AgreeSelected ==
    ASSUME NEW q, NEW r, NEW x \in Widget, Agree(q, r, Mentions(x))
    PROVE  SelectedIn(q, x) = SelectedIn(r, x)
<1>1. IsExpr(Node[x].rev_dep)
  BY ExpressionsTyped
<1>2. Agree(q, r, SymbolsIn(Node[x].rev_dep))
  BY DEF Agree, Mentions, MentionsConditions
<1>3. evaluateCond(Node[x].rev_dep, EnvIn(q)) = evaluateCond(Node[x].rev_dep, EnvIn(r))
  BY <1>1, <1>2, AgreeExpr
<1>4. QED
  BY <1>3 DEF SelectedIn

(* A default is computed from what it mentions.                            *)
LEMMA AgreeDefaultAt ==
    ASSUME NEW q, NEW r, NEW x \in Symbol, Agree(q, r, Mentions(x)),
           NEW i \in DOMAIN Node[x].defaults
    PROVE  /\ evaluateCond(Node[x].defaults[i].cond, EnvIn(q))
                = evaluateCond(Node[x].defaults[i].cond, EnvIn(r))
           /\ DefaultAt(q, x, i) = DefaultAt(r, x, i)
<1>1. PICK D, d : D = Node[x].defaults /\ d = D[i]
  OBVIOUS
<1>2. IsExpr(d.cond) /\ IsExpr(d.expr)
  BY <1>1, Kinds, ExpressionsTyped
<1>3. SymbolsIn(d.cond) \cup SymbolsIn(d.expr) \cup {d.name} \subseteq Mentions(x)
  <2>1. PICK A : A = UNION {SymbolsIn(D[j].cond) \cup SymbolsIn(D[j].expr)
                              \cup {D[j].name} : j \in DOMAIN D}
    OBVIOUS
  <2>2. A \subseteq Mentions(x)
    BY <1>1, <2>1 DEF Mentions, MentionsDefaults
  <2>3. SymbolsIn(D[i].cond) \cup SymbolsIn(D[i].expr) \cup {D[i].name}
          \in {SymbolsIn(D[j].cond) \cup SymbolsIn(D[j].expr)
                  \cup {D[j].name} : j \in DOMAIN D}
    BY <1>1
  <2>4. QED
    BY <1>1, <2>1, <2>2, <2>3
<1>4. Agree(q, r, SymbolsIn(d.cond)) /\ Agree(q, r, SymbolsIn(d.expr))
  BY <1>3 DEF Agree
<1>5. /\ evaluateCond(d.cond, EnvIn(q)) = evaluateCond(d.cond, EnvIn(r))
      /\ evaluateExpr(d.expr, EnvIn(q)) = evaluateExpr(d.expr, EnvIn(r))
      /\ d.name \in Symbol => q[d.name] = r[d.name]
  BY <1>2, <1>3, <1>4, AgreeExpr DEF Agree
<1>6. QED
  BY <1>1, <1>5 DEF DefaultAt

LEMMA AgreeAssigned ==
    ASSUME NEW q, NEW r, NEW x \in Symbol, Agree(q, r, Mentions(x))
    PROVE  /\ SelectedIn(q, x) = SelectedIn(r, x)
           /\ DefaultIn(q, x) = DefaultIn(r, x)
           /\ \A y : AssignedIn(q, x, y) = AssignedIn(r, x, y)
<1>1. SelectedIn(q, x) = SelectedIn(r, x)
  BY Kinds, AgreeSelected
<1>2. HitsIn(q, x) = HitsIn(r, x)
  BY AgreeDefaultAt DEF HitsIn
<1>3. DefaultIn(q, x) = DefaultIn(r, x)
  <2>1. PICK h : h = HitsIn(r, x)
    OBVIOUS
  <2>2. h # {} => Min(h) \in DOMAIN Node[x].defaults
    <3>1. h \subseteq DOMAIN Node[x].defaults
      BY <2>1 DEF HitsIn
    <3>2. QED
      BY <3>1, DefaultsTyped, MinElement
  <2>3. h # {} => DefaultAt(q, x, Min(h)) = DefaultAt(r, x, Min(h))
    BY <2>2, AgreeDefaultAt
  <2>4. QED
    BY <1>2, <2>1, <2>3 DEF DefaultIn
<1>4. \A y : AssignedIn(q, x, y) = AssignedIn(r, x, y)
  BY <1>1, <1>3 DEF AssignedIn
<1>5. QED
  BY <1>1, <1>3, <1>4

(* No value shown of a symbol in S changes.                                *)
Steady(S) == \A s \in S \cap Symbol : Value(s)' = Value(s)

(* Neither condition nor value changes with it.                            *)
LEMMA SteadyAgrees ==
    ASSUME NEW S, Steady(S)
    PROVE  Agree(View', View, S)
<1>1. View = [s \in Symbol |-> Value(s)] /\ View' = [s \in Symbol |-> Value(s)']
  BY DEF View
<1>2. QED
  BY <1>1 DEF Agree, Steady

LEMMA SteadyCond ==
    ASSUME NEW x \in Widget, Steady(CondSymbols(x))
    PROVE  Cond(x)' = Cond(x)
<1>1. Cond(x) = HoldsIn(View, x) /\ Cond(x)' = HoldsIn(View', x)
  BY Viewed, ViewedNext DEF IsViewed
<1>2. HoldsIn(View', x) = HoldsIn(View, x)
  BY SteadyAgrees, AgreeHolds
<1>3. QED
  BY <1>1, <1>2

LEMMA SteadyAssigned ==
    ASSUME NEW x \in Symbol, Steady(Mentions(x))
    PROVE  /\ isSelected(x)' = isSelected(x)
           /\ getDefault(x)' = getDefault(x)
           /\ \A y : Assigned(x, y)' = Assigned(x, y)
           /\ user_value'[x] = user_value[x] => Restored(x)' = Restored(x)
<1>1. /\ isSelected(x) = SelectedIn(View, x) /\ isSelected(x)' = SelectedIn(View', x)
      /\ getDefault(x) = DefaultIn(View, x) /\ getDefault(x)' = DefaultIn(View', x)
      /\ \A y : Assigned(x, y) = AssignedIn(View, x, y)
      /\ \A y : Assigned(x, y)' = AssignedIn(View', x, y)
      /\ Env = EnvIn(View) /\ Env' = EnvIn(View')
  BY Viewed, ViewedNext DEF IsViewed
<1>2. /\ SelectedIn(View', x) = SelectedIn(View, x)
      /\ DefaultIn(View', x) = DefaultIn(View, x)
      /\ \A y : AssignedIn(View', x, y) = AssignedIn(View, x, y)
  BY SteadyAgrees, AgreeAssigned
<1>3. evaluateExpr(Node[x].weak_rev_dep, EnvIn(View'))
         = evaluateExpr(Node[x].weak_rev_dep, EnvIn(View))
  <2>1. IsExpr(Node[x].weak_rev_dep)
    BY Kinds, ExpressionsTyped
  <2>2. Steady(SymbolsIn(Node[x].weak_rev_dep))
    BY DEF Steady, Mentions, MentionsConditions
  <2>3. QED
    BY <2>1, <2>2, SteadyAgrees, AgreeExpr
<1>4. user_value'[x] = user_value[x] => Restored(x)' = Restored(x)
  BY <1>1, <1>2, <1>3 DEF Restored
<1>5. QED
  BY <1>1, <1>2, <1>4
-----------------------------------------------------------------------------
(* Who hears of a change.                                                  *)

LEMMA RangeEmpty == Range(<< >>) = {}
<1>1. PICK e : e = << >>
  OBVIOUS
<1>2. e \in Seq({}) /\ Len(e) = 0
  BY <1>1
<1>3. Range(e) = {e[i] : i \in 1..0}
  BY <1>2, RangeEquality
<1>4. QED
  BY <1>1, <1>3

LEMMA RangeOne ==
    ASSUME NEW t
    PROVE  Range(<<t>>) = {t}
<1>1. PICK k : k = <<t>>
  OBVIOUS
<1>2. k \in Seq({t}) /\ Len(k) = 1 /\ k[1] = t
  BY <1>1
<1>3. Range(k) = {k[i] : i \in 1..1}
  BY <1>2, RangeEquality
<1>4. QED
  BY <1>1, <1>2, <1>3

LEMMA RangeAppend ==
    ASSUME NEW S, NEW g \in Seq(S), NEW y \in S
    PROVE  Range(Append(g, y)) = Range(g) \cup {y}
<1>1. PICK k : k = Append(g, y)
  OBVIOUS
<1>2. /\ k \in Seq(S) /\ Len(k) = Len(g) + 1
      /\ \A j \in 1..Len(g) : k[j] = g[j]
      /\ k[Len(g) + 1] = y
  BY <1>1, AppendProperties
<1>3. /\ Range(k) = {k[j] : j \in 1..Len(k)}
      /\ Range(g) = {g[j] : j \in 1..Len(g)}
  BY <1>2, RangeEquality
<1>4. Len(g) \in Nat
  BY LenProperties
<1>5. Range(k) = Range(g) \cup {y}
  BY <1>2, <1>3, <1>4
<1>6. QED
  BY <1>1, <1>5

LEMMA RangeConcat ==
    ASSUME NEW S, NEW a \in Seq(S), NEW b \in Seq(S)
    PROVE  Range(a \o b) = Range(a) \cup Range(b)
<1>1. PICK k : k = a \o b
  OBVIOUS
<1>2. /\ k \in Seq(S) /\ Len(k) = Len(a) + Len(b)
      /\ \A i \in 1..(Len(a) + Len(b)) :
            k[i] = IF i <= Len(a) THEN a[i] ELSE b[i - Len(a)]
  BY <1>1, ConcatProperties
<1>3. /\ Range(k) = {k[j] : j \in 1..Len(k)}
      /\ Range(a) = {a[j] : j \in 1..Len(a)}
      /\ Range(b) = {b[j] : j \in 1..Len(b)}
  BY <1>2, RangeEquality
<1>4. Len(a) \in Nat /\ Len(b) \in Nat
  BY LenProperties
<1>5. \A j \in 1..Len(b) : /\ Len(a) + j \in 1..Len(k)
                           /\ k[Len(a) + j] = b[j]
  <2>1. \A j \in 1..Len(b) : /\ Len(a) + j \in 1..(Len(a) + Len(b))
                             /\ ~(Len(a) + j <= Len(a))
                             /\ Len(a) + j - Len(a) = j
    BY <1>4
  <2>2. QED
    BY <1>2, <2>1
<1>6. \A j \in 1..Len(a) : j \in 1..Len(k) /\ k[j] = a[j]
  <2>1. \A j \in 1..Len(a) : j \in 1..(Len(a) + Len(b)) /\ j <= Len(a)
    BY <1>4
  <2>2. QED
    BY <1>2, <2>1
<1>7. \A j \in 1..Len(k) : \/ j \in 1..Len(a) /\ k[j] = a[j]
                           \/ j - Len(a) \in 1..Len(b) /\ k[j] = b[j - Len(a)]
  BY <1>2, <1>4
<1>8. Range(k) \subseteq Range(a) \cup Range(b)
  BY <1>3, <1>7
<1>9. Range(a) \cup Range(b) \subseteq Range(k)
  BY <1>3, <1>5, <1>6
<1>10. QED
  BY <1>1, <1>8, <1>9

LEMMA FilterRange ==
    ASSUME NEW S, NEW s \in Seq(S), NEW T
    PROVE  Range(Filtered(s, T)) = Range(s) \cap T
<1>1. PICK f : /\ f[0] = <<>>
               /\ \A i \in 1..Len(s) :
                     f[i] = IF s[i] \in T THEN Append(f[i - 1], s[i]) ELSE f[i - 1]
               /\ \A i \in 0..Len(s) : f[i] \in Seq(S)
               /\ Filtered(s, T) = f[Len(s)]
  BY FilterFollows
<1>2. PICK n \in Nat : n = Len(s)
  BY LenProperties
<1> DEFINE A == {i \in Nat : i <= n => Range(f[i]) = {s[j] : j \in 1..i} \cap T}
<1>3. 0 \in A
  BY <1>1, RangeEmpty
<1>4. ASSUME NEW i \in Nat, i \in A
      PROVE  i + 1 \in A
  <2>1. SUFFICES ASSUME i + 1 <= n
                 PROVE  Range(f[i + 1]) = {s[j] : j \in 1..(i + 1)} \cap T
    OBVIOUS
  <2>2. i \in 0..n /\ i + 1 \in 1..n /\ (i + 1) - 1 = i
    BY <2>1
  <2>3. Range(f[i]) = {s[j] : j \in 1..i} \cap T
    BY <1>4, <2>2
  <2>4. PICK g, y : g = f[i] /\ y = s[i + 1]
    OBVIOUS
  <2>5. g \in Seq(S) /\ y \in S
    BY <1>1, <1>2, <2>2, <2>4, ElementOfSeq
  <2>6. f[i + 1] = IF y \in T THEN Append(g, y) ELSE g
    BY <1>1, <1>2, <2>2, <2>4
  <2>7. Range(f[i + 1]) = Range(g) \cup ({y} \cap T)
    BY <2>5, <2>6, RangeAppend
  <2>8. {s[j] : j \in 1..(i + 1)} = {s[j] : j \in 1..i} \cup {y}
    BY <2>4
  <2>9. QED
    BY <2>3, <2>4, <2>7, <2>8
<1>5. n \in A
  <2> HIDE DEF A
  <2>1. QED
    BY <1>3, <1>4, SetInduction
<1>6. Range(f[n]) = {s[j] : j \in 1..n} \cap T
  BY <1>5
<1>7. Range(s) = {s[j] : j \in 1..n}
  BY <1>2, RangeEquality
<1>8. QED
  BY <1>1, <1>2, <1>6, <1>7

(* The referrers of a symbol are its choice, if it is an option, and the   *)
(* widgets that mention it.                                                *)
LEMMA HearsOf ==
    ASSUME NEW w \in Widget, NEW x
    PROVE  x \in Range(Referrers[w])
             <=> x \in Widget /\ (w \in Mentions(x) \/ (w \in Option /\ x = Parent(w)))
<1>1. PICK order : order = DependOrder
  OBVIOUS
<1>2. order \in Seq(Widget) /\ Widget \subseteq Range(order)
  <2>1. /\ Database \in Seq(Widget)
        /\ LabelList \in Seq(Widget)
        /\ ChoiceList \in Seq(Widget)
    BY TreeTyped, Kinds DEF Widget
  <2>2. PICK a : a = Database \o LabelList
    OBVIOUS
  <2>3. a \in Seq(Widget) /\ Range(a) = Range(Database) \cup Range(LabelList)
    BY <2>1, <2>2, RangeConcat, ConcatProperties
  <2>4. order = a \o ChoiceList
    BY <1>1, <2>2 DEF DependOrder
  <2>5. order \in Seq(Widget) /\ Range(order) = Range(a) \cup Range(ChoiceList)
    BY <2>1, <2>3, <2>4, RangeConcat, ConcatProperties
  <2>6. QED
    BY <2>3, <2>5, AllCollected, ChoicesApart DEF Widget
<1>3. PICK parent : parent = IF w \in Option THEN <<Parent(w)>> ELSE <<>>
  OBVIOUS
<1>4. /\ parent \in Seq(Widget)
      /\ Range(parent) = IF w \in Option THEN {Parent(w)} ELSE {}
  <2>1. CASE w \in Option
    <3>1. PICK c \in Widget : c = Parent(w)
      BY <2>1, OptionHasParent, Kinds
    <3>2. parent = <<c>>
      BY <1>3, <2>1, <3>1
    <3>3. parent \in Seq(Widget) /\ Range(parent) = {c}
      BY <3>2, RangeOne
    <3>4. QED
      BY <2>1, <3>1, <3>3
  <2>2. CASE w \notin Option
    BY <1>3, <2>2, RangeEmpty
  <2>3. QED
    BY <2>1, <2>2
<1>5. PICK T : T = {y \in Widget : w \in Mentions(y)} \ Range(parent)
  OBVIOUS
<1>6. Referrers[w] = parent \o Filtered(order, T)
  BY <1>1, <1>3, <1>5 DEF Referrers
<1>7. /\ Filtered(order, T) \in Seq(Widget)
      /\ Range(Filtered(order, T)) = Range(order) \cap T
  <2>1. Filtered(order, T) \in Seq(Widget)
    <3>1. Len(order) \in 0..Len(order)
      BY <1>2, LenProperties
    <3>2. QED
      BY <1>2, <3>1, FilterFollows
  <2>2. QED
    BY <1>2, <2>1, FilterRange
<1>8. Range(Referrers[w]) = Range(parent) \cup (Range(order) \cap T)
  BY <1>4, <1>6, <1>7, RangeConcat
<1>9. w \in Option => Parent(w) \in Widget
  BY OptionHasParent, Kinds
<1>10. QED
  BY <1>2, <1>4, <1>5, <1>8, <1>9

LEMMA LayersRise ==
    ASSUME NEW rank, Layered(rank),
           NEW w \in Widget, NEW x \in Range(Referrers[w])
    PROVE  rank[w] \in Nat /\ rank[x] \in Nat /\ rank[w] <= rank[x]
<1>1. x \in Widget /\ (w \in Mentions(x) \/ (w \in Option /\ x = Parent(w)))
  BY HearsOf
<1>2. rank[w] \in Nat /\ rank[x] \in Nat
  BY <1>1 DEF Layered
<1>3. CASE w \in Option /\ x = Parent(w)
  BY <1>2, <1>3 DEF Layered
<1>4. CASE w \in Mentions(x)
  <2>1. \/ rank[w] < rank[x]
        \/ x \in Choice /\ w \in Range(Children[x])
    BY <1>1, <1>4 DEF Layered
  <2>2. CASE x \in Choice /\ w \in Range(Children[x])
    BY <1>2, <2>2, OwnChoice DEF Layered
  <2>3. QED
    BY <1>2, <2>1, <2>2
<1>5. QED
  BY <1>1, <1>2, <1>3, <1>4

(* What a widget needs is above nothing that the widget may change.        *)
LEMMA NeedsBelow ==
    ASSUME NEW rank, Layered(rank),
           NEW x \in Widget, NEW s \in Needs(x) \cap Widget
    PROVE  /\ rank[s] \in Nat /\ rank[x] \in Nat /\ rank[s] < rank[x]
           /\ s \in Mentions(x) /\ s # x
<1>1. s \in Mentions(x)
  BY DEF Needs, CondSymbols, Mentions, MentionsConditions
<1>2. rank[s] \in Nat /\ rank[x] \in Nat
  BY DEF Layered
<1>3. rank[s] < rank[x] \/ (x \in Choice /\ s \notin CondSymbols(x))
  BY <1>1 DEF Layered
<1>4. rank[s] < rank[x]
  BY <1>3 DEF Needs
<1>5. QED
  BY <1>1, <1>2, <1>4

-----------------------------------------------------------------------------
(* The calls that wait.                                                    *)

Waiting == UNION {Range(work[k]) : k \in 1..Depth}

LEMMA WaitingAt ==
    ASSUME NEW t
    PROVE  t \in Waiting <=> \E k \in 1..Depth : t \in Range(work[k])
BY DEF Waiting

(* Replacing the head of q by ts.                                          *)
LEMMA BehindRange ==
    ASSUME NEW ts \in Seq(Task), NEW q \in Seq(Task), q # <<>>,
           NEW r, r = ts \o Tail(q)
    PROVE  /\ r \in Seq(Task)
           /\ Range(ts) \subseteq Range(r)
           /\ Range(r) \subseteq Range(ts) \cup Range(q)
           /\ Range(q) \ {Head(q)} \subseteq Range(r)
           /\ Head(q) \in Range(q)
<1>1. PICK h, u : h = Head(q) /\ u = Tail(q)
  OBVIOUS
<1>2. u \in Seq(Task) /\ h = q[1] /\ Len(u) = Len(q) - 1
      /\ \A i \in 1..Len(u) : u[i] = q[i + 1]
  BY <1>1, HeadTailProperties
<1>3. r \in Seq(Task) /\ Range(r) = Range(ts) \cup Range(u)
  <2>1. r = ts \o u
    BY <1>1
  <2>2. ts \o u \in Seq(Task)
    BY <1>2, ConcatProperties
  <2>3. Range(ts \o u) = Range(ts) \cup Range(u)
    BY <1>2, RangeConcat, Zenon
  <2>4. QED
    BY <2>1, <2>2, <2>3, Zenon
<1>4. /\ Range(q) = {q[i] : i \in 1..Len(q)}
      /\ Range(u) = {u[i] : i \in 1..Len(u)}
  BY <1>2, RangeEquality
<1>5. Len(q) \in Nat /\ Len(q) # 0
  BY LenProperties, EmptySeq
<1>6. \A i \in 1..Len(u) : i + 1 \in 1..Len(q)
  BY <1>2, <1>5
<1>7. \A i \in 1..Len(q) : i = 1 \/ (i - 1 \in 1..Len(u) /\ (i - 1) + 1 = i)
  BY <1>2, <1>5
<1>8. Range(u) \subseteq Range(q)
  BY <1>2, <1>4, <1>6
<1>9. Range(q) \subseteq Range(u) \cup {h}
  <2>1. SUFFICES ASSUME NEW i \in 1..Len(q)
                 PROVE  q[i] \in Range(u) \cup {h}
    BY <1>4
  <2>2. CASE i = 1
    BY <1>2, <2>2
  <2>3. CASE i # 1
    <3>1. PICK j \in 1..Len(u) : j + 1 = i
      BY <1>7, <2>3
    <3>2. QED
      BY <1>2, <1>4, <3>1
  <2>4. QED
    BY <2>2, <2>3
<1>10. h \in Range(q)
  BY <1>2, <1>4, <1>5
<1>11. QED
  BY <1>1, <1>3, <1>8, <1>9, <1>10

LEMMA CallWaits ==
    ASSUME CallsOK, work[Depth] # <<>>
    PROVE  Call \in Range(work[Depth]) /\ Call \in Waiting
<1>1. Depth \in 1..Depth /\ work[Depth] \in Seq(Task)
  BY Levels
<1>2. PICK q \in Seq(Task) : q = work[Depth]
  BY <1>1
<1>3. Head(q) \in Range(q)
  <2>1. Range(q) = {q[i] : i \in 1..Len(q)}
    BY RangeEquality
  <2>2. Head(q) = q[1] /\ Len(q) \in Nat /\ Len(q) # 0
    BY <1>2, HeadTailProperties, LenProperties, EmptySeq
  <2>3. QED
    BY <2>1, <2>2
<1>4. QED
  BY <1>1, <1>2, <1>3, WaitingAt DEF Call

LEMMA ThenWaiting ==
    ASSUME CallsOK, work[Depth] # <<>>, NEW ts \in Seq(Task), Then(ts)
    PROVE  /\ Depth' = Depth
           /\ propagateCallstack' = propagateCallstack
           /\ \A k \in 1..Depth : k # Depth => work'[k] = work[k]
           /\ Range(work'[Depth]) \subseteq Range(ts) \cup Range(work[Depth])
           /\ Range(ts) \subseteq Waiting'
           /\ Waiting \ {Call} \subseteq Waiting'
           /\ Waiting' \subseteq Waiting \cup Range(ts)
<1>1. /\ Depth' = Depth
      /\ propagateCallstack' = propagateCallstack
      /\ work'[Depth] = ts \o Tail(work[Depth])
      /\ \A k \in 1..Depth : k # Depth => work'[k] = work[k]
  BY ThenLevels
<1>2. Depth \in 1..Depth /\ work[Depth] \in Seq(Task)
  BY Levels
<1>3. PICK q, r : q \in Seq(Task) /\ q = work[Depth] /\ r = work'[Depth]
  BY <1>2
<1>4. /\ Range(ts) \subseteq Range(r)
      /\ Range(r) \subseteq Range(ts) \cup Range(q)
      /\ Range(q) \ {Call} \subseteq Range(r)
  BY <1>1, <1>3, BehindRange DEF Call
<1>5. /\ Waiting' = UNION {Range(work'[k]) : k \in 1..Depth}
      /\ Waiting = UNION {Range(work[k]) : k \in 1..Depth}
  BY <1>1 DEF Waiting
<1>6. Range(ts) \subseteq Waiting'
  BY <1>2, <1>3, <1>4, <1>5
<1>7. Waiting \ {Call} \subseteq Waiting'
  <2>1. SUFFICES ASSUME NEW t, t # Call,
                        NEW k \in 1..Depth, t \in Range(work[k])
                 PROVE  t \in Waiting'
    BY <1>5
  <2>2. t \in Range(work'[k])
    BY <1>1, <1>3, <1>4, <2>1
  <2>3. QED
    BY <1>5, <2>2
<1>8. Waiting' \subseteq Waiting \cup Range(ts)
  <2>1. SUFFICES ASSUME NEW t, NEW k \in 1..Depth, t \in Range(work'[k])
                 PROVE  t \in Waiting \cup Range(ts)
    BY <1>5
  <2>2. t \in Range(work[k]) \cup Range(ts)
    BY <1>1, <1>3, <1>4, <2>1
  <2>3. QED
    BY <1>5, <2>2
<1>9. QED
  BY <1>1, <1>3, <1>4, <1>6, <1>7, <1>8

LEMMA EnterWaiting ==
    ASSUME CallsOK, work[Depth] # <<>>, NEW w \in Widget,
           NEW inner \in Seq(Task), NEW rest \in Seq(Task),
           Enter(w, inner, rest)
    PROVE  /\ Depth' = Depth + 1
           /\ propagateCallstack'[Depth] = w
           /\ \A k \in 1..(Depth - 1) : propagateCallstack'[k] = propagateCallstack[k]
           /\ \A k \in 1..Depth : k # Depth => work'[k] = work[k]
           /\ work'[Depth + 1] = inner
           /\ Range(work'[Depth]) \subseteq Range(rest) \cup Range(work[Depth])
           /\ Range(inner) \cup Range(rest) \subseteq Waiting'
           /\ Waiting \ {Call} \subseteq Waiting'
           /\ Waiting' \subseteq Waiting \cup Range(inner) \cup Range(rest)
<1>1. /\ Depth' = Depth + 1
      /\ propagateCallstack'[Depth] = w
      /\ \A k \in 1..(Depth - 1) : propagateCallstack'[k] = propagateCallstack[k]
      /\ work'[Depth + 1] = inner
      /\ work'[Depth] = rest \o Tail(work[Depth])
      /\ \A k \in 1..Depth : k # Depth => work'[k] = work[k]
  BY EnterLevels
<1>2. Depth \in Nat /\ Depth \in 1..Depth /\ work[Depth] \in Seq(Task)
  BY Levels
<1>3. PICK q, r : q \in Seq(Task) /\ q = work[Depth] /\ r = work'[Depth]
  BY <1>2
<1>4. /\ Range(rest) \subseteq Range(r)
      /\ Range(r) \subseteq Range(rest) \cup Range(q)
      /\ Range(q) \ {Call} \subseteq Range(r)
  BY <1>1, <1>3, BehindRange DEF Call
<1>5. /\ Waiting' = UNION {Range(work'[k]) : k \in 1..(Depth + 1)}
      /\ Waiting = UNION {Range(work[k]) : k \in 1..Depth}
  BY <1>1 DEF Waiting
<1>6. Range(inner) \cup Range(rest) \subseteq Waiting'
  <2>1. Depth \in 1..(Depth + 1) /\ Depth + 1 \in 1..(Depth + 1)
    BY <1>2
  <2>2. QED
    BY <1>1, <1>3, <1>4, <1>5, <2>1
<1>7. Waiting \ {Call} \subseteq Waiting'
  <2>1. SUFFICES ASSUME NEW t, t # Call,
                        NEW k \in 1..Depth, t \in Range(work[k])
                 PROVE  t \in Waiting'
    BY <1>5
  <2>2. t \in Range(work'[k])
    BY <1>1, <1>3, <1>4, <2>1
  <2>3. k \in 1..(Depth + 1)
    BY <1>2
  <2>4. QED
    BY <1>5, <2>2, <2>3
<1>8. Waiting' \subseteq Waiting \cup Range(inner) \cup Range(rest)
  <2>1. SUFFICES ASSUME NEW t, NEW k \in 1..(Depth + 1), t \in Range(work'[k])
                 PROVE  t \in Waiting \cup Range(inner) \cup Range(rest)
    BY <1>5
  <2>2. CASE k = Depth + 1
    BY <1>1, <2>1, <2>2
  <2>3. CASE k # Depth + 1
    <3>1. k \in 1..Depth
      BY <1>2, <2>3
    <3>2. t \in Range(work[k]) \cup Range(rest)
      BY <1>1, <1>3, <1>4, <2>1, <3>1
    <3>3. QED
      BY <1>5, <3>1, <3>2
  <2>4. QED
    BY <2>2, <2>3
<1>9. QED
  BY <1>1, <1>3, <1>4, <1>6, <1>7, <1>8

LEMMA ReturnWaiting ==
    ASSUME CallsOK, PropagateReturn
    PROVE  /\ Depth' = Depth - 1
           /\ \A k \in 1..(Depth - 1) : work'[k] = work[k]
           /\ \A k \in 1..(Depth - 2) : propagateCallstack'[k] = propagateCallstack[k]
           /\ Waiting' = Waiting
<1>1. /\ work \in Seq(Seq(Task)) /\ propagateCallstack \in Seq(Widget)
      /\ Len(work) = Depth
  BY DEF CallsOK, Depth
<1>2. Depth \in Nat /\ Depth >= 1 /\ Len(propagateCallstack) = Depth - 1
  BY Levels
<1>3. work[Depth] = <<>> /\ Depth > 1
  BY DEF PropagateReturn
<1>4. PICK n \in Nat : Depth = n + 2
  <2>1. Depth - 2 \in Nat /\ Depth = (Depth - 2) + 2
    BY <1>2, <1>3
  <2>2. QED
    BY <2>1
<1>5. /\ work' = SubSeq(work, 1, n + 1)
      /\ propagateCallstack' = SubSeq(propagateCallstack, 1, n)
      /\ Len(work) = (n + 1) + 1
      /\ Len(propagateCallstack) = n + 1
  <2>1. Depth - 1 = n + 1 /\ Len(propagateCallstack) - 1 = n
    BY <1>2, <1>4
  <2>2. QED
    BY <1>1, <1>2, <1>4, <2>1 DEF PropagateReturn
<1>6. /\ Len(work') = n + 1
      /\ \A k \in 1..(n + 1) : work'[k] = work[k]
  BY <1>1, <1>5, FrontOf
<1>7. \A k \in 1..n : propagateCallstack'[k] = propagateCallstack[k]
  BY <1>1, <1>5, FrontOf
<1>8. Depth' = n + 1
  BY <1>6 DEF Depth
<1>9. /\ Waiting' = UNION {Range(work'[k]) : k \in 1..(n + 1)}
      /\ Waiting = UNION {Range(work[k]) : k \in 1..(n + 2)}
  BY <1>4, <1>8 DEF Waiting
<1>10. Range(work[n + 2]) = {}
  BY <1>3, <1>4, RangeEmpty
<1>11. Waiting' \subseteq Waiting
  <2>1. SUFFICES ASSUME NEW t, NEW k \in 1..(n + 1), t \in Range(work'[k])
                 PROVE  t \in Waiting
    BY <1>9
  <2>2. k \in 1..(n + 2) /\ t \in Range(work[k])
    BY <1>6, <2>1
  <2>3. QED
    BY <1>9, <2>2
<1>12. Waiting \subseteq Waiting'
  <2>1. SUFFICES ASSUME NEW t, NEW k \in 1..(n + 2), t \in Range(work[k])
                 PROVE  t \in Waiting'
    BY <1>9
  <2>2. k \in 1..(n + 1)
    BY <1>10, <2>1
  <2>3. QED
    BY <1>6, <1>9, <2>1, <2>2
<1>13. QED
  BY <1>4, <1>6, <1>7, <1>8, <1>11, <1>12

-----------------------------------------------------------------------------
(* What the calls that wait will see to.                                   *)

(* t will have x evaluated: it evaluates it, it propagates the change of   *)
(* something x needs, or it selects an option that is to propagate.        *)
Promises(t, x) ==
    \/ t.do = "evaluate" /\ t.of = x
    \/ t.do = "propagate" /\ t.of \in Needs(x) /\ x \in Range(t.to)
    \/ t.do = "select" /\ t.changed /\ t.of \in Needs(x)

Heeded(x) == \E t \in Waiting : Promises(t, x)

(* No widget is entered above a higher one, and referrers are told.        *)
Obeys(rank, t, k, cs) ==
    /\ t.do \in {"evaluate", "propagate", "select"} =>
          \A j \in 1..(k - 1) : rank[cs[j]] <= rank[t.of]
    /\ t.do = "propagate" => Range(t.to) \subseteq Range(Referrers[t.of])
    /\ t.do = "modules" => Modules # None

AllObey(rank) ==
    \A k \in 1..Depth : \A t \in Range(work[k]) :
        Obeys(rank, t, k, propagateCallstack)

(* loadConfig() sets its options and then evaluates the choices; in between *)
(* it leaves no call behind.                                               *)
AfterSet(q) ==
    \A i, j \in 1..Len(q) : i < j =>
        /\ q[i].do = "set" => q[j].do \in {"set", "guarded"}
        /\ q[i].do = "guarded" => q[j].do \in {"guarded", "modules"}

Orderly(rank) == AllObey(rank) /\ AfterSet(work[1])

(* The options that loadConfig() has still to set.                         *)
SetTasks == {t \in Waiting : t.do = "set"}

KeepsSets ==
    /\ SetTasks' \subseteq SetTasks
    /\ \A t \in SetTasks : t \in SetTasks' \/ (Running("set") /\ t = Call)

LEMMA CalmRange ==
    ASSUME NEW ts \in Seq(Task), Calm(ts)
    PROVE  \A t \in Range(ts) : t.do \notin {"set", "guarded"}
BY RangeEquality DEF Calm

LEMMA SamePrefixObeys ==
    ASSUME NEW rank, NEW t, NEW k \in Nat, NEW cs, NEW ds,
           \A j \in 1..(k - 1) : cs[j] = ds[j],
           Obeys(rank, t, k, cs)
    PROVE  Obeys(rank, t, k, ds)
BY DEF Obeys

LEMMA AfterSetBehind ==
    ASSUME NEW ts \in Seq(Task), NEW q \in Seq(Task), q # <<>>,
           NEW r, r = ts \o Tail(q), Calm(ts), AfterSet(q)
    PROVE  AfterSet(r)
<1>1. /\ Len(r) = Len(ts) + Len(q) - 1
      /\ \A i \in 1..Len(ts) : r[i] = ts[i]
      /\ \A i \in 2..Len(q) : r[Len(ts) + i - 1] = q[i]
  BY Behind
<1>2. Len(ts) \in Nat /\ Len(q) \in Nat
  BY LenProperties
<1>3. SUFFICES ASSUME NEW i \in 1..Len(r), NEW j \in 1..Len(r),
                      i < j, r[i].do \in {"set", "guarded"}
               PROVE  /\ r[i].do = "set" => r[j].do \in {"set", "guarded"}
                      /\ r[i].do = "guarded" => r[j].do \in {"guarded", "modules"}
  BY DEF AfterSet
<1>4. ~(i <= Len(ts))
  <2>1. i <= Len(ts) => i \in 1..Len(ts)
    BY <1>2
  <2>2. QED
    BY <1>1, <1>3, <2>1 DEF Calm
<1>5. PICK m, n : m = i - Len(ts) + 1 /\ n = j - Len(ts) + 1
  OBVIOUS
<1>6. /\ m \in 2..Len(q) /\ n \in 2..Len(q) /\ m < n
      /\ Len(ts) + m - 1 = i /\ Len(ts) + n - 1 = j
  BY <1>1, <1>2, <1>3, <1>4, <1>5
<1>7. r[i] = q[m] /\ r[j] = q[n]
  BY <1>1, <1>6
<1>8. m \in 1..Len(q) /\ n \in 1..Len(q)
  BY <1>6
<1>9. QED
  BY <1>3, <1>6, <1>7, <1>8 DEF AfterSet

(* The steps keep what is in order.                                        *)
LEMMA ThenOrderly ==
    ASSUME NEW rank, CallsOK, Orderly(rank), work[Depth] # <<>>,
           NEW ts \in Seq(Task), Then(ts), Calm(ts),
           \A t \in Range(ts) : Obeys(rank, t, Depth, propagateCallstack)
    PROVE  Orderly(rank)' /\ KeepsSets
<1>1. /\ Depth' = Depth
      /\ propagateCallstack' = propagateCallstack
      /\ \A k \in 1..Depth : k # Depth => work'[k] = work[k]
      /\ Range(work'[Depth]) \subseteq Range(ts) \cup Range(work[Depth])
  BY ThenWaiting
<1>2. work'[Depth] = ts \o Tail(work[Depth])
  BY ThenLevels
<1>3. Depth \in Nat /\ Depth >= 1 /\ work[Depth] \in Seq(Task)
  BY Levels
<1>4. AllObey(rank)'
  <2>1. SUFFICES ASSUME NEW k \in 1..Depth, NEW t \in Range(work'[k])
                 PROVE  Obeys(rank, t, k, propagateCallstack)
    BY <1>1 DEF AllObey
  <2>2. t \in Range(work[k]) \/ (k = Depth /\ t \in Range(ts))
    BY <1>1
  <2>3. QED
    BY <2>2 DEF Orderly, AllObey
<1>5. KeepsSets
  <2>1. /\ Waiting \ {Call} \subseteq Waiting'
        /\ Waiting' \subseteq Waiting \cup Range(ts)
    BY ThenWaiting
  <2>2. QED
    BY <2>1, CalmRange DEF KeepsSets, SetTasks, Running, Call
<1>6. AfterSet(work'[1])
  <2>1. CASE Depth = 1
    <3>1. PICK q, r : q \in Seq(Task) /\ q = work[1] /\ r = work'[1]
      BY <1>3, <2>1
    <3>2. q # <<>> /\ r = ts \o Tail(q) /\ AfterSet(q)
      BY <1>2, <2>1, <3>1 DEF Orderly
    <3>3. AfterSet(r)
      BY <3>1, <3>2, AfterSetBehind
    <3>4. QED
      BY <3>1, <3>3
  <2>2. CASE Depth # 1
    BY <1>1, <1>3, <2>2 DEF Orderly
  <2>3. QED
    BY <2>1, <2>2
<1>7. QED
  BY <1>4, <1>5, <1>6 DEF Orderly

LEMMA EnterOrderly ==
    ASSUME NEW rank, CallsOK, Orderly(rank), work[Depth] # <<>>,
           NEW w \in Widget, NEW inner \in Seq(Task), NEW rest \in Seq(Task),
           Enter(w, inner, rest), Calm(inner), Calm(rest),
           \A t \in Range(rest) : Obeys(rank, t, Depth, propagateCallstack),
           \A t \in Range(inner) : Obeys(rank, t, Depth + 1, propagateCallstack')
    PROVE  Orderly(rank)' /\ KeepsSets
<1>1. /\ Depth' = Depth + 1
      /\ \A k \in 1..(Depth - 1) : propagateCallstack'[k] = propagateCallstack[k]
      /\ \A k \in 1..Depth : k # Depth => work'[k] = work[k]
      /\ work'[Depth + 1] = inner
      /\ Range(work'[Depth]) \subseteq Range(rest) \cup Range(work[Depth])
  BY EnterWaiting
<1>2. work'[Depth] = rest \o Tail(work[Depth])
  BY EnterLevels
<1>3. Depth \in Nat /\ Depth >= 1 /\ work[Depth] \in Seq(Task)
  BY Levels
<1>4. AllObey(rank)'
  <2>1. SUFFICES ASSUME NEW k \in 1..(Depth + 1), NEW t \in Range(work'[k])
                 PROVE  Obeys(rank, t, k, propagateCallstack')
    BY <1>1 DEF AllObey
  <2>2. CASE k = Depth + 1
    BY <1>1, <2>2
  <2>3. CASE k # Depth + 1
    <3>1. k \in 1..Depth /\ k \in Nat
      BY <1>3, <2>3
    <3>2. t \in Range(work[k]) \/ (k = Depth /\ t \in Range(rest))
      BY <1>1, <3>1
    <3>3. Obeys(rank, t, k, propagateCallstack)
      BY <3>1, <3>2 DEF Orderly, AllObey
    <3>4. \A j \in 1..(k - 1) : propagateCallstack[j] = propagateCallstack'[j]
      BY <1>1, <1>3, <3>1
    <3>5. PICK cs, ds : cs = propagateCallstack /\ ds = propagateCallstack'
      OBVIOUS
    <3>6. Obeys(rank, t, k, ds)
      BY <3>1, <3>3, <3>4, <3>5, SamePrefixObeys
    <3>7. QED
      BY <3>5, <3>6
  <2>4. QED
    BY <2>2, <2>3
<1>5. KeepsSets
  <2>1. /\ Waiting \ {Call} \subseteq Waiting'
        /\ Waiting' \subseteq Waiting \cup Range(inner) \cup Range(rest)
    BY EnterWaiting
  <2>2. QED
    BY <2>1, CalmRange DEF KeepsSets, SetTasks, Running, Call
<1>6. AfterSet(work'[1])
  <2>1. CASE Depth = 1
    <3>1. PICK q, r : q \in Seq(Task) /\ q = work[1] /\ r = work'[1]
      BY <1>3, <2>1
    <3>2. q # <<>> /\ r = rest \o Tail(q) /\ AfterSet(q)
      BY <1>2, <2>1, <3>1 DEF Orderly
    <3>3. AfterSet(r)
      BY <3>1, <3>2, AfterSetBehind
    <3>4. QED
      BY <3>1, <3>3
  <2>2. CASE Depth # 1
    BY <1>1, <1>3, <2>2 DEF Orderly
  <2>3. QED
    BY <2>1, <2>2
<1>7. QED
  BY <1>4, <1>5, <1>6 DEF Orderly

LEMMA ReturnOrderly ==
    ASSUME NEW rank, CallsOK, Orderly(rank), PropagateReturn
    PROVE  Orderly(rank)' /\ KeepsSets
<1>1. /\ Depth' = Depth - 1
      /\ \A k \in 1..(Depth - 1) : work'[k] = work[k]
      /\ \A k \in 1..(Depth - 2) : propagateCallstack'[k] = propagateCallstack[k]
  BY ReturnWaiting
<1>2. Depth \in Nat /\ Depth > 1
  BY Levels DEF PropagateReturn
<1>3. AllObey(rank)'
  <2>1. SUFFICES ASSUME NEW k \in 1..(Depth - 1), NEW t \in Range(work'[k])
                 PROVE  Obeys(rank, t, k, propagateCallstack')
    BY <1>1 DEF AllObey
  <2>2. Obeys(rank, t, k, propagateCallstack)
    BY <1>1, <1>2 DEF Orderly, AllObey
  <2>3. k \in Nat /\ \A j \in 1..(k - 1) : propagateCallstack[j] = propagateCallstack'[j]
    BY <1>1, <1>2
  <2>4. PICK cs, ds : cs = propagateCallstack /\ ds = propagateCallstack'
    OBVIOUS
  <2>5. Obeys(rank, t, k, ds)
    BY <2>2, <2>3, <2>4, SamePrefixObeys
  <2>6. QED
    BY <2>4, <2>5
<1>4. AfterSet(work'[1])
  BY <1>1, <1>2 DEF Orderly
<1>5. KeepsSets
  BY ReturnWaiting DEF KeepsSets, SetTasks
<1>6. QED
  BY <1>3, <1>4, <1>5 DEF Orderly

(* What is seen to stays seen to, but by the call that runs.               *)
LEMMA ThenHeeds ==
    ASSUME CallsOK, work[Depth] # <<>>, NEW ts \in Seq(Task), Then(ts), NEW x
    PROVE  /\ Heeded(x) => Heeded(x)' \/ Promises(Call, x)
           /\ \A t \in Range(ts) : t \in Waiting' /\ (Promises(t, x) => Heeded(x)')
BY ThenWaiting DEF Heeded

LEMMA EnterHeeds ==
    ASSUME CallsOK, work[Depth] # <<>>, NEW w \in Widget,
           NEW inner \in Seq(Task), NEW rest \in Seq(Task),
           Enter(w, inner, rest), NEW x
    PROVE  /\ Heeded(x) => Heeded(x)' \/ Promises(Call, x)
           /\ \A t \in Range(inner) \cup Range(rest) : Promises(t, x) => Heeded(x)'
BY EnterWaiting DEF Heeded

(* The change of w is made known to its referrers.                         *)
Told(w) == Propagate(w, Referrers[w]) \in Waiting

Tells(ts, w) ==
    /\ ts \in Seq(Task)
    /\ Calm(ts)
    /\ Propagate(w, Referrers[w]) \in Range(ts)
    /\ \A t \in Range(ts) : \/ t = Propagate(w, Referrers[w])
                            \/ t = InvalidateTristate /\ Modules # None

LEMMA NotifyTells ==
    ASSUME NEW w \in Widget
    PROVE  /\ Tells(Notify(w), w)
           /\ Tells(Changed(w), w)
           /\ Tells(Changed(w) \o Notify(w), w)
<1>1. PICK p, m : p = Propagate(w, Referrers[w]) /\ m = InvalidateTristate
  OBVIOUS
<1>2. p \in Task /\ m \in Task
  BY <1>1, ReferrersTyped DEF Propagate, InvalidateTristate, Task
<1>3. Notify(w) \in Seq(Task) /\ Range(Notify(w)) = {p}
  <2>1. Notify(w) = <<p>>
    BY <1>1 DEF Notify
  <2>2. QED
    BY <1>2, <2>1, RangeOne
<1>4. PICK us : us = IF w = Modules THEN <<m>> ELSE <<>>
  OBVIOUS
<1>5. /\ us \in Seq(Task)
      /\ Range(us) = IF w = Modules THEN {m} ELSE {}
  <2>1. CASE w = Modules
    <3>1. us = <<m>>
      BY <1>4, <2>1
    <3>2. us \in Seq(Task) /\ Range(us) = {m}
      BY <1>2, <3>1, RangeOne
    <3>3. QED
      BY <2>1, <3>2
  <2>2. CASE w # Modules
    BY <1>4, <2>2, RangeEmpty
  <2>3. QED
    BY <2>1, <2>2
<1>6. PICK n : n = Notify(w)
  OBVIOUS
<1>7. PICK ch : ch = n \o us
  OBVIOUS
<1>8. ch \in Seq(Task) /\ Range(ch) = Range(n) \cup Range(us)
  <2>1. n \in Seq(Task)
    BY <1>3, <1>6
  <2>2. n \o us \in Seq(Task) /\ Range(n \o us) = Range(n) \cup Range(us)
    BY <1>5, <2>1, RangeConcat, ConcatProperties
  <2>3. QED
    BY <1>7, <2>2, Zenon
<1>9. Changed(w) = ch
  BY <1>1, <1>4, <1>6, <1>7 DEF Changed
<1>10. PICK bo : bo = ch \o n
  OBVIOUS
<1>11. bo \in Seq(Task) /\ Range(bo) = Range(ch) \cup Range(n)
  <2>1. n \in Seq(Task)
    BY <1>3, <1>6
  <2>2. ch \o n \in Seq(Task) /\ Range(ch \o n) = Range(ch) \cup Range(n)
    BY <1>8, <2>1, RangeConcat, ConcatProperties
  <2>3. QED
    BY <1>10, <2>2, Zenon
<1>12. w = Modules => Modules # None
  BY TreeTyped
<1>13. Calm(Notify(w)) /\ Calm(Changed(w)) /\ Calm(Changed(w) \o Notify(w))
  BY CalmCalls, CalmChanged
<1>14. Tells(Notify(w), w)
  BY <1>1, <1>3, <1>13 DEF Tells
<1>15. Tells(Changed(w), w)
  <2>1. Calm(ch) /\ Range(ch) = {p} \cup (IF w = Modules THEN {m} ELSE {})
    BY <1>3, <1>5, <1>6, <1>8, <1>9, <1>13
  <2>2. Tells(ch, w)
    BY <1>1, <1>8, <1>12, <2>1 DEF Tells
  <2>3. QED
    BY <1>9, <2>2
<1>16. Tells(Changed(w) \o Notify(w), w)
  <2>1. Changed(w) \o Notify(w) = bo
    BY <1>6, <1>9, <1>10
  <2>2. Calm(bo) /\ Range(bo) = {p} \cup (IF w = Modules THEN {m} ELSE {})
    BY <1>3, <1>5, <1>6, <1>8, <1>11, <1>13, <2>1
  <2>3. Tells(bo, w)
    BY <1>1, <1>11, <1>12, <2>2 DEF Tells
  <2>4. QED
    BY <2>1, <2>3
<1>17. QED
  BY <1>14, <1>15, <1>16

LEMMA TellsObeys ==
    ASSUME NEW rank, NEW w, NEW ts, Tells(ts, w), NEW k, NEW cs,
           \A j \in 1..(k - 1) : rank[cs[j]] <= rank[w]
    PROVE  \A t \in Range(ts) : Obeys(rank, t, k, cs)
<1>1. Obeys(rank, Propagate(w, Referrers[w]), k, cs)
  BY DEF Obeys, Propagate
<1>2. Modules # None => Obeys(rank, InvalidateTristate, k, cs)
  BY DEF Obeys, InvalidateTristate
<1>3. QED
  BY <1>1, <1>2 DEF Tells

LEMMA TellStep ==
    ASSUME NEW rank, CallsOK, Orderly(rank), work[Depth] # <<>>,
           NEW w, NEW ts, Tells(ts, w), Then(ts),
           \/ Depth = 1
           \/ Call.do \in {"evaluate", "propagate", "select"} /\ w = Call.of
    PROVE  Orderly(rank)' /\ KeepsSets /\ Told(w)'
<1>1. Obeys(rank, Call, Depth, propagateCallstack)
  BY CallWaits, Levels DEF Orderly, AllObey
<1>2. \A j \in 1..(Depth - 1) : rank[propagateCallstack[j]] <= rank[w]
  BY <1>1 DEF Obeys
<1>3. PICK k, cs : k = Depth /\ cs = propagateCallstack
  OBVIOUS
<1>4. \A t \in Range(ts) : Obeys(rank, t, k, cs)
  BY <1>2, <1>3, TellsObeys
<1>5. Orderly(rank)' /\ KeepsSets
  BY <1>3, <1>4, ThenOrderly DEF Tells
<1>6. Told(w)'
  BY ThenWaiting DEF Told, Tells
<1>7. QED
  BY <1>5, <1>6

LEMMA PropagationPromises ==
    ASSUME NEW w \in Widget, NEW x \in Widget, w \in Needs(x)
    PROVE  Promises(Propagate(w, Referrers[w]), x)
<1>1. w \in Mentions(x)
  BY DEF Needs, CondSymbols, Mentions, MentionsConditions
<1>2. x \in Range(Referrers[w])
  BY <1>1, HearsOf
<1>3. QED
  BY <1>2 DEF Promises, Propagate

LEMMA SameValue ==
    ASSUME NEW s \in Symbol, value'[s] = value[s], active'[s] = active[s],
           s \in Option => active'[Parent(s)] = active[Parent(s)]
    PROVE  Value(s)' = Value(s)
BY DEF Value, Reads, Live

LEMMA News ==
    ASSUME NEW w \in Widget, Told(w)', NEW x \in Widget,
           \A s \in Symbol \ {w} : Value(s)' = Value(s)
    PROVE  Steady(Needs(x)) \/ Heeded(x)'
<1>1. CASE w \in Needs(x)
  BY <1>1, PropagationPromises DEF Told, Heeded
<1>2. CASE w \notin Needs(x)
  BY <1>2 DEF Steady
<1>3. QED
  BY <1>1, <1>2

(* A step takes care of x: what x needs does not change without x hearing  *)
(* of it, it is evaluated when it was to be, and not shown or hidden       *)
(* otherwise.                                                              *)
Careful(x) ==
    /\ Steady(Needs(x)) \/ Heeded(x)'
    /\ Heeded(x) => \/ Heeded(x)'
                    \/ /\ Running("evaluate") /\ Call.of = x
                       /\ active'[x] = Cond(x)
    /\ active'[x] = active[x] \/ active'[x] = Cond(x)

(* Each call takes care of every widget.                                   *)
LEMMA EvaluateWidgetCares ==
    ASSUME NEW rank, IInv, Orderly(rank), EvaluateWidget
    PROVE  Orderly(rank)' /\ KeepsSets /\ \A x \in Widget \ Option : Careful(x)
<1>1. /\ work[Depth] # <<>> /\ Call.do = "evaluate" /\ Call \in Task
  BY Runs DEF IInv, EvaluateWidget
<1>2. PICK w \in Widget : w = Call.of /\ w \notin Option \cup Choice
  BY <1>1, TaskFields DEF EvaluateWidget
<1>3. PICK ts : Tells(ts, w) /\ Then(ts)
  BY <1>2, NotifyTells DEF EvaluateWidget
<1>4. Orderly(rank)' /\ KeepsSets /\ Told(w)'
  BY <1>1, <1>2, <1>3, TellStep DEF IInv
<1>5. active' = [active EXCEPT ![w] = Cond(w)]
  BY <1>2 DEF EvaluateWidget
<1>6. active \in [Widget -> BOOLEAN] /\ value \in [Symbol -> Setting]
  BY DEF IInv, DataOK
<1>7. value' = value \/ \E y : value' = [value EXCEPT ![w] = y]
  BY <1>2 DEF EvaluateWidget
<1>8. \A s \in Symbol \ {w} : Value(s)' = Value(s)
  <2>1. SUFFICES ASSUME NEW s \in Symbol, s # w
                 PROVE  Value(s)' = Value(s)
    OBVIOUS
  <2>2. s \in Option => Parent(s) # w
    BY <1>2, OptionHasParent
  <2>3. s \in Option => Parent(s) \in Widget
    BY OptionHasParent, Kinds
  <2>4. s \in Widget
    BY Kinds
  <2>5. value'[s] = value[s]
    BY <1>6, <1>7, <2>1
  <2>6. QED
    BY <1>5, <1>6, <2>1, <2>2, <2>3, <2>4, <2>5, SameValue
<1>9. ASSUME NEW x \in Widget \ Option
      PROVE  Careful(x)
  <2>1. Steady(Needs(x)) \/ Heeded(x)'
    BY <1>4, <1>8, News
  <2>2. active'[x] = IF x = w THEN Cond(w) ELSE active[x]
    BY <1>5, <1>6
  <2>3. Heeded(x) => Heeded(x)' \/ Promises(Call, x)
    BY <1>1, <1>3, ThenHeeds DEF IInv, Tells
  <2>4. Promises(Call, x) => x = w
    BY <1>1, <1>2 DEF Promises
  <2>5. QED
    BY <1>2, <2>1, <2>2, <2>3, <2>4 DEF Careful, EvaluateWidget
<1>10. QED
  BY <1>4, <1>9

LEMMA EvaluateOptionCares ==
    ASSUME NEW rank, IInv, Orderly(rank), EvaluateOption
    PROVE  Orderly(rank)' /\ KeepsSets /\ \A x \in Widget \ Option : Careful(x)
<1>1. /\ work[Depth] # <<>> /\ Call.do = "evaluate" /\ Call \in Task
  BY Runs DEF IInv, EvaluateOption
<1>2. PICK o \in Option : o = Call.of
  BY DEF EvaluateOption
<1>3. o \in Widget /\ o \notin Choice
  BY Kinds
<1>4. Tells(Notify(o), o) /\ Then(Notify(o))
  BY <1>2, <1>3, NotifyTells DEF EvaluateOption
<1>5. PICK ts : Tells(ts, o) /\ Then(ts)
  BY <1>4
<1>6. Orderly(rank)' /\ KeepsSets /\ Told(o)'
  BY <1>1, <1>2, <1>5, TellStep DEF IInv
<1>7. active' = [active EXCEPT ![o] = Cond(o)] /\ value' = value
  BY <1>2 DEF EvaluateOption
<1>8. active \in [Widget -> BOOLEAN]
  BY DEF IInv, DataOK
<1>9. \A s \in Symbol \ {o} : Value(s)' = Value(s)
  <2>1. SUFFICES ASSUME NEW s \in Symbol, s # o
                 PROVE  Value(s)' = Value(s)
    OBVIOUS
  <2>2. s \in Option => Parent(s) # o /\ Parent(s) \in Widget
    BY <1>3, OptionHasParent, Kinds
  <2>3. s \in Widget
    BY Kinds
  <2>4. QED
    BY <1>7, <1>8, <2>1, <2>2, <2>3, SameValue
<1>10. ASSUME NEW x \in Widget \ Option
       PROVE  Careful(x)
  <2>1. Steady(Needs(x)) \/ Heeded(x)'
    BY <1>3, <1>6, <1>9, News
  <2>2. active'[x] = active[x]
    BY <1>7, <1>8
  <2>3. Heeded(x) => Heeded(x)' \/ Promises(Call, x)
    BY <1>1, <1>5, ThenHeeds DEF IInv, Tells
  <2>4. ~Promises(Call, x)
    BY <1>1, <1>2 DEF Promises
  <2>5. QED
    BY <2>1, <2>2, <2>3, <2>4 DEF Careful
<1>11. QED
  BY <1>6, <1>10

LEMMA SelectOptionCares ==
    ASSUME NEW rank, IInv, Orderly(rank), SelectOption
    PROVE  Orderly(rank)' /\ KeepsSets /\ \A x \in Widget \ Option : Careful(x)
<1>1. /\ work[Depth] # <<>> /\ Call.do = "select" /\ Call \in Task
  BY Runs DEF IInv, SelectOption
<1>2. PICK o \in Option : o = Call.of
  BY <1>1, TaskFields
<1>3. o \in Widget /\ o \in Symbol
  BY Kinds
<1>4. active' = active
  BY DEF SelectOption
<1>5. value \in [Symbol -> Setting]
  BY DEF IInv, DataOK
<1>6. CASE Then(Notify(o)) /\ \E y : value' = [value EXCEPT ![o] = y]
  <2>1. PICK ts : Tells(ts, o) /\ Then(ts)
    BY <1>3, <1>6, NotifyTells
  <2>2. Orderly(rank)' /\ KeepsSets /\ Told(o)'
    BY <1>1, <1>2, <2>1, TellStep DEF IInv
  <2>3. \A s \in Symbol \ {o} : Value(s)' = Value(s)
    BY <1>4, <1>5, <1>6, SameValue
  <2>4. ASSUME NEW x \in Widget \ Option
        PROVE  Careful(x)
    <3>1. Steady(Needs(x)) \/ Heeded(x)'
      BY <1>3, <2>2, <2>3, News
    <3>2. Heeded(x) => Heeded(x)' \/ Promises(Call, x)
      BY <1>1, <2>1, ThenHeeds DEF IInv, Tells
    <3>3. Promises(Call, x) => o \in Needs(x)
      BY <1>1, <1>2 DEF Promises
    <3>4. o \in Needs(x) => Heeded(x)'
      BY <1>3, <2>2, PropagationPromises DEF Told, Heeded
    <3>5. QED
      BY <1>4, <3>1, <3>2, <3>3, <3>4 DEF Careful
  <2>5. QED
    BY <2>2, <2>4
<1>7. CASE Then(<<>>) /\ value' = value /\ ~Call.changed
  <2>1. << >> \in Seq(Task) /\ Calm(<< >>) /\ Range(<< >>) = {}
    BY RangeEmpty, CalmCalls
  <2>2. PICK ts : ts \in Seq(Task) /\ Calm(ts) /\ Range(ts) = {} /\ Then(ts)
    BY <1>7, <2>1, Zenon
  <2>3. Orderly(rank)' /\ KeepsSets
    BY <1>1, <2>2, ThenOrderly DEF IInv
  <2>4. ASSUME NEW x \in Widget \ Option
        PROVE  Careful(x)
    <3>1. Steady(Needs(x))
      BY <1>4, <1>7, SameValue DEF Steady
    <3>2. Heeded(x) => Heeded(x)' \/ Promises(Call, x)
      BY <1>1, <2>2, ThenHeeds DEF IInv
    <3>3. ~Promises(Call, x)
      BY <1>1, <1>7 DEF Promises
    <3>4. QED
      BY <1>4, <3>1, <3>2, <3>3 DEF Careful
  <2>5. QED
    BY <2>3, <2>4
<1>8. QED
  BY <1>2, <1>6, <1>7 DEF SelectOption

(* ts selects or deselects each option of c.                               *)
SelectsAll(ts, c, chg) ==
    /\ ts \in Seq(Task)
    /\ Calm(ts)
    /\ \A t \in Range(ts) : /\ t.do = "select"
                            /\ t.of \in Range(Children[c])
                            /\ t.changed = chg
    /\ \A o \in Range(Children[c]) :
          \E t \in Range(ts) : t.do = "select" /\ t.of = o /\ t.changed = chg

LEMMA SelectMade ==
    ASSUME NEW c \in Choice, NEW name, NEW chg \in BOOLEAN
    PROVE  SelectsAll(SelectOptions(c, name, chg), c, chg)
<1>0. PICK ts : ts = SelectOptions(c, name, chg)
  OBVIOUS
<1>1. ts \in Seq(Task)
  <2>1. PICK k, cs : k = 1 /\ cs = << >>
    OBVIOUS
  <2>2. \A j \in 1..(k - 1) : c = cs[j] => j = k - 1
    BY <2>1
  <2>3. QED
    BY <1>0, <2>2, SelectCalls
<1>2. Calm(ts)
  BY <1>0, CalmCalls
<1>3. PICK n \in Nat : n = Len(Children[c])
  BY OptionsOfChoice
<1>4. /\ Len(ts) = n
      /\ \A i \in 1..n : ts[i] = Select(Children[c][i], Children[c][i] = name, chg)
  BY <1>0, <1>3 DEF SelectOptions
<1>5. Range(ts) = {ts[i] : i \in 1..n}
  BY <1>1, <1>4, RangeEquality
<1>6. Range(Children[c]) = {Children[c][i] : i \in 1..n}
  BY <1>3, OptionsOfChoice
<1>7. \A i \in 1..n : /\ ts[i].do = "select"
                      /\ ts[i].of = Children[c][i]
                      /\ ts[i].changed = chg
  BY <1>4 DEF Select
<1>8. \A t \in Range(ts) : /\ t.do = "select"
                           /\ t.of \in Range(Children[c])
                           /\ t.changed = chg
  BY <1>5, <1>6, <1>7
<1>9. \A o \in Range(Children[c]) :
         \E t \in Range(ts) : t.do = "select" /\ t.of = o /\ t.changed = chg
  BY <1>5, <1>6, <1>7
<1>10. SelectsAll(ts, c, chg)
  BY <1>1, <1>2, <1>8, <1>9 DEF SelectsAll
<1>11. QED
  BY <1>0, <1>10

LEMMA EvaluateChoiceCares ==
    ASSUME NEW rank, Layered(rank), PlainOptions,
           IInv, OptionsShown, Orderly(rank), EvaluateChoice
    PROVE  Orderly(rank)' /\ KeepsSets /\ \A x \in Widget \ Option : Careful(x)
<1>1. /\ work[Depth] # <<>> /\ Call.do = "evaluate" /\ Call \in Task
  BY Runs DEF IInv, EvaluateChoice
<1>2. PICK c \in Choice : c = Call.of
  BY DEF EvaluateChoice
<1>3. c \in Widget /\ c \notin Symbol /\ c \notin Option
  BY Kinds
<1>4. PICK chg \in BOOLEAN : chg = (active[c] # Cond(c))
  OBVIOUS
<1>5. PICK ts : SelectsAll(ts, c, chg) /\ Then(ts)
  BY <1>2, <1>4, SelectMade DEF EvaluateChoice
<1>6. /\ ts \in Seq(Task)
      /\ Calm(ts)
      /\ \A t \in Range(ts) : /\ t.do = "select"
                              /\ t.of \in Range(Children[c])
                              /\ t.changed = chg
      /\ \A o \in Range(Children[c]) :
            \E t \in Range(ts) : t.do = "select" /\ t.of = o /\ t.changed = chg
  BY <1>5 DEF SelectsAll
<1>7. Orderly(rank)' /\ KeepsSets
  <2>1. Obeys(rank, Call, Depth, propagateCallstack)
    BY <1>1, CallWaits, Levels DEF Orderly, AllObey, IInv
  <2>2. \A o \in Range(Children[c]) : rank[o] = rank[c]
    BY OwnChoice DEF Layered
  <2>3. \A t \in Range(ts) : Obeys(rank, t, Depth, propagateCallstack)
    BY <1>1, <1>2, <1>6, <2>1, <2>2 DEF Obeys
  <2>4. QED
    BY <1>1, <1>5, <1>6, <2>3, ThenOrderly DEF IInv
<1>8. /\ active' = [w \in Widget |->
                       IF w = c THEN Cond(c)
                       ELSE IF w \in Range(Children[c]) /\ Cond(c)
                       THEN OptionCond(w) ELSE active[w]]
      /\ value' = value
  BY <1>2 DEF EvaluateChoice
<1>9. active \in [Widget -> BOOLEAN] /\ Cond(c) \in BOOLEAN
  BY ConditionsBoolean DEF IInv, DataOK
<1>10. ASSUME NEW s \in Symbol, s \notin Range(Children[c]) \/ ~chg
       PROVE  Value(s)' = Value(s)
  <2>1. s \in Widget /\ s # c
    BY <1>3, Kinds
  <2>2. CASE s \in Option /\ s \in Range(Children[c])
    <3>1. Parent(s) = c /\ active[c] = Cond(c)
      BY <1>4, <1>10, <2>2, OwnChoice
    <3>2. active'[c] = active[c]
      BY <1>3, <1>8, <3>1
    <3>3. active'[s] = active[s]
      <4>1. CASE Cond(c)
        <5>1. active[s]
          BY <2>2, <3>1, <4>1 DEF OptionsShown
        <5>2. active'[s] = OptionCond(s) /\ OptionCond(s) = TRUE
          BY <1>8, <2>1, <2>2, <4>1, PlainConditions
        <5>3. QED
          BY <1>9, <2>1, <5>1, <5>2
      <4>2. CASE ~Cond(c)
        BY <1>8, <2>1, <4>2
      <4>3. QED
        BY <4>1, <4>2
    <3>4. QED
      BY <1>8, <3>1, <3>2, <3>3, SameValue
  <2>3. CASE s \notin Range(Children[c])
    <3>1. active'[s] = active[s]
      BY <1>8, <2>1, <2>3
    <3>2. s \in Option => active'[Parent(s)] = active[Parent(s)]
      <4>1. SUFFICES ASSUME s \in Option PROVE active'[Parent(s)] = active[Parent(s)]
        OBVIOUS
      <4>2. PICK d \in Choice : d = Parent(s) /\ s \in Range(Children[d])
        BY <4>1, OptionHasParent
      <4>3. d # c /\ d \in Widget /\ d \notin Range(Children[c])
        BY <2>3, <4>2, Kinds, OwnChoice
      <4>4. QED
        BY <1>8, <4>2, <4>3
    <3>3. QED
      BY <1>8, <3>1, <3>2, SameValue
  <2>4. s \in Range(Children[c]) => s \in Option
    BY OwnChoice
  <2>5. QED
    BY <2>2, <2>3, <2>4
<1>11. ASSUME NEW x \in Widget \ Option
       PROVE  Careful(x)
  <2>1. Steady(Needs(x)) \/ Heeded(x)'
    <3>1. SUFFICES ASSUME NEW s \in Needs(x) \cap Symbol, Value(s)' # Value(s)
                   PROVE  Heeded(x)'
      BY DEF Steady
    <3>2. s \in Range(Children[c]) /\ chg
      BY <1>10, <3>1
    <3>3. PICK t \in Range(ts) : t.do = "select" /\ t.of = s /\ t.changed = chg
      BY <1>6, <3>2
    <3>4. Promises(t, x)
      BY <3>1, <3>2, <3>3 DEF Promises
    <3>5. QED
      BY <1>1, <1>5, <1>6, <3>4, ThenHeeds DEF IInv
  <2>2. active'[x] = IF x = c THEN Cond(c) ELSE active[x]
    <3>1. x \notin Range(Children[c])
      BY OwnChoice
    <3>2. QED
      BY <1>8, <3>1
  <2>3. Heeded(x) => Heeded(x)' \/ Promises(Call, x)
    BY <1>1, <1>5, <1>6, ThenHeeds DEF IInv
  <2>4. Promises(Call, x) => x = c
    BY <1>1, <1>2 DEF Promises
  <2>5. QED
    BY <1>2, <2>1, <2>2, <2>3, <2>4 DEF Careful, EvaluateChoice
<1>12. QED
  BY <1>7, <1>11

LEMMA TailRange ==
    ASSUME NEW S, NEW q \in Seq(S), q # <<>>
    PROVE  /\ Head(q) \in S /\ Tail(q) \in Seq(S)
           /\ Range(q) = {Head(q)} \cup Range(Tail(q))
<1>1. PICK h, u : h = Head(q) /\ u = Tail(q)
  OBVIOUS
<1>2. u \in Seq(S) /\ h \in S /\ h = q[1] /\ Len(u) = Len(q) - 1
      /\ \A i \in 1..Len(u) : u[i] = q[i + 1]
  BY <1>1, HeadTailProperties
<1>3. /\ Range(q) = {q[i] : i \in 1..Len(q)}
      /\ Range(u) = {u[i] : i \in 1..Len(u)}
  BY <1>2, RangeEquality
<1>4. PICK n \in Nat : Len(q) = n + 1
  <2>1. Len(q) \in Nat /\ Len(q) # 0
    BY LenProperties, EmptySeq
  <2>2. Len(q) - 1 \in Nat /\ Len(q) = (Len(q) - 1) + 1
    BY <2>1
  <2>3. QED
    BY <2>2
<1>5. Len(u) = n
  BY <1>2, <1>4
<1>6. \A i \in 1..n : i + 1 \in 1..(n + 1)
  OBVIOUS
<1>7. Range(u) \subseteq Range(q)
  BY <1>2, <1>3, <1>4, <1>5, <1>6
<1>8. h \in Range(q)
  BY <1>2, <1>3, <1>4
<1>9. Range(q) \subseteq {h} \cup Range(u)
  <2>1. SUFFICES ASSUME NEW i \in 1..(n + 1)
                 PROVE  q[i] \in {h} \cup Range(u)
    BY <1>3, <1>4
  <2>2. CASE i = 1
    BY <1>2, <2>2
  <2>3. CASE i # 1
    <3>1. PICK j \in 1..n : j + 1 = i
      <4>1. i - 1 \in 1..n /\ (i - 1) + 1 = i
        BY <2>3
      <4>2. QED
        BY <4>1
    <3>2. QED
      BY <1>2, <1>3, <1>5, <3>1
  <2>4. QED
    BY <2>2, <2>3
<1>10. QED
  BY <1>1, <1>2, <1>7, <1>8, <1>9

(* Nothing changes of what is shown.                                       *)
LEMMA Unchanged ==
    ASSUME UNCHANGED <<active, value>>
    PROVE  \A S : Steady(S)
BY SameValue DEF Steady

LEMMA PropagateEndCares ==
    ASSUME NEW rank, IInv, Orderly(rank), PropagateEnd
    PROVE  Orderly(rank)' /\ KeepsSets /\ \A x \in Widget \ Option : Careful(x)
<1>1. /\ work[Depth] # <<>> /\ Call.do = "propagate" /\ Call.to = <<>>
  BY Runs DEF IInv, PropagateEnd
<1>2. << >> \in Seq(Task) /\ Calm(<< >>) /\ Range(<< >>) = {}
  BY RangeEmpty, CalmCalls
<1>3. Then(<< >>)
  BY DEF PropagateEnd
<1>4. PICK ts : ts \in Seq(Task) /\ Calm(ts) /\ Range(ts) = {} /\ Then(ts)
  BY <1>2, <1>3, Zenon
<1>5. Orderly(rank)' /\ KeepsSets
  BY <1>1, <1>4, ThenOrderly DEF IInv
<1>6. active' = active /\ value' = value
  BY DEF PropagateEnd, state
<1>7. ASSUME NEW x \in Widget \ Option
      PROVE  Careful(x)
  <2>1. Steady(Needs(x))
    BY <1>6, Unchanged
  <2>2. Heeded(x) => Heeded(x)' \/ Promises(Call, x)
    BY <1>1, <1>4, ThenHeeds DEF IInv
  <2>3. ~Promises(Call, x)
    BY <1>1, <1>2 DEF Promises
  <2>4. QED
    BY <1>6, <2>1, <2>2, <2>3 DEF Careful
<1>8. QED
  BY <1>5, <1>7

(* The propagation of w's change has come to h, and t is what is left.     *)
GoesOn(rank, w, h, t) ==
    /\ t \in Task /\ t.do \notin {"set", "guarded"}
    /\ w \in Widget /\ h \in Widget
    /\ rank[w] \in Nat /\ rank[h] \in Nat /\ rank[w] <= rank[h]
    /\ \A j \in 1..(Depth - 1) :
          rank[propagateCallstack[j]] \in Nat
            /\ rank[propagateCallstack[j]] <= rank[w]
    /\ Obeys(rank, t, Depth, propagateCallstack)
    /\ \A x : Promises(Call, x) => (x = h /\ w \in Needs(x)) \/ Promises(t, x)

LEMMA PropagationGoesOn ==
    ASSUME NEW rank, Layered(rank), CallsOK, Orderly(rank), work[Depth] # <<>>,
           Call.do = "propagate", Call.to # <<>>
    PROVE  GoesOn(rank, Call.of, Head(Call.to), Propagate(Call.of, Tail(Call.to)))
<1>0. PICK w, h, t : /\ w = Call.of /\ h = Head(Call.to)
                     /\ t = Propagate(Call.of, Tail(Call.to))
  OBVIOUS
<1>1. Call \in Task
  BY RunningCall
<1>2. PICK to : to = Call.to
  OBVIOUS
<1>3. w \in Widget /\ to \in Seq(Widget) /\ to # <<>>
  BY <1>0, <1>1, <1>2, TaskFields
<1>4. h = Head(to) /\ t = Propagate(w, Tail(to))
  BY <1>0, <1>2
<1>5. /\ h \in Widget /\ Tail(to) \in Seq(Widget)
      /\ Range(to) = {h} \cup Range(Tail(to))
  BY <1>3, <1>4, TailRange
<1>6. Obeys(rank, Call, Depth, propagateCallstack)
  BY CallWaits, Levels DEF Orderly, AllObey
<1>7. /\ Range(to) \subseteq Range(Referrers[w])
      /\ \A j \in 1..(Depth - 1) : rank[propagateCallstack[j]] <= rank[w]
  BY <1>0, <1>2, <1>6 DEF Obeys
<1>8. rank[w] \in Nat /\ rank[h] \in Nat /\ rank[w] <= rank[h]
  BY <1>3, <1>5, <1>7, LayersRise
<1>9. \A j \in 1..(Depth - 1) : rank[propagateCallstack[j]] \in Nat
  <2>1. \A j \in 1..(Depth - 1) : propagateCallstack[j] \in Widget
    BY Levels, ElementOfSeq
  <2>2. QED
    BY <2>1 DEF Layered
<1>10. t.do = "propagate" /\ t.of = w /\ t.to = Tail(to)
  BY <1>4 DEF Propagate
<1>11. t \in Task /\ t.do \notin {"set", "guarded"}
  BY <1>3, <1>4, <1>5 DEF Propagate, Task
<1>12. Obeys(rank, t, Depth, propagateCallstack)
  BY <1>5, <1>7, <1>10 DEF Obeys
<1>13. ASSUME NEW x, Promises(Call, x)
       PROVE  (x = h /\ w \in Needs(x)) \/ Promises(t, x)
  <2>1. w \in Needs(x) /\ x \in Range(to)
    BY <1>0, <1>2, <1>13 DEF Promises
  <2>2. QED
    BY <1>5, <1>10, <2>1 DEF Promises
<1>14. GoesOn(rank, w, h, t)
  BY <1>3, <1>5, <1>7, <1>8, <1>9, <1>11, <1>12, <1>13 DEF GoesOn
<1>15. QED
  BY <1>0, <1>14

LEMMA OneCalm ==
    ASSUME NEW t \in Task, t.do \notin {"set", "guarded"}
    PROVE  <<t>> \in Seq(Task) /\ Calm(<<t>>) /\ Range(<<t>>) = {t}
<1>1. Calm(<<t>>)
  BY DEF Calm
<1>2. QED
  BY <1>1, RangeOne

(* A referrer that is skipped is below the one that changed and so needs   *)
(* nothing of it.                                                          *)
LEMMA PropagateSkipCares ==
    ASSUME NEW rank, Layered(rank), IInv, Orderly(rank), PropagateSkip
    PROVE  Orderly(rank)' /\ KeepsSets /\ \A x \in Widget \ Option : Careful(x)
<1>1. /\ work[Depth] # <<>> /\ Call.do = "propagate" /\ Call.to # <<>>
  BY Runs DEF IInv, PropagateSkip
<1>2. PICK h, w, t : /\ h = Head(Call.to) /\ w = Call.of
                     /\ t = Propagate(Call.of, Tail(Call.to))
                     /\ GoesOn(rank, w, h, t)
  BY <1>1, PropagationGoesOn DEF IInv
<1>3. /\ t \in Task /\ t.do \notin {"set", "guarded"}
      /\ w \in Widget /\ h \in Widget
      /\ \A j \in 1..(Depth - 1) :
            rank[propagateCallstack[j]] \in Nat
              /\ rank[propagateCallstack[j]] <= rank[w]
      /\ Obeys(rank, t, Depth, propagateCallstack)
      /\ \A x : Promises(Call, x) => (x = h /\ w \in Needs(x)) \/ Promises(t, x)
  BY <1>2 DEF GoesOn
<1>4. PICK ts : ts \in Seq(Task) /\ Calm(ts) /\ Range(ts) = {t} /\ Then(ts)
  BY <1>2, <1>3, OneCalm DEF PropagateSkip
<1>5. Orderly(rank)' /\ KeepsSets
  BY <1>1, <1>3, <1>4, ThenOrderly DEF IInv
<1>6. active' = active /\ value' = value
  BY DEF PropagateSkip, state
<1>7. w \notin Needs(h)
  <2>1. /\ propagateCallstack \in Seq(Widget)
        /\ Len(propagateCallstack) = Depth - 1
    BY Levels DEF IInv
  <2>2. h \in Range(propagateCallstack)
    BY <1>2 DEF PropagateSkip
  <2>3. PICK j \in 1..(Depth - 1) : propagateCallstack[j] = h
    BY <2>1, <2>2, RangeEquality
  <2>4. rank[h] \in Nat /\ rank[h] <= rank[w]
    BY <1>3, <2>3
  <2>5. w \in Needs(h) => rank[w] \in Nat /\ rank[w] < rank[h]
    BY <1>3, NeedsBelow
  <2>6. QED
    BY <2>4, <2>5
<1>8. ASSUME NEW x \in Widget \ Option
      PROVE  Careful(x)
  <2>1. Steady(Needs(x))
    BY <1>6, Unchanged
  <2>2. Heeded(x) => Heeded(x)' \/ Promises(Call, x)
    BY <1>1, <1>4, ThenHeeds DEF IInv
  <2>3. Promises(Call, x) => Promises(t, x)
    BY <1>3, <1>7
  <2>4. Promises(t, x) => Heeded(x)'
    BY <1>1, <1>4, ThenHeeds DEF IInv
  <2>5. QED
    BY <1>6, <2>1, <2>2, <2>3, <2>4 DEF Careful
<1>9. QED
  BY <1>5, <1>8

LEMMA PropagateVisitCares ==
    ASSUME NEW rank, Layered(rank), IInv, Orderly(rank), PropagateVisit
    PROVE  Orderly(rank)' /\ KeepsSets /\ \A x \in Widget \ Option : Careful(x)
<1>1. /\ work[Depth] # <<>> /\ Call.do = "propagate" /\ Call.to # <<>>
  BY Runs DEF IInv, PropagateVisit
<1>2. PICK h, w, t : /\ h = Head(Call.to) /\ w = Call.of
                     /\ t = Propagate(Call.of, Tail(Call.to))
                     /\ GoesOn(rank, w, h, t)
  BY <1>1, PropagationGoesOn DEF IInv
<1>3. /\ t \in Task /\ t.do \notin {"set", "guarded"}
      /\ w \in Widget /\ h \in Widget
      /\ rank[w] \in Nat /\ rank[h] \in Nat /\ rank[w] <= rank[h]
      /\ \A j \in 1..(Depth - 1) :
            rank[propagateCallstack[j]] \in Nat
              /\ rank[propagateCallstack[j]] <= rank[w]
      /\ Obeys(rank, t, Depth, propagateCallstack)
      /\ \A x : Promises(Call, x) => (x = h /\ w \in Needs(x)) \/ Promises(t, x)
  BY <1>2 DEF GoesOn
<1>4. PICK e : e = Evaluate(h)
  OBVIOUS
<1>5. e \in Task /\ e.do = "evaluate" /\ e.of = h
  BY <1>3, <1>4 DEF Evaluate, Task
<1>6. PICK inner, rest :
         /\ inner \in Seq(Task) /\ Calm(inner) /\ Range(inner) = {e}
         /\ rest \in Seq(Task) /\ Calm(rest) /\ Range(rest) = {t}
         /\ Enter(w, inner, rest)
  <2>1. Enter(w, <<e>>, <<t>>)
    BY <1>2, <1>4 DEF PropagateVisit
  <2>2. <<e>> \in Seq(Task) /\ Calm(<<e>>) /\ Range(<<e>>) = {e}
    BY <1>5, OneCalm
  <2>3. <<t>> \in Seq(Task) /\ Calm(<<t>>) /\ Range(<<t>>) = {t}
    BY <1>3, OneCalm
  <2>4. QED
    BY <2>1, <2>2, <2>3, Zenon
<1>7. Orderly(rank)' /\ KeepsSets
  <2>1. Depth \in Nat /\ Depth >= 1
    BY Levels DEF IInv
  <2>2. /\ propagateCallstack'[Depth] = w
        /\ \A k \in 1..(Depth - 1) : propagateCallstack'[k] = propagateCallstack[k]
    BY <1>1, <1>3, <1>6, EnterWaiting DEF IInv
  <2>3. ASSUME NEW j \in 1..((Depth + 1) - 1)
        PROVE  rank[propagateCallstack'[j]] <= rank[h]
    <3>1. CASE j = Depth
      BY <1>3, <2>2, <3>1
    <3>2. CASE j # Depth
      <4>1. j \in 1..(Depth - 1)
        BY <2>1, <3>2
      <4>2. /\ rank[propagateCallstack'[j]] \in Nat
            /\ rank[propagateCallstack'[j]] <= rank[w]
        BY <1>3, <2>2, <4>1
      <4>3. QED
        BY <1>3, <4>2
    <3>3. QED
      BY <3>1, <3>2
  <2>4. Obeys(rank, e, Depth + 1, propagateCallstack')
    BY <1>5, <2>3 DEF Obeys
  <2>5. QED
    BY <1>1, <1>3, <1>6, <2>4, EnterOrderly DEF IInv
<1>8. active' = active /\ value' = value
  BY DEF PropagateVisit, state
<1>9. ASSUME NEW x \in Widget \ Option
      PROVE  Careful(x)
  <2>1. Steady(Needs(x))
    BY <1>8, Unchanged
  <2>2. /\ Heeded(x) => Heeded(x)' \/ Promises(Call, x)
        /\ Promises(e, x) => Heeded(x)'
        /\ Promises(t, x) => Heeded(x)'
    BY <1>1, <1>3, <1>6, EnterHeeds DEF IInv
  <2>3. Promises(Call, x) => Promises(e, x) \/ Promises(t, x)
    BY <1>3, <1>5 DEF Promises
  <2>4. QED
    BY <1>8, <2>1, <2>2, <2>3 DEF Careful
<1>10. QED
  BY <1>7, <1>9

LEMMA PropagateReturnCares ==
    ASSUME NEW rank, IInv, Orderly(rank), PropagateReturn
    PROVE  Orderly(rank)' /\ KeepsSets /\ \A x \in Widget \ Option : Careful(x)
<1>1. Orderly(rank)' /\ KeepsSets
  BY ReturnOrderly DEF IInv
<1>2. Waiting' = Waiting
  BY ReturnWaiting DEF IInv
<1>3. active' = active /\ value' = value
  BY DEF PropagateReturn, state
<1>4. \A x : Heeded(x)' = Heeded(x)
  BY <1>2 DEF Heeded
<1>5. QED
  BY <1>1, <1>3, <1>4, Unchanged DEF Careful

LEMMA EvaluateGuardedCares ==
    ASSUME NEW rank, Layered(rank), IInv, Orderly(rank), EvaluateGuarded
    PROVE  Orderly(rank)' /\ KeepsSets /\ \A x \in Widget \ Option : Careful(x)
<1>1. /\ work[Depth] # <<>> /\ Call.do = "guarded" /\ Depth = 1 /\ Call \in Task
  BY Runs, OutermostCall DEF IInv, EvaluateGuarded
<1>2. PICK c \in Widget : c = Call.of
  BY <1>1, TaskFields, Kinds
<1>3. PICK e : e = Evaluate(c)
  OBVIOUS
<1>4. e \in Task /\ e.do = "evaluate" /\ e.of = c
  BY <1>3 DEF Evaluate, Task
<1>5. PICK inner, rest :
         /\ inner \in Seq(Task) /\ Calm(inner) /\ Range(inner) = {e}
         /\ rest \in Seq(Task) /\ Calm(rest) /\ Range(rest) = {}
         /\ Enter(c, inner, rest)
  <2>1. Enter(c, <<e>>, << >>)
    BY <1>2, <1>3 DEF EvaluateGuarded
  <2>2. <<e>> \in Seq(Task) /\ Calm(<<e>>) /\ Range(<<e>>) = {e}
    BY <1>4, OneCalm
  <2>3. << >> \in Seq(Task) /\ Calm(<< >>) /\ Range(<< >>) = {}
    BY RangeEmpty, CalmCalls
  <2>4. QED
    BY <2>1, <2>2, <2>3, Zenon
<1>6. Orderly(rank)' /\ KeepsSets
  <2>1. propagateCallstack'[1] = c
    BY <1>1, <1>5, EnterWaiting DEF IInv
  <2>2. rank[c] \in Nat
    BY DEF Layered
  <2>3. Obeys(rank, e, Depth + 1, propagateCallstack')
    BY <1>1, <1>4, <2>1, <2>2 DEF Obeys
  <2>4. QED
    BY <1>1, <1>5, <2>3, EnterOrderly DEF IInv
<1>7. active' = active /\ value' = value
  BY DEF EvaluateGuarded, state
<1>8. ASSUME NEW x \in Widget \ Option
      PROVE  Careful(x)
  <2>1. Heeded(x) => Heeded(x)' \/ Promises(Call, x)
    BY <1>1, <1>5, EnterHeeds DEF IInv
  <2>2. ~Promises(Call, x)
    BY <1>1 DEF Promises
  <2>3. QED
    BY <1>7, <2>1, <2>2, Unchanged DEF Careful
<1>9. QED
  BY <1>6, <1>8

LEMMA ModulesChangeCares ==
    ASSUME NEW rank, ModulesUnheard, IInv, Orderly(rank), ModulesChange
    PROVE  Orderly(rank)' /\ KeepsSets /\ \A x \in Widget \ Option : Careful(x)
<1>1. /\ work[Depth] # <<>> /\ Call.do = "modules"
  BY Runs DEF IInv, ModulesChange
<1>2. << >> \in Seq(Task) /\ Calm(<< >>) /\ Range(<< >>) = {}
  BY RangeEmpty, CalmCalls
<1>3. Then(<< >>)
  BY DEF ModulesChange
<1>4. PICK ts : ts \in Seq(Task) /\ Calm(ts) /\ Range(ts) = {} /\ Then(ts)
  BY <1>2, <1>3, Zenon
<1>5. Orderly(rank)' /\ KeepsSets
  BY <1>1, <1>4, ThenOrderly DEF IInv
<1>6. Modules # None
  <2>1. Obeys(rank, Call, Depth, propagateCallstack)
    BY <1>1, CallWaits, Levels DEF Orderly, AllObey, IInv
  <2>2. QED
    BY <1>1, <2>1 DEF Obeys
<1>7. active' = active /\ \A s \in Symbol \ Tristate : value'[s] = value[s]
  BY DEF ModulesChange
<1>8. ASSUME NEW x \in Widget \ Option
      PROVE  Careful(x)
  <2>1. Needs(x) \cap Tristate = {}
    BY <1>6 DEF ModulesUnheard, Needs, CondSymbols, Mentions, MentionsConditions
  <2>2. Steady(Needs(x))
    BY <1>7, <2>1, SameValue DEF Steady
  <2>3. Heeded(x) => Heeded(x)' \/ Promises(Call, x)
    BY <1>1, <1>4, ThenHeeds DEF IInv
  <2>4. ~Promises(Call, x)
    BY <1>1 DEF Promises
  <2>5. QED
    BY <1>7, <2>2, <2>3, <2>4 DEF Careful
<1>9. QED
  BY <1>5, <1>8

LEMMA LoadOptionCares ==
    ASSUME NEW rank, IInv, Orderly(rank), LoadOption
    PROVE  Orderly(rank)' /\ KeepsSets /\ \A x \in Widget \ Option : Careful(x)
<1>1. /\ work[Depth] # <<>> /\ Call.do = "set" /\ Call \in Task /\ Depth = 1
  BY Runs, OutermostCall DEF IInv, LoadOption
<1>2. PICK s \in Symbol : s = Call.of
  BY <1>1, TaskFields
<1>3. s \in Widget
  BY Kinds
<1>4. active' = active
  BY DEF LoadOption
<1>5. value \in [Symbol -> Setting]
  BY DEF IInv, DataOK
<1>6. ASSUME NEW x
      PROVE  ~Promises(Call, x)
  BY <1>1 DEF Promises
<1>7. CASE Then(Changed(s)) /\ \E y : value' = [value EXCEPT ![s] = y]
  <2>1. PICK ts : Tells(ts, s) /\ Then(ts)
    BY <1>3, <1>7, NotifyTells
  <2>2. Orderly(rank)' /\ KeepsSets /\ Told(s)'
    BY <1>1, <2>1, TellStep DEF IInv
  <2>3. \A t \in Symbol \ {s} : Value(t)' = Value(t)
    BY <1>4, <1>5, <1>7, SameValue
  <2>4. ASSUME NEW x \in Widget \ Option
        PROVE  Careful(x)
    <3>1. Steady(Needs(x)) \/ Heeded(x)'
      BY <1>3, <2>2, <2>3, News
    <3>2. Heeded(x) => Heeded(x)' \/ Promises(Call, x)
      BY <1>1, <2>1, ThenHeeds DEF IInv, Tells
    <3>3. QED
      BY <1>4, <1>6, <3>1, <3>2 DEF Careful
  <2>5. QED
    BY <2>2, <2>4
<1>8. CASE Then(<<>>) /\ value' = value
  <2>1. << >> \in Seq(Task) /\ Calm(<< >>) /\ Range(<< >>) = {}
    BY RangeEmpty, CalmCalls
  <2>2. PICK ts : ts \in Seq(Task) /\ Calm(ts) /\ Range(ts) = {} /\ Then(ts)
    BY <1>8, <2>1, Zenon
  <2>3. Orderly(rank)' /\ KeepsSets
    BY <1>1, <2>2, ThenOrderly DEF IInv
  <2>4. ASSUME NEW x \in Widget \ Option
        PROVE  Careful(x)
    <3>1. Heeded(x) => Heeded(x)' \/ Promises(Call, x)
      BY <1>1, <2>2, ThenHeeds DEF IInv
    <3>2. QED
      BY <1>4, <1>6, <1>8, <3>1, Unchanged DEF Careful
  <2>5. QED
    BY <2>3, <2>4
<1>9. QED
  <2>1. CASE s \in Option
    BY <1>2, <1>8, <2>1 DEF LoadOption
  <2>2. CASE s \notin Option
    <3>1. PICK y : y = Assigned(s, Read(s, Call.to))
      OBVIOUS
    <3>2. /\ value' = [value EXCEPT ![s] = y]
          /\ Then(IF y # value[s] THEN Changed(s) ELSE <<>>)
      BY <1>2, <2>2, <3>1 DEF LoadOption
    <3>3. CASE y # value[s]
      BY <1>7, <3>2, <3>3
    <3>4. CASE y = value[s]
      <4>1. value' = value
        BY <1>5, <3>2, <3>4
      <4>2. QED
        BY <1>8, <3>2, <3>4, <4>1
    <3>5. QED
      BY <3>3, <3>4
  <2>3. QED
    BY <2>1, <2>2

(* While loadConfig() sets options no evaluation is under way.             *)
LEMMA NoneHeededLoading ==
    ASSUME NEW rank, IInv, Orderly(rank), Running("set"), NEW x
    PROVE  ~Heeded(x)
<1>1. /\ work[Depth] # <<>> /\ Call.do = "set" /\ Depth = 1
  BY Runs, OutermostCall DEF IInv
<1>2. PICK q \in Seq(Task) : q = work[1]
  BY <1>1, Levels DEF IInv
<1>3. q # <<>> /\ q[1].do = "set" /\ AfterSet(q)
  BY <1>1, <1>2, HeadTailProperties DEF Call, Orderly
<1>4. Len(q) \in Nat /\ Len(q) # 0
  BY <1>3, LenProperties, EmptySeq
<1>5. \A j \in 1..Len(q) : q[j].do \in {"set", "guarded"}
  <2>1. 1 \in 1..Len(q) /\ \A j \in 1..Len(q) : j = 1 \/ 1 < j
    BY <1>4
  <2>2. QED
    BY <1>3, <2>1 DEF AfterSet
<1>6. Waiting = Range(q)
  <2>1. 1..Depth = {1}
    BY <1>1
  <2>2. QED
    BY <1>2, <2>1 DEF Waiting
<1>7. \A t \in Waiting : t.do \in {"set", "guarded"}
  <2>1. Range(q) = {q[j] : j \in 1..Len(q)}
    BY RangeEquality
  <2>2. QED
    BY <1>5, <1>6, <2>1
<1>8. QED
  BY <1>7 DEF Heeded, Promises

LEMMA CalmAfterSet ==
    ASSUME NEW q, Calm(q)
    PROVE  AfterSet(q)
BY DEF Calm, AfterSet

(* Starting anew.                                                          *)
LEMMA StartWaits ==
    ASSUME NEW ts, work' = <<ts>>
    PROVE  Depth' = 1 /\ work'[1] = ts /\ Waiting' = Range(ts)
<1>1. PICK W : W = work'
  OBVIOUS
<1>2. W = <<ts>>
  BY <1>1
<1>3. Len(W) = 1 /\ W[1] = ts
  BY <1>2
<1>4. Depth' = 1 /\ work'[1] = ts
  BY <1>1, <1>3 DEF Depth
<1>5. 1..1 = {1}
  OBVIOUS
<1>6. QED
  BY <1>4, <1>5 DEF Waiting

LEMMA StartOrderly ==
    ASSUME NEW rank, NEW ts, work' = <<ts>>,
           \A t \in Range(ts) : Obeys(rank, t, 1, propagateCallstack'),
           AfterSet(ts)
    PROVE  Orderly(rank)' /\ Waiting' = Range(ts)
<1>1. Depth' = 1 /\ work'[1] = ts /\ Waiting' = Range(ts)
  BY StartWaits
<1>2. 1..1 = {1}
  OBVIOUS
<1>3. AllObey(rank)'
  BY <1>1, <1>2 DEF AllObey
<1>4. QED
  BY <1>1, <1>3 DEF Orderly

LEMMA LoadFailsCares ==
    ASSUME NEW rank, IInv, Orderly(rank), LoadFails
    PROVE  Orderly(rank)' /\ \A x \in Widget \ Option : Careful(x)
<1>1. Orderly(rank)'
  <2>1. PICK ts : ts = << >>
    OBVIOUS
  <2>2. Range(ts) = {} /\ AfterSet(ts) /\ work' = <<ts>>
    BY <2>1, RangeEmpty, CalmCalls, CalmAfterSet DEF LoadFails
  <2>3. QED
    BY <2>2, StartOrderly
<1>2. \A x : ~Heeded(x)
  BY NoneHeededLoading DEF LoadFails
<1>3. active' = active /\ value' = value
  BY DEF LoadFails, state
<1>4. QED
  BY <1>1, <1>2, <1>3, Unchanged DEF Careful

(* Each event of the user takes care of every widget.                      *)
LEMMA NoneHeededAtRest ==
    ASSUME Quiescent
    PROVE  Waiting = {} /\ \A x : ~Heeded(x)
<1>1. PICK W, q : W = work /\ q = << >>
  OBVIOUS
<1>2. W = <<q>> /\ Len(W) = 1 /\ W[1] = q
  BY <1>1 DEF Quiescent
<1>3. Depth = 1 /\ Range(work[1]) = {}
  BY <1>1, <1>2, RangeEmpty DEF Depth
<1>4. 1..1 = {1}
  OBVIOUS
<1>5. Waiting = {}
  BY <1>3, <1>4 DEF Waiting
<1>6. QED
  BY <1>5 DEF Heeded

LEMMA UserSetsCares ==
    ASSUME NEW rank, IInv, Quiescent, NEW w \in Symbol, NEW y, UserSets(w, y),
           Start(Changed(w)) \/ Start(Notify(w))
    PROVE  /\ Orderly(rank)' /\ \A x \in Widget \ Option : Careful(x)
           /\ SetTasks' = {}
<1>1. w \in Widget
  BY Kinds
<1>2. PICK ts : Tells(ts, w) /\ Start(ts)
  BY <1>1, NotifyTells
<1>3. PICK k, cs : k = 1 /\ cs = propagateCallstack'
  OBVIOUS
<1>4. \A t \in Range(ts) : Obeys(rank, t, k, cs)
  <2>1. \A j \in 1..(k - 1) : rank[cs[j]] <= rank[w]
    BY <1>3
  <2>2. QED
    BY <1>2, <2>1, TellsObeys
<1>5. AfterSet(ts)
  BY <1>2, CalmAfterSet DEF Tells
<1>6. Orderly(rank)' /\ Waiting' = Range(ts)
  BY <1>2, <1>3, <1>4, <1>5, StartOrderly DEF Start
<1>7. Told(w)'
  BY <1>2, <1>6 DEF Told, Tells
<1>8. active' = active /\ \A s \in Symbol \ {w} : value'[s] = value[s]
  BY DEF UserSets, IInv, DataOK
<1>9. \A s \in Symbol \ {w} : Value(s)' = Value(s)
  BY <1>8, SameValue
<1>10. \A x \in Widget : Steady(Needs(x)) \/ Heeded(x)'
  BY <1>1, <1>7, <1>9, News
<1>11. SetTasks' = {}
  BY <1>2, <1>6, CalmRange DEF SetTasks, Tells
<1>12. QED
  BY <1>6, <1>8, <1>10, <1>11, NoneHeededAtRest DEF Careful

LEMMA PickOptionCares ==
    ASSUME NEW rank, Layered(rank), IInv, NEW o \in Option, PickOption(o)
    PROVE  /\ Orderly(rank)' /\ \A x \in Widget \ Option : Careful(x)
           /\ SetTasks' = {}
<1>1. PICK c \in Choice : c = Parent(o)
  BY OptionHasParent
<1>2. FALSE \in BOOLEAN
  OBVIOUS
<1>3. PICK ts : SelectsAll(ts, c, FALSE) /\ work' = << <<>>, ts >>
  BY <1>1, <1>2, SelectMade DEF PickOption
<1>4. PICK W, e : W = work' /\ e = << >>
  OBVIOUS
<1>5. W = <<e, ts>> /\ Len(W) = 2 /\ W[1] = e /\ W[2] = ts
  BY <1>3, <1>4
<1>6. PICK cs : cs = propagateCallstack'
  OBVIOUS
<1>7. cs[1] = c
  BY <1>1, <1>6 DEF PickOption
<1>8. AllObey(rank)'
  <2>1. Depth' = 2 /\ Range(work'[1]) = {} /\ work'[2] = ts
    BY <1>4, <1>5, RangeEmpty DEF Depth
  <2>2. SUFFICES ASSUME NEW k \in 1..2, NEW t \in Range(work'[k])
                 PROVE  Obeys(rank, t, k, cs)
    BY <1>6, <2>1 DEF AllObey
  <2>3. k = 2 /\ t \in Range(ts)
    BY <2>1, <2>2
  <2>4. t.do = "select" /\ t.of \in Range(Children[c])
    BY <1>3, <2>3 DEF SelectsAll
  <2>5. rank[t.of] = rank[c] /\ rank[c] \in Nat
    BY <2>4, OwnChoice, Kinds DEF Layered
  <2>6. QED
    BY <1>7, <2>3, <2>4, <2>5 DEF Obeys
<1>9. AfterSet(work'[1])
  BY <1>4, <1>5, CalmCalls, CalmAfterSet
<1>10. active' = active /\ value' = value
  BY DEF PickOption
<1>11. Quiescent
  BY DEF PickOption, Editable
<1>12. \A x : ~Heeded(x)
  BY <1>11, NoneHeededAtRest
<1>13. SetTasks' = {}
  <2>1. Depth' = 2 /\ Range(work'[1]) = {} /\ work'[2] = ts
    BY <1>4, <1>5, RangeEmpty DEF Depth
  <2>2. Waiting' = UNION {Range(work'[k]) : k \in 1..2} /\ 1..2 = {1, 2}
    BY <2>1 DEF Waiting
  <2>3. Waiting' = Range(ts)
    BY <2>1, <2>2
  <2>4. \A t \in Range(ts) : t.do = "select"
    BY <1>3 DEF SelectsAll
  <2>5. QED
    BY <2>3, <2>4 DEF SetTasks
<1>14. QED
  BY <1>8, <1>9, <1>10, <1>12, <1>13, Unchanged DEF Orderly, Careful

LEMMA GuardedMade ==
    /\ EvaluateChoices \in Seq(Task)
    /\ \A t \in Range(EvaluateChoices) : t.do = "guarded"
    /\ \A c \in Choice : Guarded(c) \in Range(EvaluateChoices)
<1>1. PICK ts : ts = EvaluateChoices
  OBVIOUS
<1>2. ts \in Seq(Task)
  BY <1>1, GuardedCalls
<1>3. PICK n \in Nat : n = Len(ChoiceList)
  BY TreeTyped, LenProperties
<1>4. Len(ts) = n /\ \A i \in 1..n : ts[i] = Guarded(ChoiceList[i])
  BY <1>1, <1>3 DEF EvaluateChoices
<1>5. Range(ts) = {ts[i] : i \in 1..n}
  BY <1>2, <1>4, RangeEquality
<1>6. \A i \in 1..n : ts[i].do = "guarded"
  BY <1>4 DEF Guarded
<1>7. \A c \in Choice : Guarded(c) \in Range(ts)
  <2>1. Range(ChoiceList) = {ChoiceList[i] : i \in 1..n}
    BY <1>3, TreeTyped, RangeEquality
  <2>2. QED
    BY <1>4, <1>5, <2>1, ChoicesApart
<1>8. QED
  BY <1>1, <1>2, <1>5, <1>6, <1>7

(* The calls ts with which loadConfig() begins to load f.                  *)
Loads(ts, f) ==
    /\ ts \in Seq(Task)
    /\ \A t \in Range(ts) : \/ t.do = "guarded"
                            \/ t.do = "set" /\ t.of \in Symbol /\ t.to = f[t.of]
    /\ \A s \in Symbol : SetValue(s, f[s]) \in Range(ts)
    /\ \A c \in Choice : Guarded(c) \in Range(ts)
    /\ AfterSet(ts)

LEMMA LoadMade ==
    ASSUME NEW f \in [Symbol -> Setting \cup {Malformed}], Load(f)
    PROVE  \E ts : Loads(ts, f) /\ work' = <<ts>>
<1> DEFINE S == [i \in 1..Len(Database) |-> SetValue(Database[i], f[Database[i]])]
<1>1. Database \in Seq(Symbol) /\ Symbol \subseteq Range(Database)
  BY TreeTyped, AllCollected
<1>2. PICK n \in Nat : n = Len(Database)
  BY <1>1, LenProperties
<1>3. PICK sets : sets = S
  OBVIOUS
<1>4. \A i \in 1..n : Database[i] \in Symbol
  BY <1>1, <1>2, ElementOfSeq
<1>5. \A s \in Symbol : SetValue(s, f[s]) \in Task
  BY DEF SetValue, Task
<1>6. /\ sets \in Seq(Task) /\ Len(sets) = n
      /\ \A i \in 1..n : sets[i] = SetValue(Database[i], f[Database[i]])
  BY <1>2, <1>3, <1>4, <1>5
<1>7. Range(sets) = {sets[i] : i \in 1..n}
  BY <1>6, RangeEquality
<1>8. \A t \in Range(sets) : t.do = "set" /\ t.of \in Symbol /\ t.to = f[t.of]
  BY <1>4, <1>6, <1>7 DEF SetValue
<1>9. Range(Database) = {Database[i] : i \in 1..n}
  BY <1>1, <1>2, RangeEquality
<1>10. \A s \in Symbol : SetValue(s, f[s]) \in Range(sets)
  BY <1>1, <1>6, <1>7, <1>9
<1>11. PICK us : us = EvaluateChoices
  OBVIOUS
<1>12. /\ us \in Seq(Task) /\ \A t \in Range(us) : t.do = "guarded"
       /\ \A c \in Choice : Guarded(c) \in Range(us)
  BY <1>11, GuardedMade
<1>13. PICK ts : ts = sets \o us
  OBVIOUS
<1>14. ts \in Seq(Task) /\ Range(ts) = Range(sets) \cup Range(us)
  <2>1. sets \o us \in Seq(Task) /\ Range(sets \o us) = Range(sets) \cup Range(us)
    BY <1>6, <1>12, RangeConcat, ConcatProperties
  <2>2. QED
    BY <1>13, <2>1, Zenon
<1>15. \A t \in Range(ts) : \/ t.do = "guarded"
                            \/ t.do = "set" /\ t.of \in Symbol /\ t.to = f[t.of]
  BY <1>8, <1>12, <1>14
<1>16. AfterSet(ts)
  <2>1. /\ \A j \in 1..Len(ts) : ts[j] \in Range(ts)
        /\ Len(us) \in Nat
        /\ \A j \in 1..Len(us) : us[j] \in Range(us)
    BY <1>12, <1>14, RangeEquality, LenProperties
  <2>2. /\ Len(ts) = n + Len(us)
        /\ \A j \in 1..n : ts[j] = sets[j]
        /\ \A j \in (n + 1)..(n + Len(us)) : ts[j] = us[j - n]
    <3>1. /\ Len(sets \o us) = n + Len(us)
          /\ \A j \in 1..(n + Len(us)) :
                (sets \o us)[j] = IF j <= n THEN sets[j] ELSE us[j - n]
      BY <1>6, <1>12, ConcatProperties
    <3>2. QED
      BY <1>13, <2>1, <3>1
  <2>3. \A j \in 1..n : ts[j].do = "set"
    BY <1>6, <2>2 DEF SetValue
  <2>4. \A j \in (n + 1)..Len(ts) : ts[j].do = "guarded"
    <3>1. SUFFICES ASSUME NEW j \in (n + 1)..Len(ts) PROVE ts[j].do = "guarded"
      OBVIOUS
    <3>2. j - n \in 1..Len(us)
      BY <2>1, <2>2
    <3>3. QED
      BY <1>12, <2>1, <2>2, <3>2
  <2>5. ASSUME NEW i \in 1..Len(ts), NEW j \in 1..Len(ts), i < j
        PROVE  /\ ts[i].do = "set" => ts[j].do \in {"set", "guarded"}
               /\ ts[i].do = "guarded" => ts[j].do \in {"guarded", "modules"}
    <3>1. ts[i].do = "guarded" => j \in (n + 1)..Len(ts)
      BY <2>1, <2>2, <2>3, <2>5
    <3>2. QED
      BY <1>15, <2>1, <2>4, <3>1
  <2>6. QED
    BY <2>5 DEF AfterSet
<1>17. Loads(ts, f)
  BY <1>10, <1>12, <1>14, <1>15, <1>16 DEF Loads
<1>18. work' = <<ts>>
  BY <1>3, <1>11, <1>13 DEF Load, Start
<1>19. QED
  BY <1>17, <1>18

LEMMA LoadCares ==
    ASSUME NEW rank, IInv, NEW f \in Files \cup ({saved} \ {None}), Load(f)
    PROVE  Orderly(rank)' /\ \A x \in Widget \ Option : Careful(x)
<1>1. f \in [Symbol -> Setting \cup {Malformed}]
  BY InputsTyped DEF IInv, DataOK
<1>2. PICK ts : Loads(ts, f) /\ work' = <<ts>>
  BY <1>1, LoadMade
<1>3. \A t \in Range(ts) : Obeys(rank, t, 1, propagateCallstack')
  BY <1>2 DEF Loads, Obeys
<1>4. Orderly(rank)'
  BY <1>2, <1>3, StartOrderly DEF Loads
<1>5. active' = active /\ value' = value /\ Quiescent
  BY DEF Load
<1>6. QED
  BY <1>4, <1>5, NoneHeededAtRest, Unchanged DEF Careful

-----------------------------------------------------------------------------
(* Every widget is shown as its condition says, or will hear of it.        *)

ShownOrHeeded == \A x \in Widget \ Option : active[x] = Cond(x) \/ Heeded(x)

(* The inductive invariant.                                                *)
VInv(rank) == IInv /\ OptionsShown /\ Orderly(rank) /\ ShownOrHeeded

LEMMA CarefulKeeps ==
    ASSUME NEW x \in Widget, Careful(x), active[x] = Cond(x) \/ Heeded(x)
    PROVE  (active[x] = Cond(x) \/ Heeded(x))'
<1>1. CASE Heeded(x)'
  BY <1>1
<1>2. CASE Steady(Needs(x)) /\ ~Heeded(x)'
  <2>1. Steady(CondSymbols(x))
    BY <1>2 DEF Steady, Needs, CondSymbols, Mentions, MentionsConditions
  <2>2. Cond(x)' = Cond(x)
    BY <2>1, SteadyCond
  <2>3. active'[x] = Cond(x)
    BY <1>2 DEF Careful
  <2>4. QED
    BY <2>2, <2>3
<1>3. QED
  BY <1>1, <1>2 DEF Careful

LEMMA NextCares ==
    ASSUME NEW rank, Layered(rank), PlainOptions, ModulesUnheard,
           IInv, OptionsShown, Orderly(rank), [Next]_vars
    PROVE  Orderly(rank)' /\ \A x \in Widget \ Option : Careful(x)
<1>1. CASE Engine
  BY <1>1, EvaluateWidgetCares, EvaluateOptionCares, EvaluateChoiceCares,
     SelectOptionCares, PropagateEndCares, PropagateSkipCares,
     PropagateVisitCares, PropagateReturnCares, EvaluateGuardedCares,
     ModulesChangeCares, LoadOptionCares, LoadFailsCares DEF Engine
<1>2. ASSUME NEW w \in Bool, ClickBool(w)
      PROVE  Orderly(rank)' /\ \A x \in Widget \ Option : Careful(x)
  <2>1. w \in Symbol
    BY DEF Symbol, Stateful
  <2>2. PICK y : UserSets(w, y)
    BY <1>2 DEF ClickBool
  <2>3. QED
    BY <1>2, <2>1, <2>2, UserSetsCares DEF ClickBool, Editable
<1>3. ASSUME NEW w \in Tristate, ClickTristate(w)
      PROVE  Orderly(rank)' /\ \A x \in Widget \ Option : Careful(x)
  <2>1. w \in Symbol
    BY DEF Symbol, Stateful
  <2>2. PICK y : UserSets(w, y)
    BY <1>3 DEF ClickTristate
  <2>3. QED
    BY <1>3, <2>1, <2>2, UserSetsCares DEF ClickTristate, Editable
<1>4. ASSUME NEW w \in Number \cup Text, NEW y \in Typed(w), EditText(w, y)
      PROVE  Orderly(rank)' /\ \A x \in Widget \ Option : Careful(x)
  <2>1. w \in Symbol
    BY DEF Symbol
  <2>2. QED
    BY <1>4, <2>1, UserSetsCares DEF EditText, Editable
<1>5. CASE UNCHANGED <<active, value, propagateCallstack, work>>
  <2>1. Orderly(rank)' /\ \A x : Heeded(x)' = Heeded(x)
    BY <1>5 DEF Orderly, AllObey, AfterSet, Depth, Heeded, Waiting
  <2>2. QED
    BY <1>5, <2>1, Unchanged DEF Careful
<1>6. Save => UNCHANGED <<active, value, propagateCallstack, work>>
  BY DEF Save, state
<1>7. CASE User
  BY <1>2, <1>3, <1>4, <1>5, <1>6, <1>7, PickOptionCares, LoadCares DEF User
<1>8. QED
  BY <1>1, <1>5, <1>7 DEF Next, vars

LEMMA InitOrderly ==
    ASSUME NEW rank, Init
    PROVE  Orderly(rank) /\ SetTasks = {}
<1>1. PICK gs, us : /\ gs = EvaluateChoices
                    /\ us = IF Modules # None THEN <<InvalidateTristate>> ELSE <<>>
  OBVIOUS
<1>2. gs \in Seq(Task) /\ \A t \in Range(gs) : t.do = "guarded"
  BY <1>1, GuardedMade
<1>3. InvalidateTristate \in Task /\ InvalidateTristate.do = "modules"
  BY DEF InvalidateTristate, Task
<1>4. us \in Seq(Task) /\ \A t \in Range(us) : t.do = "modules" /\ Modules # None
  BY <1>1, <1>3, OneCalm, RangeEmpty
<1>5. PICK ts : ts = gs \o us
  OBVIOUS
<1>6. ts \in Seq(Task) /\ Range(ts) = Range(gs) \cup Range(us)
  <2>1. gs \o us \in Seq(Task) /\ Range(gs \o us) = Range(gs) \cup Range(us)
    BY <1>2, <1>4, RangeConcat, ConcatProperties
  <2>2. QED
    BY <1>5, <2>1, Zenon
<1>7. \A t \in Range(ts) : Obeys(rank, t, 1, propagateCallstack)
  BY <1>2, <1>4, <1>6 DEF Obeys
<1>8. AfterSet(ts)
  <2>1. \A j \in 1..Len(ts) : ts[j] \in Range(ts)
    BY <1>6, RangeEquality
  <2>2. \A j \in 1..Len(ts) : ts[j].do \in {"guarded", "modules"}
    BY <1>2, <1>4, <1>6, <2>1
  <2>3. QED
    BY <2>2 DEF AfterSet
<1>9. PICK W : W = work
  OBVIOUS
<1>10. W = <<ts>>
  BY <1>1, <1>5, <1>9 DEF Init
<1>11. Len(W) = 1 /\ W[1] = ts
  BY <1>10
<1>12. Depth = 1 /\ work[1] = ts /\ 1..1 = {1}
  BY <1>9, <1>11 DEF Depth
<1>13. SetTasks = {}
  <2>1. Waiting = Range(ts)
    BY <1>12 DEF Waiting
  <2>2. \A t \in Range(ts) : t.do \in {"guarded", "modules"}
    BY <1>2, <1>4, <1>6
  <2>3. QED
    BY <2>1, <2>2 DEF SetTasks
<1>14. QED
  BY <1>7, <1>8, <1>12, <1>13 DEF Orderly, AllObey

LEMMA NextVInv ==
    ASSUME NEW rank, Layered(rank), PlainOptions, ModulesUnheard,
           VInv(rank), [Next]_vars
    PROVE  VInv(rank)'
<1>1. IInv' /\ OptionsShown'
  BY NextIInv, NextOptionsShown DEF VInv
<1>2. Orderly(rank)' /\ \A x \in Widget \ Option : Careful(x)
  BY NextCares DEF VInv
<1>3. ShownOrHeeded'
  BY <1>2, CarefulKeeps DEF VInv, ShownOrHeeded
<1>4. QED
  BY <1>1, <1>2, <1>3 DEF VInv

LEMMA VisibilityInvariance ==
    ASSUME NEW rank, Layered(rank), PlainOptions, ModulesUnheard
    PROVE  Spec /\ Shown => []VInv(rank)
<1>1. Init /\ Shown => VInv(rank)
  BY InitIInv, InitOptionsShown, InitOrderly DEF VInv, ShownOrHeeded, Shown
<1>2. VInv(rank) /\ [Next]_vars => VInv(rank)'
  BY NextVInv
<1>3. QED
  BY <1>1, <1>2, PTL DEF Spec

(* Whatever the tree, as long as its dependencies have no loop, and        *)
(* whatever the user does, one event at a time: when the nested            *)
(* evaluations are over every widget is shown or hidden as its condition   *)
(* says, although propagate() skips the referrers in the call stack.       *)
THEOREM VisibilitySettles ==
    ASSUME NEW rank, Layered(rank), PlainOptions, ModulesUnheard
    PROVE  Spec /\ Shown => []VisibilitySettled
<1>1. VInv(rank) => VisibilitySettled
  <2> SUFFICES ASSUME VInv(rank), Quiescent PROVE Shown
    BY DEF VisibilitySettled
  <2>1. \A w \in Widget \ Option : active[w] = Cond(w)
    BY NoneHeededAtRest DEF VInv, ShownOrHeeded
  <2>2. active \in [Widget -> BOOLEAN] /\ Option \subseteq Widget
    BY Kinds DEF VInv, IInv, DataOK
  <2>3. \A o \in Option : active[Parent(o)] => active[o] = OptionCond(o)
    BY <2>2, PlainConditions DEF VInv, OptionsShown
  <2>4. QED
    BY <2>1, <2>3 DEF Shown
<1>2. QED
  BY <1>1, VisibilityInvariance, PTL
-----------------------------------------------------------------------------
(* The values settle as well.                                              *)

(* x is active at the value of its evaluation: where UserDecides nothing   *)
(* but a selection overrides the user.                                     *)
UpToDate(x) == active[x] => value[x] = Assigned(x, user_value[x])

(* loadConfig() has x still to set.                                        *)
Awaits(x) == \E t \in SetTasks : t.of = x

(* loadConfig() sets one file, whose strings all have their quotes, and no *)
(* option has a user value but from it.                                    *)
LoadsOne ==
    \E f : \A t \in SetTasks :
        /\ t.of \in Symbol /\ t.to = f[t.of] /\ t.to \in Setting
        /\ t.to = Blank => t.of \notin Text
        /\ user_value[t.of] \in {Unset, Read(t.of, t.to)} \ {Blank}

Attended(x) == UpToDate(x) \/ Heeded(x) \/ Awaits(x)

ValuedOrHeeded == \A x \in Symbol \ Option : Attended(x) \/ Emptied(x)

(* A step minds x: x takes the value due to it, or will, or is left alone. *)
Taken(x) == active'[x] => value'[x] = Assigned(x, user_value'[x])

Untouched(x) ==
    /\ active'[x] = active[x]
    /\ value'[x] = value[x]
    /\ user_value'[x] = user_value[x]

Minds(x) ==
    \/ Taken(x)
    \/ Heeded(x)'
    \/ Awaits(x)'
    \/ Untouched(x) /\ ~Heeded(x) /\ ~Awaits(x)

LEMMA UserCounts ==
    ASSUME UserDecides, NEW x \in Symbol \ Option
    PROVE  /\ isSelected(x) => x \in Bool
           /\ Assigned(x, Restored(x)) = Assigned(x, user_value[x])
<1>1. /\ Node[x].weak_rev_dep = <<>>
      /\ x \notin Bool \ Tristate => Node[x].rev_dep = <<>>
  BY DEF UserDecides
<1>2. isSelected(x) => x \in Bool \ Tristate
  BY <1>1 DEF isSelected
<1>3. Restored(x) = IF isSelected(x) THEN 2 ELSE user_value[x]
  BY <1>1 DEF Restored
<1>4. CASE isSelected(x)
  BY <1>2, <1>4 DEF Assigned
<1>5. CASE ~isSelected(x)
  BY <1>3, <1>5
<1>6. QED
  BY <1>2, <1>4, <1>5

LEMMA MindsKeeps ==
    ASSUME NEW x \in Symbol \ Option, Careful(x), Minds(x)
    PROVE  /\ Attended(x) => Attended(x)'
           /\ Emptied(x) => Attended(x)' \/ Emptied(x)'
<1>1. SUFFICES ASSUME ~Heeded(x)', ~Awaits(x)', Attended(x) \/ Emptied(x)
               PROVE  /\ Attended(x) => UpToDate(x)'
                      /\ Emptied(x) => UpToDate(x)' \/ Emptied(x)'
  BY DEF Attended
<1>2. x \in Widget /\ x \notin Choice
  BY Kinds
<1>3. Steady(Mentions(x))
  BY <1>1, <1>2 DEF Careful, Needs
<1>4. isSelected(x)' = isSelected(x)
  BY <1>2, <1>3, SteadyAssigned
<1>5. getDefault(x)' = getDefault(x)
  BY <1>3, SteadyAssigned
<1>6. Assigned(x, user_value[x])' = Assigned(x, user_value'[x])
  BY <1>4, <1>5 DEF Assigned
<1>7. Taken(x) \/ (Untouched(x) /\ ~Heeded(x) /\ ~Awaits(x))
  BY <1>1 DEF Minds
<1>8. CASE Taken(x)
  BY <1>6, <1>8 DEF UpToDate, Taken
<1>9. CASE Untouched(x) /\ ~Heeded(x) /\ ~Awaits(x)
  <2>1. Attended(x) => UpToDate(x)
    BY <1>9 DEF Attended
  <2>2. UpToDate(x) => UpToDate(x)'
    BY <1>6, <1>9 DEF UpToDate, Untouched
  <2>3. Emptied(x) => Emptied(x)'
    BY <1>9 DEF Emptied, Untouched
  <2>4. QED
    BY <2>1, <2>2, <2>3
<1>10. QED
  BY <1>7, <1>8, <1>9

LEMMA StillMinds ==
    ASSUME NEW x, Careful(x), KeepsSets, Untouched(x),
           ~(Running("evaluate") /\ Call.of = x),
           ~(Running("set") /\ Call.of = x)
    PROVE  Minds(x)
<1>1. Heeded(x) => Heeded(x)'
  BY DEF Careful
<1>2. Awaits(x) => Awaits(x)'
  BY DEF Awaits, KeepsSets
<1>3. QED
  BY <1>1, <1>2 DEF Minds

LEMMA StillLoads ==
    ASSUME LoadsOne, SetTasks' \subseteq SetTasks, user_value' = user_value
    PROVE  LoadsOne'
BY DEF LoadsOne
(* What a step of the engine does for the values.                          *)
MindsAll == \A x \in Symbol \ Option : Minds(x)
MindsMost == \A x \in Symbol \ Option : Minds(x) \/ Emptied(x)'

LEMMA EvaluateWidgetMinds ==
    ASSUME UserDecides, IInv, EvaluateWidget, KeepsSets,
           \A x \in Widget \ Option : Careful(x)
    PROVE  MindsAll /\ user_value' = user_value
<1>1. Call.do = "evaluate"
  BY Runs DEF IInv, EvaluateWidget
<1>2. active \in [Widget -> BOOLEAN] /\ value \in [Symbol -> Setting]
  BY DEF IInv, DataOK
<1>3. user_value' = user_value
  BY DEF EvaluateWidget
<1>4. ASSUME NEW x \in Symbol \ Option
      PROVE  Minds(x)
  <2>1. x \in Widget \ Option
    BY Kinds
  <2>2. CASE x = Call.of
    <3>1. active'[x] = Cond(x)
      BY <1>2, <2>1, <2>2 DEF EvaluateWidget
    <3>2. PICK y : y = IF Cond(x) THEN Assigned(x, Restored(x)) ELSE value[x]
      OBVIOUS
    <3>3. value' = [value EXCEPT ![x] = y] \/ (y = value[x] /\ value' = value)
      BY <2>2, <3>2 DEF EvaluateWidget
    <3>4. value'[x] = y
      BY <1>2, <3>3
    <3>5. Assigned(x, Restored(x)) = Assigned(x, user_value[x])
      BY UserCounts
    <3>6. QED
      BY <1>3, <3>1, <3>2, <3>4, <3>5 DEF Minds, Taken
  <2>3. CASE x # Call.of
    <3>1. Untouched(x)
      BY <1>2, <1>3, <2>1, <2>3 DEF EvaluateWidget, Untouched
    <3>2. Careful(x) /\ ~Running("set")
      BY <1>1, <2>1 DEF Running, Call
    <3>3. QED
      BY <2>3, <3>1, <3>2, StillMinds
  <2>4. QED
    BY <2>2, <2>3
<1>5. QED
  BY <1>3, <1>4 DEF MindsAll

(* The other calls leave the widgets alone that are not options.           *)
LEMMA UntouchedMinds ==
    ASSUME KeepsSets, \A x \in Widget \ Option : Careful(x),
           \A x \in Symbol \ Option : Untouched(x),
           ~Running("set"),
           Running("evaluate") => Call.of \in Option \cup Choice
    PROVE  MindsAll
<1>1. SUFFICES ASSUME NEW x \in Symbol \ Option
               PROVE  Minds(x)
  BY DEF MindsAll
<1>2. x \in Widget \ Option /\ x \notin Choice
  BY Kinds
<1>3. QED
  BY <1>2, StillMinds

LEMMA EvaluateOptionMinds ==
    ASSUME IInv, EvaluateOption, KeepsSets,
           \A x \in Widget \ Option : Careful(x)
    PROVE  MindsAll /\ user_value' = user_value
<1>1. Call.do = "evaluate" /\ Call.of \in Option
  BY Runs DEF IInv, EvaluateOption
<1>2. active \in [Widget -> BOOLEAN] /\ Symbol \subseteq Widget
  BY Kinds DEF IInv, DataOK
<1>3. \A x \in Symbol \ Option : Untouched(x)
  BY <1>1, <1>2 DEF EvaluateOption, Untouched
<1>4. QED
  BY <1>1, <1>3, UntouchedMinds DEF Running, Call, EvaluateOption

LEMMA EvaluateChoiceMinds ==
    ASSUME IInv, EvaluateChoice, KeepsSets,
           \A x \in Widget \ Option : Careful(x)
    PROVE  MindsAll /\ user_value' = user_value
<1>1. Call.do = "evaluate" /\ Call.of \in Choice
  BY Runs DEF IInv, EvaluateChoice
<1>2. PICK c \in Choice : c = Call.of
  BY <1>1
<1>3. value' = value /\ user_value' = user_value
  BY DEF EvaluateChoice
<1>4. \A x \in Symbol \ Option : active'[x] = active[x]
  <2>1. SUFFICES ASSUME NEW x \in Symbol \ Option
                 PROVE  active'[x] = active[x]
    OBVIOUS
  <2>2. x \in Widget /\ x # c
    BY Kinds
  <2>3. x \notin Range(Children[c])
    BY OwnChoice
  <2>4. QED
    BY <1>2, <2>2, <2>3 DEF EvaluateChoice
<1>5. \A x \in Symbol \ Option : Untouched(x)
  BY <1>3, <1>4 DEF Untouched
<1>6. QED
  BY <1>1, <1>3, <1>5, UntouchedMinds DEF Running, Call

LEMMA SelectOptionMinds ==
    ASSUME IInv, SelectOption, KeepsSets,
           \A x \in Widget \ Option : Careful(x)
    PROVE  MindsAll /\ user_value' = user_value
<1>1. Call.do = "select" /\ Call \in Task
  BY Runs DEF IInv, SelectOption
<1>2. Call.of \in Option
  BY <1>1, TaskFields
<1>3. value \in [Symbol -> Setting]
  BY DEF IInv, DataOK
<1>4. active' = active /\ user_value' = user_value
  BY DEF SelectOption
<1>5. value' = value \/ \E y : value' = [value EXCEPT ![Call.of] = y]
  BY DEF SelectOption
<1>6. \A x \in Symbol \ Option : value'[x] = value[x]
  BY <1>2, <1>3, <1>5
<1>7. \A x \in Symbol \ Option : Untouched(x)
  BY <1>4, <1>6 DEF Untouched
<1>8. QED
  BY <1>1, <1>4, <1>7, UntouchedMinds DEF Running, Call

LEMMA PropagationMinds ==
    ASSUME IInv, KeepsSets, \A x \in Widget \ Option : Careful(x),
           \/ PropagateEnd \/ PropagateSkip \/ PropagateVisit
           \/ PropagateReturn \/ EvaluateGuarded
    PROVE  MindsAll /\ user_value' = user_value
<1>1. UNCHANGED <<active, value, user_value>>
  BY DEF PropagateEnd, PropagateSkip, PropagateVisit, PropagateReturn,
         EvaluateGuarded, state
<1>2. \A x \in Symbol \ Option : Untouched(x)
  BY <1>1 DEF Untouched
<1>3. ~Running("set") /\ ~Running("evaluate")
  BY DEF PropagateEnd, PropagateSkip, PropagateVisit, PropagateReturn,
         EvaluateGuarded, Running
<1>4. QED
  BY <1>1, <1>2, <1>3, UntouchedMinds

LEMMA ModulesChangeMinds ==
    ASSUME NEW rank, UserDecides, IInv, Orderly(rank), ModulesChange, KeepsSets,
           \A x \in Widget \ Option : Careful(x)
    PROVE  MindsAll /\ user_value' = user_value
<1>1. work[Depth] # <<>> /\ Call.do = "modules"
  BY Runs DEF IInv, ModulesChange
<1>2. Obeys(rank, Call, Depth, propagateCallstack)
  BY <1>1, CallWaits, Levels DEF Orderly, AllObey, IInv
<1>3. Tristate = {}
  BY <1>1, <1>2 DEF Obeys, UserDecides
<1>4. \A x \in Symbol : value'[x] = value[x]
  BY <1>3 DEF ModulesChange
<1>5. active' = active /\ user_value' = user_value
  BY DEF ModulesChange
<1>6. \A x \in Symbol \ Option : Untouched(x)
  BY <1>4, <1>5 DEF Untouched
<1>7. QED
  BY <1>1, <1>5, <1>6, UntouchedMinds DEF Running, Call

LEMMA LoadOptionMinds ==
    ASSUME IInv, LoadsOne, LoadOption, KeepsSets,
           \A x \in Widget \ Option : Careful(x)
    PROVE  /\ LoadsOne' /\ MindsMost
           /\ (\A t \in SetTasks : t.to # Blank) => MindsAll
<1>1. work[Depth] # <<>> /\ Call.do = "set" /\ Call \in Task
  BY Runs DEF IInv, LoadOption
<1>2. PICK s \in Symbol : s = Call.of
  BY <1>1, TaskFields
<1>3. Call \in SetTasks
  BY <1>1, CallWaits DEF IInv, SetTasks
<1>4. PICK f : \A t \in SetTasks :
          /\ t.of \in Symbol /\ t.to = f[t.of] /\ t.to \in Setting
          /\ t.to = Blank => t.of \notin Text
          /\ user_value[t.of] \in {Unset, Read(t.of, t.to)} \ {Blank}
  BY DEF LoadsOne
<1>5. PICK y : y = Read(s, Call.to)
  OBVIOUS
<1>6. f[s] = Call.to /\ user_value[s] \in {Unset, y} \ {Blank}
  BY <1>2, <1>3, <1>4, <1>5
<1>7. /\ user_value \in [Symbol -> Setting] /\ value \in [Symbol -> Setting]
      /\ active' = active
      /\ user_value' = IF y \in {Unset, Blank} THEN user_value
                       ELSE [user_value EXCEPT ![s] = y]
  BY <1>2, <1>5 DEF IInv, DataOK, LoadOption
<1>8. /\ user_value'[s] = IF y = Blank THEN Unset ELSE y
      /\ \A x \in Symbol \ {s} : user_value'[x] = user_value[x]
  BY <1>6, <1>7
<1>b. y = Blank => Call.to = Blank /\ s \notin Text
  <2>1. SUFFICES ASSUME y = Blank PROVE Call.to = Blank /\ s \notin Text
    OBVIOUS
  <2>2. y = Call.to
    BY <1>5, <2>1, InputsTyped DEF Read, Range, Unset, Blank
  <2>3. QED
    BY <1>2, <1>3, <1>4, <2>1, <2>2
<1>9. ASSUME NEW x \in Symbol \ Option
      PROVE  Minds(x) \/ (y = Blank /\ Emptied(x)')
  <2>1. CASE x = s
    <3>1. value'[s] = Assigned(s, y)
      BY <1>2, <1>5, <1>7, <2>1 DEF LoadOption
    <3>2. CASE y # Blank
      BY <1>8, <2>1, <3>1, <3>2 DEF Minds, Taken
    <3>3. CASE y = Blank /\ s \in Bool /\ isSelected(s)
      <4>1. Assigned(s, y) = 2 /\ Assigned(s, Unset) = 2
        BY <3>3 DEF Assigned
      <4>2. QED
        BY <1>8, <2>1, <3>1, <3>3, <4>1 DEF Minds, Taken
    <3>4. CASE y = Blank /\ ~(s \in Bool /\ isSelected(s))
      <4>1. Assigned(s, y) = Blank
        BY <1>b, <3>4 DEF Assigned, Unset, Blank
      <4>2. QED
        BY <1>b, <1>8, <2>1, <3>1, <3>4, <4>1 DEF Emptied
    <3>5. QED
      BY <3>2, <3>3, <3>4
  <2>2. CASE x # s
    <3>1. value'[x] = value[x]
      BY <1>2, <1>7, <2>2 DEF LoadOption
    <3>2. Untouched(x)
      BY <1>7, <1>8, <2>2, <3>1 DEF Untouched
    <3>3. Careful(x) /\ ~Running("evaluate")
      BY <1>1, Kinds DEF Running, Call
    <3>4. QED
      BY <1>2, <2>2, <3>2, <3>3, StillMinds
  <2>3. QED
    BY <2>1, <2>2
<1>10. LoadsOne'
  <2>1. SUFFICES ASSUME NEW t \in SetTasks'
                 PROVE  /\ t.of \in Symbol /\ t.to = f[t.of] /\ t.to \in Setting
                        /\ t.to = Blank => t.of \notin Text
                        /\ user_value'[t.of] \in {Unset, Read(t.of, t.to)} \ {Blank}
    BY DEF LoadsOne
  <2>2. t \in SetTasks
    BY DEF KeepsSets
  <2>3. /\ t.of \in Symbol /\ t.to = f[t.of] /\ t.to \in Setting
        /\ t.to = Blank => t.of \notin Text
        /\ user_value[t.of] \in {Unset, Read(t.of, t.to)} \ {Blank}
    BY <1>4, <2>2
  <2>4. CASE t.of = s
    BY <1>5, <1>6, <1>8, <2>3, <2>4 DEF Unset, Blank
  <2>5. CASE t.of # s
    BY <1>8, <2>3, <2>5
  <2>6. QED
    BY <2>3, <2>4, <2>5
<1>11. QED
  <2>1. (\A t \in SetTasks : t.to # Blank) => y # Blank
    BY <1>3, <1>b
  <2>2. QED
    BY <1>9, <1>10, <2>1 DEF MindsAll, MindsMost

LEMMA NothingMalformed ==
    ASSUME IInv, LoadsOne
    PROVE  ~LoadFails
<1>1. SUFFICES ASSUME LoadFails PROVE FALSE
  OBVIOUS
<1>2. work[Depth] # <<>> /\ Call.do = "set" /\ Call.to = Malformed
  BY <1>1 DEF LoadFails, Running, Call
<1>3. Call \in SetTasks
  BY <1>2, CallWaits DEF IInv, SetTasks
<1>4. Call.to \in Setting
  BY <1>3 DEF LoadsOne
<1>5. QED
  BY <1>2, <1>4 DEF Setting, Unset, Blank, Malformed

LEMMA EngineMinds ==
    ASSUME NEW rank, Layered(rank), PlainOptions, ModulesUnheard, UserDecides,
           IInv, OptionsShown, Orderly(rank), LoadsOne, Engine
    PROVE  /\ LoadsOne' /\ MindsMost
           /\ (\A t \in SetTasks : t.to # Blank) => MindsAll
<1>1. ~LoadFails
  BY NothingMalformed
<1>2. KeepsSets /\ \A x \in Widget \ Option : Careful(x)
  BY <1>1, EvaluateWidgetCares, EvaluateOptionCares, EvaluateChoiceCares,
     SelectOptionCares, PropagateEndCares, PropagateSkipCares,
     PropagateVisitCares, PropagateReturnCares, EvaluateGuardedCares,
     ModulesChangeCares, LoadOptionCares DEF Engine
<1>3. CASE LoadOption
  BY <1>2, <1>3, LoadOptionMinds
<1>4. CASE ~LoadOption
  <2>1. MindsAll /\ user_value' = user_value
    BY <1>1, <1>2, <1>4, EvaluateWidgetMinds, EvaluateOptionMinds,
       EvaluateChoiceMinds, SelectOptionMinds, PropagationMinds,
       ModulesChangeMinds DEF Engine
  <2>2. QED
    BY <1>2, <2>1, StillLoads DEF KeepsSets, MindsAll, MindsMost
<1>5. QED
  BY <1>3, <1>4
(* And the user's events.                                                  *)
UserMinds == MindsAll /\ LoadsOne'

LEMMA UserSetsMinds ==
    ASSUME UserDecides, IInv, Quiescent, SetTasks' = {},
           NEW w \in Symbol \ Option, NEW y \in Setting \ {Unset}, UserSets(w, y),
           isSelected(w) => y = 2, y = Blank => w \notin Text
    PROVE  UserMinds
<1>1. /\ active' = active
      /\ \A x \in Symbol : /\ value'[x] = IF x = w THEN y ELSE value[x]
                           /\ user_value'[x] = IF x = w THEN y ELSE user_value[x]
  BY DEF UserSets, IInv, DataOK
<1>2. Waiting = {} /\ \A x : ~Heeded(x)
  BY NoneHeededAtRest
<1>3. \A x : ~Awaits(x)
  BY <1>2 DEF Awaits, SetTasks
<1>4. y # Unset
  OBVIOUS
<1>5. Assigned(w, y) = y
  BY <1>4 DEF Assigned
<1>6. Taken(w)
  BY <1>1, <1>5 DEF Taken
<1>7. \A x \in Symbol \ {w} : Untouched(x)
  BY <1>1 DEF Untouched
<1>8. MindsAll
  BY <1>2, <1>3, <1>6, <1>7 DEF MindsAll, Minds
<1>9. LoadsOne'
  BY DEF LoadsOne
<1>10. QED
  BY <1>8, <1>9 DEF UserMinds

LEMMA ClickBoolMinds ==
    ASSUME NEW rank, UserDecides, IInv, NEW w \in Bool, ClickBool(w)
    PROVE  UserMinds
<1>1. w \in Symbol /\ w \notin Option
  BY WidgetsDisjoint DEF Symbol, Stateful
<1>2. Quiescent /\ Start(Changed(w))
  BY DEF ClickBool, Editable
<1>3. PICK y : /\ y = IF isSelected(w) \/ value[w] # 2 THEN 2 ELSE 0
               /\ UserSets(w, y)
  BY DEF ClickBool
<1>4. SetTasks' = {}
  BY <1>1, <1>2, <1>3, UserSetsCares
<1>5. y \in Setting \ {Unset} /\ (isSelected(w) => y = 2) /\ y # Blank
  BY <1>3 DEF Setting, Unset, Blank
<1>6. QED
  BY <1>1, <1>2, <1>3, <1>4, <1>5, UserSetsMinds

LEMMA ClickTristateMinds ==
    ASSUME NEW rank, UserDecides, IInv, NEW w \in Tristate, ClickTristate(w)
    PROVE  UserMinds
<1>1. w \in Symbol /\ w \notin Option
  BY WidgetsDisjoint DEF Symbol, Stateful
<1>2. Quiescent /\ Start(Notify(w))
  BY DEF ClickTristate, Editable
<1>3. PICK y \in Setting \ {Unset} : UserSets(w, y)
  <2>1. PICK x : x = IF value[w] # Unset THEN value[w]
                     ELSE IF getDefault(w) # Unset THEN getDefault(w) ELSE 0
    OBVIOUS
  <2>2. PICK y : /\ y = CASE x = 0 -> IF Modules # None /\ Value(Modules) = 2
                                      THEN 1 ELSE 2
                          [] x = 1 -> 2
                          [] x = 2 -> 0
                          [] OTHER -> x
                 /\ UserSets(w, y)
    BY <2>1 DEF ClickTristate
  <2>3. x \in Setting \ {Unset}
    BY <1>1, <2>1, DefaultType DEF IInv, DataOK, Setting, Unset
  <2>4. y \in Setting \ {Unset}
    BY <2>2, <2>3 DEF Setting, Unset
  <2>5. QED
    BY <2>2, <2>4
<1>4. SetTasks' = {}
  BY <1>1, <1>2, <1>3, UserSetsCares
<1>5. ~isSelected(w)
  BY <1>1 DEF UserDecides, isSelected
<1>6. w \notin Text
  BY WidgetsDisjoint
<1>7. QED
  BY <1>1, <1>2, <1>3, <1>4, <1>5, <1>6, UserSetsMinds

LEMMA EditTextMinds ==
    ASSUME NEW rank, UserDecides, IInv,
           NEW w \in Number \cup Text, NEW y \in Typed(w), EditText(w, y)
    PROVE  UserMinds
<1>1. w \in Symbol /\ w \notin Option /\ w \notin Bool
  BY WidgetsDisjoint DEF Symbol
<1>2. Quiescent /\ Start(Notify(w)) /\ UserSets(w, y)
  BY DEF EditText, Editable
<1>3. SetTasks' = {}
  BY <1>1, <1>2, UserSetsCares
<1>4. ~isSelected(w)
  BY <1>1, UserCounts
<1>5. y \in Setting \ {Unset} /\ (y = Blank => w \notin Text)
  BY TreeTyped, WidgetsDisjoint DEF Typed, Setting, Unset, Blank
<1>6. QED
  BY <1>1, <1>2, <1>3, <1>4, <1>5, UserSetsMinds

LEMMA LeftAloneMinds ==
    ASSUME Quiescent, SetTasks' = {}, UNCHANGED <<active, value, user_value>>
    PROVE  UserMinds
<1>1. Waiting = {} /\ \A x : ~Heeded(x)
  BY NoneHeededAtRest
<1>2. \A x : ~Awaits(x) /\ Untouched(x)
  BY <1>1 DEF Awaits, SetTasks, Untouched
<1>3. LoadsOne'
  BY DEF LoadsOne
<1>4. QED
  BY <1>1, <1>2, <1>3 DEF UserMinds, MindsAll, Minds

LEMMA LoadMinds ==
    ASSUME Files \subseteq [Symbol -> Setting], IInv,
           NEW f \in Files \cup ({saved} \ {None}), Load(f)
    PROVE  UserMinds
<1>1. f \in [Symbol -> Setting]
  BY DEF IInv, DataOK
<1>2. PICK ts : Loads(ts, f) /\ work' = <<ts>>
  <2>1. f \in [Symbol -> Setting \cup {Malformed}]
    BY <1>1
  <2>2. QED
    BY <2>1, LoadMade
<1>3. Waiting' = Range(ts)
  BY <1>2, StartWaits
<1>4. SetTasks' = {t \in Range(ts) : t.do = "set"}
  BY <1>3 DEF SetTasks
<1>b. \A s \in Text : f[s] # Blank
  <2>1. CASE f \in Files
    BY <2>1, InputsTyped, WidgetsDisjoint DEF Symbol
  <2>2. CASE f \notin Files
    BY <2>2 DEF IInv, DataOK
  <2>3. QED
    BY <2>1, <2>2
<1>5. \A t \in SetTasks' : /\ t.of \in Symbol /\ t.to = f[t.of] /\ t.to \in Setting
                           /\ t.to = Blank => t.of \notin Text
  BY <1>1, <1>2, <1>4, <1>b DEF Loads
<1>6. \A s \in Symbol : user_value'[s] = Unset
  BY DEF Load
<1>7. LoadsOne'
  BY <1>5, <1>6 DEF LoadsOne, Unset, Blank
<1>8. ASSUME NEW x \in Symbol \ Option
      PROVE  Minds(x)
  <2>1. PICK t \in Range(ts) : t.do = "set" /\ t.of = x
    BY <1>2 DEF Loads, SetValue
  <2>2. QED
    BY <1>4, <2>1 DEF Minds, Awaits
<1>9. QED
  BY <1>7, <1>8 DEF UserMinds, MindsAll

LEMMA NextMinds ==
    ASSUME NEW rank, Layered(rank), PlainOptions, ModulesUnheard, UserDecides,
           Files \subseteq [Symbol -> Setting],
           IInv, OptionsShown, Orderly(rank), LoadsOne, Next
    PROVE  MindsMost /\ LoadsOne'
<1>1. CASE Engine
  BY <1>1, EngineMinds
<1>2. ASSUME NEW o \in Option, PickOption(o)
      PROVE  UserMinds
  <2>1. SetTasks' = {} /\ Quiescent
    BY <1>2, PickOptionCares DEF PickOption, Editable
  <2>2. UNCHANGED <<active, value, user_value>>
    BY <1>2 DEF PickOption
  <2>3. QED
    BY <2>1, <2>2, LeftAloneMinds
<1>3. ASSUME Save
      PROVE  UserMinds
  <2>1. Quiescent /\ UNCHANGED <<active, value, user_value, work>>
    BY <1>3 DEF Save, state
  <2>2. SetTasks' = SetTasks
    BY <2>1 DEF SetTasks, Waiting, Depth
  <2>3. SetTasks = {}
    BY <2>1, NoneHeededAtRest DEF SetTasks
  <2>4. QED
    BY <2>1, <2>2, <2>3, LeftAloneMinds
<1>4. CASE User
  <2>1. UserMinds
    BY <1>2, <1>3, <1>4, ClickBoolMinds, ClickTristateMinds, EditTextMinds,
       LoadMinds DEF User
  <2>2. QED
    BY <2>1 DEF UserMinds, MindsAll, MindsMost
<1>5. QED
  BY <1>1, <1>4 DEF Next

(* The inductive invariant.                                                *)
WInv(rank) == VInv(rank) /\ ValuedOrHeeded /\ LoadsOne

LEMMA ValuesInvariance ==
    ASSUME NEW rank, Layered(rank), PlainOptions, ModulesUnheard, UserDecides,
           Files \subseteq [Symbol -> Setting]
    PROVE  Spec /\ Shown /\ Valued => []WInv(rank)
<1>1. Init /\ Shown /\ Valued => WInv(rank)
  <2> SUFFICES ASSUME Init, Shown, Valued PROVE WInv(rank)
    OBVIOUS
  <2>1. VInv(rank)
    BY InitIInv, InitOptionsShown, InitOrderly DEF VInv, ShownOrHeeded, Shown
  <2>2. ValuedOrHeeded
    BY UserCounts DEF ValuedOrHeeded, Attended, UpToDate, Valued
  <2>3. LoadsOne
    BY InitOrderly DEF LoadsOne
  <2>4. QED
    BY <2>1, <2>2, <2>3 DEF WInv
<1>2. WInv(rank) /\ [Next]_vars => WInv(rank)'
  <2> SUFFICES ASSUME WInv(rank), [Next]_vars PROVE WInv(rank)'
    OBVIOUS
  <2>1. VInv(rank)'
    BY NextVInv DEF WInv
  <2>2. CASE Next
    <3>1. MindsMost /\ LoadsOne'
      BY <2>2, NextMinds DEF WInv, VInv
    <3>2. \A x \in Widget \ Option : Careful(x)
      BY NextCares DEF WInv, VInv
    <3>3. ASSUME NEW x \in Symbol \ Option
          PROVE  Attended(x)' \/ Emptied(x)'
      <4>1. Careful(x)
        BY <3>2, Kinds
      <4>2. QED
        BY <3>1, <4>1, MindsKeeps DEF MindsMost, WInv, ValuedOrHeeded
    <3>4. QED
      BY <2>1, <3>1, <3>3 DEF WInv, ValuedOrHeeded
  <2>3. CASE UNCHANGED vars
    <3>1. /\ SetTasks' = SetTasks
          /\ \A x : Heeded(x)' = Heeded(x) /\ Awaits(x)' = Awaits(x)
      BY <2>3 DEF vars, SetTasks, Waiting, Depth, Heeded, Awaits
    <3>2. LoadsOne'
      BY <2>3, <3>1, StillLoads DEF vars, WInv
    <3>3. \A x : UpToDate(x)' = UpToDate(x) /\ Emptied(x)' = Emptied(x)
      BY <2>3 DEF vars, UpToDate, Assigned, getDefault, isSelected, Value,
                  Reads, Live, Env, EnvOf, Emptied
    <3>4. \A x : Attended(x)' = Attended(x)
      BY <3>1, <3>3 DEF Attended
    <3>5. QED
      BY <2>1, <3>2, <3>3, <3>4 DEF WInv, ValuedOrHeeded
  <2>4. QED
    BY <2>2, <2>3
<1>3. QED
  BY <1>1, <1>2, PTL DEF Spec

(* Where nothing but a selection overrides the user, and no file the user  *)
(* loads has a string without its quotes: when the nested evaluations are  *)
(* over, every active widget holds the value its evaluation would give it  *)
(* now - y if it is selected, the user's value or the file's, or the       *)
(* default computed from the values now shown - or is an int or hex that   *)
(* the file left empty.                                                    *)
THEOREM ValuesSettle ==
    ASSUME NEW rank, Layered(rank), PlainOptions, ModulesUnheard, UserDecides,
           Files \subseteq [Symbol -> Setting]
    PROVE  Spec /\ Shown /\ Valued => []ValuesSettled
<1>1. WInv(rank) => ValuesSettled
  <2> SUFFICES ASSUME WInv(rank), Quiescent PROVE Valued
    BY DEF ValuesSettled
  <2>1. Waiting = {} /\ \A x : ~Heeded(x)
    BY NoneHeededAtRest
  <2>2. \A x : ~Awaits(x)
    BY <2>1 DEF Awaits, SetTasks
  <2>3. \A x \in Symbol \ Option : UpToDate(x) \/ Emptied(x)
    BY <2>1, <2>2 DEF WInv, ValuedOrHeeded, Attended
  <2>4. QED
    BY <2>3, UserCounts DEF Valued, UpToDate
<1>2. QED
  BY <1>1, ValuesInvariance, PTL
=============================================================================
