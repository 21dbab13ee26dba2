------------------------- MODULE Selection_proofs --------------------------
(***************************************************************************)
(* Proofs that every choice keeps one of its options selected, for every   *)
(* tree of widgets, and that a saved file leads back to the configuration  *)
(* it was saved from, for trees in layers.                                 *)
(*                                                                         *)
(* A choice whose options do not agree on one of them is being evaluated.  *)
(* Where, depends on who evaluates it.  A choice that is in                *)
(* propagateCallstack is the first entry there; nothing below evaluates it *)
(* again, and its selections wait, in order, at level 2 of work until they *)
(* are all made.  Any other choice hears at once of an option of its own   *)
(* that is told to change, since an option tells its parent first: it is   *)
(* evaluated anew before anything else runs, so only the top level of work *)
(* matters, and when an outer evaluation of the same choice goes on with   *)
(* the selections it had planned, it starts from a settled choice again.   *)
(*                                                                         *)
(* A file says nothing of what was hidden when it was written.  But at     *)
(* rest, what is shown of one layer and the values there follow from the   *)
(* layers below and from what the user set; so two configurations at rest  *)
(* with the values of one file are the same in all that is shown.  What    *)
(* remains is that loading ends with the values of the file.               *)
(***************************************************************************)
EXTENDS Configurator_proofs, FiniteSetTheorems

(* Of the first m options of c, n is at y and every other at n...          *)
Agrees(val, c, n, m) ==
    \A i \in 1..m : val[Children[c][i]] = IF Children[c][i] = n THEN 2 ELSE 0

(* ... and of all of them.                                                 *)
Settled(val, c) ==
    \E n \in Range(Children[c]) : Agrees(val, c, n, Len(Children[c]))

(* t selects the i-th option of c if it is n, and deselects it if not.     *)
Selects(t, c, n, i) ==
    /\ t.do = "select"
    /\ t.of = Children[c][i]
    /\ t.selected = (Children[c][i] = n)

(* q lists, after its first d calls, the selections of c's options but the *)
(* first m.                                                                *)
Remaining(q, d, c, n, m) ==
    /\ Len(q) >= d + Len(Children[c]) - m
    /\ \A i \in (m + 1)..Len(Children[c]) : Selects(q[d + i - m], c, n, i)

(* ... and nothing more.                                                   *)
NoMore(q, d, c, m) == Len(q) = d + Len(Children[c]) - m

(* The d calls that come first, none or one, propagate a change.           *)
Heralded(q, d) == d = 1 => q[1].do = "propagate"

(* All that is left to do at level 2 while c, entered by constructTree(),  *)
(* loadConfig() or its change handler, decides on an option.               *)
Deciding(val, q, c) ==
    \/ q = <<Evaluate(c)>>
    \/ \E n \in Range(Children[c]), m \in 0..Len(Children[c]), d \in {0, 1} :
          /\ Agrees(val, c, n, m)
          /\ Remaining(q, d, c, n, m)
          /\ NoMore(q, d, c, m)
          /\ Heralded(q, d)

(* The calls q that run next will settle c: it is evaluated, it is told of *)
(* a change, or the options but the first m are still to be selected.      *)
Settling(val, q, c) ==
    /\ q # <<>>
    /\ \/ q[1].do = "evaluate" /\ q[1].of = c
       \/ q[1].do = "propagate" /\ q[1].to # <<>> /\ Head(q[1].to) = c
       \/ \E n \in Range(Children[c]), m \in 0..Len(Children[c]) :
             /\ m < Len(Children[c])
             /\ Agrees(val, c, n, m)
             /\ Remaining(q, 0, c, n, m)

(* constructTree() or loadConfig() has yet to evaluate c, and nothing that *)
(* may throw an exception comes first.                                     *)
Due(q, c) ==
    /\ \E i \in 1..Len(q) : q[i].do = "guarded" /\ q[i].of = c
    /\ NoSets(q)

Entered(c) == Depth > 1 /\ propagateCallstack[1] = c

Decided(c) ==
    IF Entered(c) THEN Deciding(value, work[2], c)
    ELSE \/ Settled(value, c)
         \/ Settling(value, work[Depth], c)
         \/ Due(work[1], c)

ChosenOK ==
    \A c \in Choice : chosen[c] # None => chosen[c] \in Range(Children[c])

(* The inductive invariant.                                                *)
SInv == IInv /\ ChosenOK /\ \A c \in Choice : Decided(c)
-----------------------------------------------------------------------------
(* What the predicates above say of the call that runs next.               *)

(* Nothing is said of c in values of other widgets.                        *)
LEMMA SameValues ==
    ASSUME NEW c \in Choice, NEW u, NEW v,
           \A o \in Range(Children[c]) : u[o] = v[o]
    PROVE  /\ Settled(v, c) => Settled(u, c)
           /\ \A q : Deciding(v, q, c) => Deciding(u, q, c)
<1>1. \A i \in 1..Len(Children[c]) : u[Children[c][i]] = v[Children[c][i]]
  BY OptionsOfChoice
<1>2. \A n, m : m \in 0..Len(Children[c]) /\ Agrees(v, c, n, m) => Agrees(u, c, n, m)
  BY <1>1, OptionsOfChoice DEF Agrees
<1>3. Len(Children[c]) \in 0..Len(Children[c])
  BY OptionsOfChoice
<1>4. Settled(v, c) => Settled(u, c)
  BY <1>2, <1>3 DEF Settled
<1>5. \A q : Deciding(v, q, c) => Deciding(u, q, c)
  BY <1>2, Zenon DEF Deciding
<1>6. QED
  BY <1>4, <1>5

(* The calls that have to do with the options of c.                        *)
About(t, c) ==
    \/ t.do = "evaluate" /\ t.of = c
    \/ t.do = "select" /\ t.of \in Range(Children[c])
    \/ t.do = "propagate"

LEMMA DecidingNext ==
    ASSUME NEW c \in Choice, NEW val, NEW q \in Seq(Task), q # <<>>,
           Deciding(val, q, c)
    PROVE  About(q[1], c)
<1>1. CASE q = <<Evaluate(c)>>
  BY <1>1 DEF Evaluate, About
<1>2. ASSUME NEW n \in Range(Children[c]), NEW m \in 0..Len(Children[c]),
             NEW d \in {0, 1},
             Remaining(q, d, c, n, m),
             NoMore(q, d, c, m),
             Heralded(q, d)
      PROVE  About(q[1], c)
  <2>1. CASE d = 1
    BY <1>2, <2>1 DEF About, Heralded
  <2>2. CASE d = 0
    <3>1. Len(q) \in Nat /\ Len(q) # 0
      BY LenProperties, EmptySeq
    <3>2. m + 1 \in (m + 1)..Len(Children[c]) /\ d + (m + 1) - m = 1
      BY <1>2, <2>2, <3>1, OptionsOfChoice DEF NoMore
    <3>3. Selects(q[1], c, n, m + 1)
      BY <1>2, <3>2 DEF Remaining
    <3>4. Children[c][m + 1] \in Range(Children[c])
      <4>1. m + 1 \in 1..Len(Children[c])
        BY <3>2, OptionsOfChoice
      <4>2. QED
        BY <4>1, OptionAt
    <3>5. QED
      BY <3>3, <3>4 DEF Selects, About
  <2>3. QED
    BY <2>1, <2>2
<1>3. QED
  BY <1>1, <1>2, Zenon DEF Deciding

LEMMA DecidingDone ==
    ASSUME NEW c \in Choice, NEW val, Deciding(val, <<>>, c)
    PROVE  Settled(val, c)
<1>1. << >> # <<Evaluate(c)>>
  OBVIOUS
<1>2. PICK n \in Range(Children[c]), m \in 0..Len(Children[c]), d \in {0, 1} :
         /\ Agrees(val, c, n, m)
         /\ NoMore(<<>>, d, c, m)
  BY <1>1 DEF Deciding
<1>3. m = Len(Children[c])
  BY <1>2, OptionsOfChoice DEF NoMore
<1>4. QED
  BY <1>2, <1>3 DEF Settled

(* A choice in the call stack is evaluated before anything else.           *)
LEMMA EvaluatesAlone ==
    ASSUME NEW c \in Choice, NEW val, NEW q \in Seq(Task), q # <<>>,
           Deciding(val, q, c), q[1].do = "evaluate"
    PROVE  Len(q) = 1
<1>1. ASSUME NEW n \in Range(Children[c]), NEW m \in 0..Len(Children[c]),
             NEW d \in {0, 1},
             Remaining(q, d, c, n, m),
             NoMore(q, d, c, m),
             Heralded(q, d)
      PROVE  FALSE
  <2>1. d = 0
    BY <1>1 DEF Heralded
  <2>2. Len(q) \in Nat /\ Len(q) # 0
    BY LenProperties, EmptySeq
  <2>3. m + 1 \in (m + 1)..Len(Children[c]) /\ d + (m + 1) - m = 1
    BY <1>1, <2>1, <2>2, OptionsOfChoice DEF NoMore
  <2>4. Selects(q[1], c, n, m + 1)
    BY <1>1, <2>3 DEF Remaining
  <2>5. QED
    BY <2>4 DEF Selects
<1>2. q = <<Evaluate(c)>>
  BY <1>1, Zenon DEF Deciding
<1>3. QED
  BY <1>2

LEMMA SettlingNext ==
    ASSUME NEW c \in Choice, NEW val, NEW q, Settling(val, q, c)
    PROVE  /\ About(q[1], c)
           /\ q[1].do = "propagate" => q[1].to # <<>> /\ Head(q[1].to) = c
<1>1. CASE q[1].do = "evaluate" /\ q[1].of = c
  BY <1>1 DEF About
<1>2. CASE q[1].do = "propagate" /\ q[1].to # <<>> /\ Head(q[1].to) = c
  BY <1>2 DEF About
<1>3. ASSUME NEW n \in Range(Children[c]), NEW m \in 0..Len(Children[c]),
             m < Len(Children[c]), Remaining(q, 0, c, n, m)
      PROVE  q[1].do = "select" /\ q[1].of \in Range(Children[c])
  <2>1. m + 1 \in (m + 1)..Len(Children[c]) /\ 0 + (m + 1) - m = 1
    BY <1>3, OptionsOfChoice
  <2>2. Selects(q[1], c, n, m + 1)
    BY <1>3, <2>1 DEF Remaining
  <2>3. Children[c][m + 1] \in Range(Children[c])
    <3>1. m + 1 \in 1..Len(Children[c])
      BY <2>1, OptionsOfChoice
    <3>2. QED
      BY <3>1, OptionAt
  <2>4. QED
    BY <2>2, <2>3 DEF Selects
<1>4. QED
  BY <1>1, <1>2, <1>3 DEF Settling, About

(* A guarded evaluation that waits stays where it is.                      *)
LEMMA StillDue ==
    ASSUME NEW c, NEW ts \in Seq(Task), NEW q \in Seq(Task), q # <<>>,
           NEW r, r = ts \o Tail(q),
           Calm(ts), Due(q, c), q[1].do # "guarded" \/ q[1].of # c
    PROVE  Due(r, c)
<1>1. /\ Len(r) = Len(ts) + Len(q) - 1
      /\ \A i \in 1..Len(ts) : r[i] = ts[i]
      /\ \A i \in 2..Len(q) : r[Len(ts) + i - 1] = q[i]
  BY Behind
<1>2. Len(ts) \in Nat /\ Len(q) \in Nat
  BY LenProperties
<1>3. PICK i \in 1..Len(q) : q[i].do = "guarded" /\ q[i].of = c
  BY DEF Due
<1>4. i \in 2..Len(q) /\ Len(ts) + i - 1 \in 1..Len(r)
  BY <1>1, <1>2, <1>3
<1>5. \E j \in 1..Len(r) : r[j].do = "guarded" /\ r[j].of = c
  BY <1>1, <1>3, <1>4
<1>6. ASSUME NEW j \in 1..Len(r)
      PROVE  r[j].do # "set"
  <2>1. CASE j \in 1..Len(ts)
    BY <1>1, <2>1 DEF Calm
  <2>2. CASE j > Len(ts)
    <3>1. PICK k \in 2..Len(q) : j = Len(ts) + k - 1
      <4>1. j - Len(ts) + 1 \in 2..Len(q) /\ j = Len(ts) + (j - Len(ts) + 1) - 1
        BY <1>1, <1>2, <2>2
      <4>2. QED
        BY <4>1
    <3>2. QED
      BY <1>1, <3>1 DEF Due, NoSets
  <2>3. QED
    BY <1>2, <2>1, <2>2
<1>7. QED
  BY <1>5, <1>6 DEF Due, NoSets
-----------------------------------------------------------------------------
(* A choice that the call stack does not start with is not in it at all.   *)
LEMMA NotEntered ==
    ASSUME CallsOK, NEW c \in Choice, ~Entered(c)
    PROVE  c \notin Range(propagateCallstack)
<1>1. /\ propagateCallstack \in Seq(Widget)
      /\ Depth \in Nat /\ Len(propagateCallstack) = Depth - 1
  BY Levels
<1>2. \A j \in 1..Len(propagateCallstack) : propagateCallstack[j] # c
  <2>1. SUFFICES ASSUME NEW j \in 1..Len(propagateCallstack),
                        propagateCallstack[j] = c
                 PROVE  FALSE
    OBVIOUS
  <2>2. j = 1
    BY <2>1 DEF CallsOK, ChoicesFirst
  <2>3. Depth > 1
    BY <1>1, <2>2
  <2>4. QED
    BY <2>1, <2>2, <2>3 DEF Entered
<1>3. QED
  BY <1>1, <1>2, RangeEquality

(* c waits for its evaluation until it is its turn.                        *)
LEMMA DueStays ==
    ASSUME CallsOK, work[Depth] # <<>>, NEW c, Due(work[1], c),
           Call.do # "guarded" \/ Call.of # c,
           NEW ts \in Seq(Task), Calm(ts),
           work'[Depth] = ts \o Tail(work[Depth]),
           \A k \in 1..Depth : k # Depth => work'[k] = work[k]
    PROVE  Due(work'[1], c)
<1>1. /\ Depth \in Nat /\ Depth >= 1
      /\ \A k \in 1..Depth : work[k] \in Seq(Task)
  BY Levels
<1>2. CASE Depth = 1
  <2>1. PICK q, r :
           q \in Seq(Task) /\ q = work[1] /\ r = work'[1] /\ q # <<>> /\ q[1] = Call
    BY <1>1, <1>2 DEF Call
  <2>2. r = ts \o Tail(q)
    BY <1>2, <2>1
  <2>3. Due(r, c)
    BY <2>1, <2>2, StillDue
  <2>4. QED
    BY <2>1, <2>3
<1>3. CASE Depth # 1
  BY <1>1, <1>3
<1>4. QED
  BY <1>2, <1>3

(* A step that has nothing to do with c leaves it as it is.                *)
LEMMA Elsewhere ==
    ASSUME CallsOK, work[Depth] # <<>>, NEW c \in Choice, Decided(c),
           \A o \in Range(Children[c]) : value'[o] = value[o],
           ~About(Call, c), Call.do # "guarded" \/ Call.of # c,
           NEW ts \in Seq(Task), Calm(ts), Then(ts)
    PROVE  Decided(c)'
<1>1. /\ Depth \in Nat /\ Depth >= 1
      /\ \A k \in 1..Depth : work[k] \in Seq(Task)
  BY Levels
<1>2. /\ Depth' = Depth
      /\ propagateCallstack' = propagateCallstack
      /\ work'[Depth] = ts \o Tail(work[Depth])
      /\ \A k \in 1..Depth : k # Depth => work'[k] = work[k]
  BY ThenLevels
<1>3. Call = work[Depth][1]
  BY <1>1 DEF Call
<1>4. /\ Settled(value, c) => Settled(value', c)
      /\ \A q : Deciding(value, q, c) => Deciding(value', q, c)
  BY SameValues
<1>5. Entered(c)' <=> Entered(c)
  BY <1>2 DEF Entered
<1>6. CASE Entered(c)
  <2>1. Depth > 1 /\ Deciding(value, work[2], c)
    BY <1>6 DEF Entered, Decided
  <2>2. Depth # 2
    BY <1>1, <1>3, <2>1, DecidingNext
  <2>3. work'[2] = work[2]
    BY <1>1, <1>2, <2>1, <2>2
  <2>4. Deciding(value', work'[2], c)
    BY <1>4, <2>1, <2>3
  <2>5. QED
    BY <1>5, <1>6, <2>4 DEF Decided
<1>7. CASE ~Entered(c)
  <2>1. ~Settling(value, work[Depth], c)
    BY <1>3, SettlingNext
  <2>2. CASE Settled(value, c)
    BY <1>4, <1>5, <1>7, <2>2 DEF Decided
  <2>3. CASE Due(work[1], c)
    BY <1>2, <1>5, <1>7, <2>3, DueStays DEF Decided
  <2>4. QED
    BY <1>7, <2>1, <2>2, <2>3 DEF Decided
<1>8. QED
  BY <1>6, <1>7
-----------------------------------------------------------------------------
(* Each call keeps every choice decided.                                   *)

(* A new value of another widget is none of an option's.                   *)
LEMMA OptionsUntouched ==
    ASSUME value \in [Symbol -> Setting], NEW w, w \notin Option,
           value' = value \/ \E x : value' = [value EXCEPT ![w] = x],
           NEW c \in Choice
    PROVE  \A o \in Range(Children[c]) : value'[o] = value[o]
<1>1. \A o \in Range(Children[c]) : o \in Symbol /\ o # w
  BY OwnChoice, Kinds
<1>2. QED
  BY <1>1

LEMMA EvaluateWidgetDecides ==
    ASSUME IInv, EvaluateWidget, NEW c \in Choice, Decided(c)
    PROVE  Decided(c)'
<1> DEFINE w == Call.of
<1>1. /\ work[Depth] # <<>>
      /\ Call.do = "evaluate"
      /\ w \in Widget /\ w \notin Option \cup Choice
  BY Runs, TaskFields DEF IInv, EvaluateWidget
<1>2. ~About(Call, c)
  BY <1>1 DEF About
<1>3. \A o \in Range(Children[c]) : value'[o] = value[o]
  <2>1. value' = value \/ \E x : value' = [value EXCEPT ![w] = x]
    BY DEF EvaluateWidget
  <2>2. QED
    BY <1>1, <2>1, OptionsUntouched DEF IInv, DataOK
<1>4. /\ Notify(w) \in Seq(Task) /\ Changed(w) \in Seq(Task)
      /\ Changed(w) \o Notify(w) \in Seq(Task)
  <2>1. PICK k, cs : k = 1 /\ cs = propagateCallstack
    OBVIOUS
  <2>2. \A j \in 1..(k - 1) : w # cs[j]
    BY <2>1
  <2>3. Notify(w) \in Seq(Task) /\ Changed(w) \in Seq(Task)
    BY <1>1, <2>2, NotifyCalls, ChangedCalls
  <2>4. QED
    BY <2>3, ConcatProperties
<1>5. Calm(Notify(w)) /\ Calm(Changed(w) \o Notify(w))
  BY <1>1, CalmCalls, CalmChanged
<1>6. Then(Notify(w)) \/ Then(Changed(w) \o Notify(w))
  BY DEF EvaluateWidget
<1>7. QED
  <2> HIDE DEF w
  <2>1. CASE Then(Notify(w))
    BY <1>1, <1>2, <1>3, <1>4, <1>5, <2>1, Elsewhere DEF IInv
  <2>2. CASE Then(Changed(w) \o Notify(w))
    BY <1>1, <1>2, <1>3, <1>4, <1>5, <2>2, Elsewhere DEF IInv
  <2>3. QED
    BY <1>6, <2>1, <2>2

(* An option tells its choice first.                                       *)
LEMMA OptionNotifies ==
    ASSUME NEW o \in Option
    PROVE  /\ Notify(o) \in Seq(Task) /\ Calm(Notify(o))
           /\ Len(Notify(o)) = 1
           /\ Notify(o)[1].do = "propagate"
           /\ Notify(o)[1].to # <<>>
           /\ Head(Notify(o)[1].to) = Parent(o)
<1>1. o \in Widget /\ Referrers[o] \in Seq(Widget)
  BY Kinds, ReferrersTyped
<1> DEFINE t == Propagate(o, Referrers[o])
<1>2. t \in Task
  BY <1>1 DEF Task, Propagate
<1>3. /\ t.do = "propagate"
      /\ t.to # <<>> /\ Head(t.to) = Parent(o)
  BY ReferrersTyped DEF Propagate
<1>4. Notify(o) = <<t>> /\ Calm(Notify(o))
  BY CalmCalls DEF Notify
<1> HIDE DEF t
<1>5. QED
  BY <1>2, <1>3, <1>4

LEMMA EvaluateOptionDecides ==
    ASSUME IInv, EvaluateOption, NEW c \in Choice, Decided(c)
    PROVE  Decided(c)'
<1>1. /\ work[Depth] # <<>>
      /\ Call.do = "evaluate" /\ Call.of \in Option
  BY Runs DEF IInv, EvaluateOption
<1>2. ~About(Call, c)
  BY <1>1, Kinds DEF About
<1>3. Notify(Call.of) \in Seq(Task) /\ Calm(Notify(Call.of))
  BY <1>1, OptionNotifies
<1>4. value' = value /\ Then(Notify(Call.of))
  BY DEF EvaluateOption
<1>5. QED
  BY <1>1, <1>2, <1>3, <1>4, Elsewhere DEF IInv

LEMMA ModulesChangeDecides ==
    ASSUME IInv, ModulesChange, NEW c \in Choice, Decided(c)
    PROVE  Decided(c)'
<1>1. work[Depth] # <<>> /\ Call.do = "modules"
  BY Runs DEF IInv, ModulesChange
<1>2. ~About(Call, c)
  BY <1>1 DEF About
<1>3. \A o \in Range(Children[c]) : value'[o] = value[o]
  BY OwnChoice, Kinds, WidgetsDisjoint DEF ModulesChange
<1>4. << >> \in Seq(Task) /\ Calm(<< >>) /\ Then(<< >>)
  BY CalmCalls DEF ModulesChange
<1>5. QED
  BY <1>1, <1>2, <1>3, <1>4, Elsewhere DEF IInv

LEMMA LoadOptionDecides ==
    ASSUME IInv, LoadOption, NEW c \in Choice, Decided(c)
    PROVE  Decided(c)'
<1> DEFINE s == Call.of
<1>1. /\ work[Depth] # <<>>
      /\ Call.do = "set" /\ s \in Symbol
  BY Runs, TaskFields DEF IInv, LoadOption
<1>2. ~About(Call, c)
  BY <1>1 DEF About
<1>3. \A o \in Range(Children[c]) : value'[o] = value[o]
  <2>1. CASE s \in Option
    BY <2>1 DEF LoadOption
  <2>2. CASE s \notin Option
    <3>1. value' = [value EXCEPT ![s] = Assigned(s, Read(s, Call.to))]
      BY <2>2 DEF LoadOption
    <3>2. QED
      BY <2>2, <3>1, OptionsUntouched DEF IInv, DataOK
  <2>3. QED
    BY <2>1, <2>2
<1>4. s \in Widget /\ s \notin Choice
  BY <1>1, Kinds
<1>5. Changed(s) \in Seq(Task) /\ Calm(Changed(s))
  <2>1. PICK k, cs : k = 1 /\ cs = propagateCallstack
    OBVIOUS
  <2>2. \A j \in 1..(k - 1) : s # cs[j]
    BY <2>1
  <2>3. QED
    BY <1>4, <2>2, ChangedCalls, CalmChanged
<1>6. << >> \in Seq(Task) /\ Calm(<< >>)
  BY CalmCalls
<1>7. Then(<< >>) \/ Then(Changed(s))
  BY DEF LoadOption
<1>8. QED
  <2> HIDE DEF s
  <2>1. CASE Then(<< >>)
    BY <1>1, <1>2, <1>3, <1>6, <2>1, Elsewhere DEF IInv
  <2>2. CASE Then(Changed(s))
    BY <1>1, <1>2, <1>3, <1>5, <2>2, Elsewhere DEF IInv
  <2>3. QED
    BY <1>7, <2>1, <2>2

(* A choice's default is one of its options.                               *)
LEMMA DefaultIsOption ==
    ASSUME NEW c \in Choice, NEW act
    PROVE  ChoiceDefault(c, act) \in Range(Children[c])
<1> DEFINE d == Node[c].defaults
           hits == {i \in DOMAIN d :
                       evaluateCond(d[i].cond, EnvOf(act)) /\ act[d[i].name]}
           live == {i \in DOMAIN Children[c] : act[Children[c][i]]}
<1>1. ChoiceDefault(c, act) = IF hits # {} THEN d[Min(hits)].name
                              ELSE IF live # {} THEN Children[c][Min(live)]
                              ELSE Children[c][1]
  BY DEF ChoiceDefault
<1>2. CASE hits # {}
  <2>1. hits \in SUBSET Nat
    BY DefaultsTyped
  <2>2. Min(hits) \in DOMAIN d
    BY <1>2, <2>1, MinElement
  <2> HIDE DEF hits, live
  <2>3. QED
    BY <1>1, <1>2, <2>2, DefaultsTyped
<1>3. CASE hits = {}
  <2>1. /\ live \in SUBSET (1..Len(Children[c]))
        /\ 1 \in 1..Len(Children[c])
    BY OptionsOfChoice
  <2>2. live # {} => Min(live) \in live
    <3>1. live \in SUBSET Nat
      BY <2>1
    <3> HIDE DEF live
    <3>2. QED
      BY <3>1, MinElement
  <2> HIDE DEF hits, live
  <2>3. QED
    BY <1>1, <1>3, <2>1, <2>2, OptionAt
<1>4. QED
  BY <1>2, <1>3

LEMMA SelectSelects ==
    ASSUME NEW c, NEW n, NEW i, NEW chg, NEW t,
           t = Select(Children[c][i], Children[c][i] = n, chg)
    PROVE  Selects(t, c, n, i)
BY DEF Selects, Select

(* The call at the head of q has been replaced by those in ts.             *)
Continues(r, ts, q) == r = ts \o Tail(q)

(* An evaluated choice goes on to select its options, all of them.         *)
LEMMA Planned ==
    ASSUME NEW c \in Choice, NEW name, NEW changed \in BOOLEAN,
           NEW q \in Seq(Task), q # <<>>,
           NEW ts, ts = SelectOptions(c, name, changed),
           NEW r, Continues(r, ts, q),
           NEW val
    PROVE  /\ Len(q) = 1 => NoMore(r, 0, c, 0)
           /\ r # <<>>
           /\ 0 \in 0..Len(Children[c]) /\ 0 < Len(Children[c])
           /\ Remaining(r, 0, c, name, 0)
           /\ Agrees(val, c, name, 0)
<1>1. ts \in Seq(Task)
  <2>1. PICK m, cs : m = 1 /\ cs = propagateCallstack
    OBVIOUS
  <2>2. \A j \in 1..(m - 1) : c = cs[j] => j = m - 1
    BY <2>1
  <2>3. QED
    BY <2>2, SelectCalls
<1>2. /\ Len(ts) = Len(Children[c])
      /\ \A i \in 1..Len(Children[c]) :
            ts[i] = Select(Children[c][i], Children[c][i] = name, changed)
  BY OptionsOfChoice DEF SelectOptions
<1>4. /\ r \in Seq(Task)
      /\ Len(r) = Len(ts) + Len(q) - 1
      /\ \A i \in 1..Len(ts) : r[i] = ts[i]
  <2>1. r = ts \o Tail(q)
    BY DEF Continues
  <2>2. QED
    BY <1>1, <2>1, Behind
<1>5. Len(q) \in Nat /\ Len(q) # 0
  BY LenProperties, EmptySeq
<1>6. Len(Children[c]) \in Nat /\ Len(Children[c]) > 0
  BY OptionsOfChoice
<1>7. Remaining(r, 0, c, name, 0)
  <2>1. ASSUME NEW i \in 1..Len(Children[c])
        PROVE  Selects(r[i], c, name, i)
    <3>1. i \in 1..Len(ts)
      BY <1>2
    <3>2. r[i] = ts[i]
      BY <1>4, <3>1
    <3>3. ts[i] = Select(Children[c][i], Children[c][i] = name, changed)
      BY <1>2
    <3>4. PICK t : t = ts[i]
      OBVIOUS
    <3>5. Selects(t, c, name, i)
      BY <3>3, <3>4, SelectSelects, Zenon
    <3>6. QED
      BY <3>2, <3>4, <3>5
  <2>2. \A i \in (0 + 1)..Len(Children[c]) : i \in 1..Len(Children[c]) /\ 0 + i - 0 = i
    BY <1>6
  <2>3. Len(r) >= 0 + Len(Children[c]) - 0
    BY <1>2, <1>4, <1>5, <1>6
  <2>4. QED
    BY <2>1, <2>2, <2>3 DEF Remaining
<1>8. Agrees(val, c, name, 0)
  BY DEF Agrees
<1>9. r # <<>>
  BY <1>2, <1>4, <1>5, <1>6
<1>10. Len(q) = 1 => NoMore(r, 0, c, 0)
  BY <1>2, <1>4, <1>6 DEF NoMore
<1>11. QED
  BY <1>6, <1>7, <1>8, <1>9, <1>10

LEMMA EvaluateChoiceDecides ==
    ASSUME IInv, ChosenOK, EvaluateChoice, NEW c \in Choice, Decided(c)
    PROVE  Decided(c)'
<1> DEFINE d == Call.of
           act == [w \in Widget |->
                      IF w = d THEN Cond(d)
                      ELSE IF w \in Range(Children[d]) /\ Cond(d)
                      THEN OptionCond(w) ELSE active[w]]
           name == IF chosen[d] # None THEN chosen[d] ELSE ChoiceDefault(d, act)
           changed == active[d] # Cond(d)
<1>1. /\ work[Depth] # <<>>
      /\ Call.do = "evaluate" /\ d \in Choice
      /\ WellCalled(Call, Depth, propagateCallstack)
  BY Runs DEF IInv, EvaluateChoice
<1>2. value' = value
  BY DEF EvaluateChoice
<1>3. PICK n \in Range(Children[d]), chg \in BOOLEAN :
         Then(SelectOptions(d, n, chg))
  <2>1. Then(SelectOptions(d, name, changed))
    BY DEF EvaluateChoice
  <2>2. name \in Range(Children[d]) /\ changed \in BOOLEAN
    BY <1>1, DefaultIsOption DEF ChosenOK
  <2> HIDE DEF act, name, changed
  <2>3. QED
    BY <2>1, <2>2
<1>4. /\ Depth \in Nat /\ Depth >= 1
      /\ work[Depth] \in Seq(Task)
      /\ Call = work[Depth][1]
  BY <1>1, Levels DEF IInv, Call
<1>5. SelectOptions(d, n, chg) \in Seq(Task)
  <2>1. PICK m, cs : m = 1 /\ cs = propagateCallstack
    OBVIOUS
  <2>2. \A j \in 1..(m - 1) : d = cs[j] => j = m - 1
    BY <2>1
  <2>3. QED
    BY <1>1, <1>3, <2>2, SelectCalls
<1>6. CASE d # c
  <2>1. ~About(Call, c)
    BY <1>1, <1>6 DEF About
  <2>2. Calm(SelectOptions(d, n, chg))
    BY <1>1, CalmCalls
  <2> HIDE DEF d
  <2>3. QED
    BY <1>1, <1>2, <1>3, <1>5, <2>1, <2>2, Elsewhere DEF IInv
<1>7. CASE d = c
  <2>1. /\ Depth' = Depth
        /\ propagateCallstack' = propagateCallstack
        /\ work'[Depth] = SelectOptions(c, n, chg) \o Tail(work[Depth])
    BY <1>1, <1>3, <1>5, <1>7, ThenLevels DEF IInv
  <2>2. PICK q, r : q \in Seq(Task) /\ q = work[Depth] /\ r = work'[Depth]
    BY <1>4
  <2>3. /\ Len(q) = 1 => NoMore(r, 0, c, 0)
        /\ r # <<>>
        /\ 0 \in 0..Len(Children[c]) /\ 0 < Len(Children[c])
        /\ Remaining(r, 0, c, n, 0)
        /\ Agrees(value', c, n, 0)
    <3>1. PICK ts : ts = SelectOptions(c, n, chg)
      OBVIOUS
    <3>2. PICK val : val = value'
      OBVIOUS
    <3>3. Continues(r, ts, q) /\ q # <<>>
      BY <1>1, <2>1, <2>2, <3>1 DEF Continues
    <3>4. QED
      BY <2>2, <3>1, <3>2, <3>3, Planned
  <2>4. Entered(c)' <=> Entered(c)
    BY <2>1 DEF Entered
  <2>5. CASE Entered(c)
    <3>1. Depth > 1 /\ propagateCallstack[1] = c /\ Deciding(value, work[2], c)
      BY <2>5 DEF Entered, Decided
    <3>2. Depth = 2
      BY <1>1, <1>4, <1>7, <3>1 DEF WellCalled
    <3>3. q[1].do = "evaluate" /\ q # <<>>
      BY <1>1, <1>4, <2>2
    <3>4. Len(q) = 1
      BY <1>1, <2>2, <3>1, <3>2, <3>3, EvaluatesAlone
    <3>5. Deciding(value', r, c)
      <4>1. Heralded(r, 0)
        BY DEF Heralded
      <4>2. n \in Range(Children[c]) /\ 0 \in {0, 1} /\ NoMore(r, 0, c, 0)
        BY <1>7, <2>3, <3>4
      <4>3. QED
        BY <2>3, <4>1, <4>2, Zenon DEF Deciding
    <3>6. QED
      BY <2>1, <2>2, <2>4, <2>5, <3>2, <3>5 DEF Decided
  <2>6. CASE ~Entered(c)
    <3>1. Settling(value', r, c)
      BY <1>3, <1>7, <2>3 DEF Settling
    <3>2. QED
      BY <2>1, <2>2, <2>4, <2>6, <3>1 DEF Decided
  <2>7. QED
    BY <2>5, <2>6
<1>8. QED
  BY <1>6, <1>7

(* v is u after t, which selects or deselects an option of c.              *)
Takes(v, u, t, c) ==
    /\ v[t.of] = IF t.selected THEN 2 ELSE 0
    /\ \A i \in 1..Len(Children[c]) :
          Children[c][i] # t.of => v[Children[c][i]] = u[Children[c][i]]

(* ts makes d calls, of which one is a notification.                       *)
Notices(ts, d) ==
    /\ d \in {0, 1}
    /\ Len(ts) = d
    /\ Heralded(ts, d)

(* Selecting or deselecting the next option carries the decision on.       *)
LEMMA AfterSelection ==
    ASSUME NEW c \in Choice, NEW u, NEW v, NEW n, NEW m \in 0..Len(Children[c]),
           m < Len(Children[c]),
           Agrees(u, c, n, m),
           NEW q \in Seq(Task), q # <<>>, Remaining(q, 0, c, n, m),
           Takes(v, u, q[1], c),
           NEW ts \in Seq(Task), NEW d, Notices(ts, d),
           NEW r, Continues(r, ts, q)
    PROVE  /\ m + 1 \in 0..Len(Children[c])
           /\ Agrees(v, c, n, m + 1)
           /\ Remaining(r, d, c, n, m + 1)
           /\ NoMore(q, 0, c, m) => NoMore(r, d, c, m + 1)
           /\ Heralded(r, d)
<1>1. PICK k \in Nat : k = Len(Children[c])
  BY OptionsOfChoice
<1>2. /\ m \in Nat /\ m < k /\ m + 1 \in 0..k
      /\ d \in {0, 1} /\ Len(ts) = d
      /\ d = 1 => ts[1].do = "propagate"
  BY <1>1 DEF Notices, Heralded
<1>3. PICK t : t = q[1]
  OBVIOUS
<1>4. Selects(t, c, n, m + 1)
  <2>1. m + 1 \in (m + 1)..Len(Children[c]) /\ 0 + (m + 1) - m = 1
    BY <1>1, <1>2
  <2>2. QED
    BY <1>3, <2>1 DEF Remaining
<1>5. Agrees(v, c, n, m + 1)
  <2>1. SUFFICES ASSUME NEW i \in 1..(m + 1)
                 PROVE  v[Children[c][i]] = IF Children[c][i] = n THEN 2 ELSE 0
    BY DEF Agrees
  <2>2. i \in 1..Len(Children[c])
    BY <1>1, <1>2
  <2>3. t.of = Children[c][m + 1] /\ (t.selected <=> t.of = n)
    BY <1>4 DEF Selects
  <2>4. CASE Children[c][i] = t.of
    BY <1>3, <2>3, <2>4 DEF Takes
  <2>5. CASE Children[c][i] # t.of
    <3>1. v[Children[c][i]] = u[Children[c][i]]
      BY <1>3, <2>2, <2>5 DEF Takes
    <3>2. i \in 1..m
      BY <1>2, <2>3, <2>5
    <3>3. QED
      BY <3>1, <3>2 DEF Agrees
  <2>6. QED
    BY <2>4, <2>5
<1>6. /\ Len(r) = Len(ts) + Len(q) - 1
      /\ \A i \in 1..Len(ts) : r[i] = ts[i]
      /\ \A i \in 2..Len(q) : r[Len(ts) + i - 1] = q[i]
  <2>1. r = ts \o Tail(q)
    BY DEF Continues
  <2>2. QED
    BY <2>1, Behind
<1>7. Len(q) \in Nat /\ Len(q) >= k - m
      /\ \A i \in (m + 1)..k : Selects(q[i - m], c, n, i)
  <2>1. \A i \in (m + 1)..k : 0 + i - m = i - m
    BY <1>2
  <2>2. QED
    BY <1>1, <1>2, <2>1, LenProperties DEF Remaining
<1>8. Remaining(r, d, c, n, m + 1)
  <2>1. ASSUME NEW i \in ((m + 1) + 1)..k
        PROVE  Selects(r[d + i - (m + 1)], c, n, i)
    <3>1. i - m \in 2..Len(q) /\ i \in (m + 1)..k
      BY <1>1, <1>2, <1>7
    <3>2. d + (i - m) - 1 = d + i - (m + 1)
      BY <1>1, <1>2
    <3>3. r[d + i - (m + 1)] = q[i - m]
      BY <1>2, <1>6, <3>1, <3>2
    <3>4. QED
      BY <1>7, <3>1, <3>3
  <2>2. Len(r) >= d + k - (m + 1)
    BY <1>1, <1>2, <1>6, <1>7
  <2>3. QED
    BY <1>1, <2>1, <2>2 DEF Remaining
<1>9. NoMore(q, 0, c, m) => NoMore(r, d, c, m + 1)
  BY <1>1, <1>2, <1>6, <1>7 DEF NoMore
<1>10. Heralded(r, d)
  BY <1>2, <1>6 DEF Heralded
<1>11. QED
  BY <1>1, <1>2, <1>5, <1>8, <1>9, <1>10


(* If the running call selects an option of c, it is the next to be        *)
(* selected.                                                               *)
LEMMA DecidingSelects ==
    ASSUME NEW c \in Choice, NEW val, NEW q \in Seq(Task), q # <<>>,
           Deciding(val, q, c), q[1].do = "select"
    PROVE  \E n \in Range(Children[c]), m \in 0..Len(Children[c]) :
              /\ m < Len(Children[c])
              /\ Agrees(val, c, n, m)
              /\ Remaining(q, 0, c, n, m)
              /\ NoMore(q, 0, c, m)
<1>1. q # <<Evaluate(c)>>
  BY DEF Evaluate
<1>2. PICK n \in Range(Children[c]), m \in 0..Len(Children[c]), d \in {0, 1} :
         /\ Agrees(val, c, n, m)
         /\ Remaining(q, d, c, n, m)
         /\ NoMore(q, d, c, m)
         /\ Heralded(q, d)
  BY <1>1, Zenon DEF Deciding
<1>3. d = 0 /\ Remaining(q, 0, c, n, m)
  BY <1>2 DEF Heralded
<1>4. Len(q) \in Nat /\ Len(q) # 0
  BY LenProperties, EmptySeq
<1>5. NoMore(q, 0, c, m) /\ m < Len(Children[c])
  BY <1>2, <1>3, <1>4, OptionsOfChoice DEF NoMore
<1>6. QED
  BY <1>2, <1>3, <1>5

LEMMA SelectOptionDecides ==
    ASSUME IInv, SelectOption, NEW c \in Choice, Decided(c)
    PROVE  Decided(c)'
<1>1. PICK o \in Option : o = Call.of
  BY Runs, TaskFields DEF IInv, SelectOption
<1>2. /\ work[Depth] # <<>>
      /\ Call.do = "select"
      /\ WellCalled(Call, Depth, propagateCallstack)
  BY Runs DEF IInv, SelectOption
<1>3. PICK x \in {0, 2} : x = IF Call.selected THEN 2 ELSE 0
  OBVIOUS
<1>4. PICK ts : ts = IF Call.changed \/ value[o] # x THEN Notify(o) ELSE <<>>
  OBVIOUS
<1>5. value' = [value EXCEPT ![o] = x] /\ Then(ts)
  <2>1. CASE Call.changed \/ value[o] # x
    BY <1>1, <1>3, <1>4, <2>1 DEF SelectOption
  <2>2. CASE ~(Call.changed \/ value[o] # x)
    BY <1>1, <1>3, <1>4, <2>2 DEF SelectOption, IInv, DataOK
  <2>3. QED
    BY <2>1, <2>2
<1>6. /\ ts \in Seq(Task) /\ Calm(ts)
      /\ ts # <<>> => /\ Len(ts) = 1
                      /\ ts[1].do = "propagate"
                      /\ ts[1].to # <<>> /\ Head(ts[1].to) = Parent(o)
      /\ ts = <<>> => value' = value
  <2>1. CASE Call.changed \/ value[o] # x
    BY <1>4, <2>1, OptionNotifies
  <2>2. CASE ~(Call.changed \/ value[o] # x)
    BY <1>1, <1>3, <1>4, <2>2, CalmCalls DEF SelectOption
  <2>3. QED
    BY <2>1, <2>2
<1>7. /\ Depth \in Nat /\ Depth >= 1
      /\ work[Depth] \in Seq(Task)
      /\ Call = work[Depth][1]
  BY <1>2, Levels DEF IInv, Call
<1>8. /\ Depth' = Depth
      /\ propagateCallstack' = propagateCallstack
      /\ work'[Depth] = ts \o Tail(work[Depth])
      /\ \A k \in 1..Depth : k # Depth => work'[k] = work[k]
  BY <1>2, <1>3, <1>5, <1>6, ThenLevels DEF IInv
<1>9. CASE o \notin Range(Children[c])
  <2>1. ~About(Call, c)
    BY <1>1, <1>2, <1>9 DEF About
  <2>2. \A p \in Range(Children[c]) : value'[p] = value[p]
    BY <1>3, <1>5, <1>9, OwnChoice, Kinds DEF IInv, DataOK
  <2>3. QED
    BY <1>2, <1>3, <1>5, <1>6, <2>1, <2>2, Elsewhere DEF IInv
<1>10. CASE o \in Range(Children[c])
  <2>1. Parent(o) = c /\ o \in Symbol
    BY <1>10, OwnChoice, Kinds
  <2>2. Entered(c)' <=> Entered(c)
    BY <1>8 DEF Entered
  <2>3. PICK q, r :
           q \in Seq(Task) /\ q = work[Depth] /\ r = work'[Depth] /\ Continues(r, ts, q)
    BY <1>7, <1>8 DEF Continues
  <2>4. q # <<>> /\ q[1] = Call
    BY <1>2, <1>7, <2>3
  <2>5. PICK u, v : u = value /\ v = value'
    OBVIOUS
  <2>6. Takes(v, u, q[1], c)
    <3>1. \A p \in Symbol : v[p] = IF p = o THEN x ELSE u[p]
      BY <1>3, <1>5, <2>1, <2>5 DEF IInv, DataOK
    <3>2. \A i \in 1..Len(Children[c]) : Children[c][i] \in Symbol
      BY OptionAt, OwnChoice, Kinds
    <3>3. QED
      BY <1>1, <1>3, <1>5, <2>1, <2>4, <3>1, <3>2 DEF Takes
  <2>7. PICK d \in {0, 1} : d = IF ts = <<>> THEN 0 ELSE 1
    OBVIOUS
  <2>8. ASSUME NEW n \in Range(Children[c]), NEW m \in 0..Len(Children[c]),
               m < Len(Children[c]),
               Agrees(u, c, n, m), Remaining(q, 0, c, n, m)
        PROVE  /\ m + 1 \in 0..Len(Children[c])
               /\ Agrees(v, c, n, m + 1)
               /\ Remaining(r, d, c, n, m + 1)
               /\ NoMore(q, 0, c, m) => NoMore(r, d, c, m + 1)
               /\ Heralded(r, d)
    <3>1. Notices(ts, d)
      BY <1>6, <2>7 DEF Notices, Heralded
    <3>2. QED
      BY <1>6, <2>3, <2>4, <2>6, <2>8, <3>1, AfterSelection, Zenon
  <2>9. CASE Entered(c)
    <3>1. Depth > 1 /\ propagateCallstack[1] = c /\ Deciding(u, work[2], c)
      BY <2>5, <2>9 DEF Entered, Decided
    <3>2. Depth = 2
      BY <1>1, <1>2, <1>7, <2>1, <3>1 DEF WellCalled
    <3>3. PICK n \in Range(Children[c]), m \in 0..Len(Children[c]) :
             /\ m < Len(Children[c])
             /\ Agrees(u, c, n, m)
             /\ Remaining(q, 0, c, n, m)
             /\ NoMore(q, 0, c, m)
      BY <1>2, <2>3, <2>4, <3>1, <3>2, DecidingSelects
    <3>4. Deciding(v, r, c)
      BY <2>8, <3>3 DEF Deciding
    <3>5. QED
      BY <1>8, <2>2, <2>3, <2>5, <2>9, <3>2, <3>4 DEF Decided
  <2>10. CASE ~Entered(c) /\ ts # <<>>
    <3>1. r[1] = ts[1] /\ r # <<>>
      <4>1. Len(r) = Len(ts) + Len(q) - 1 /\ \A i \in 1..Len(ts) : r[i] = ts[i]
        BY <1>6, <2>3, <2>4, Behind DEF Continues
      <4>2. Len(ts) = 1 /\ Len(q) \in Nat /\ Len(q) # 0
        BY <1>6, <2>4, <2>10, LenProperties, EmptySeq
      <4>3. QED
        BY <4>1, <4>2
    <3>2. Settling(v, r, c)
      BY <1>6, <2>1, <2>10, <3>1 DEF Settling
    <3>3. QED
      BY <1>8, <2>2, <2>3, <2>5, <2>10, <3>2 DEF Decided
  <2>11. CASE ~Entered(c) /\ ts = <<>>
    <3>1. Settled(u, c) \/ Settling(u, q, c) \/ Due(work[1], c)
      BY <2>3, <2>5, <2>11 DEF Decided
    <3>2. CASE Settled(u, c)
      <4>1. v = u
        BY <1>6, <2>5, <2>11
      <4>2. QED
        BY <2>2, <2>5, <2>11, <3>2, <4>1 DEF Decided
    <3>3. CASE Due(work[1], c)
      BY <1>2, <1>6, <1>8, <2>2, <2>11, <3>3, DueStays DEF Decided, IInv
    <3>4. CASE Settling(u, q, c)
      <4>1. PICK n \in Range(Children[c]), m \in 0..Len(Children[c]) :
               /\ m < Len(Children[c])
               /\ Agrees(u, c, n, m)
               /\ Remaining(q, 0, c, n, m)
        BY <1>2, <2>4, <3>4 DEF Settling
      <4>2. d = 0
        BY <2>7, <2>11
      <4>3. /\ m + 1 \in 0..Len(Children[c])
            /\ Agrees(v, c, n, m + 1)
            /\ Remaining(r, 0, c, n, m + 1)
        BY <2>8, <4>1, <4>2
      <4>4. CASE m + 1 = Len(Children[c])
        BY <2>2, <2>5, <2>11, <4>3, <4>4 DEF Settled, Decided
      <4>5. CASE m + 1 < Len(Children[c])
        <5>1. r # <<>>
          BY <4>3, <4>5, OptionsOfChoice DEF Remaining
        <5>2. Settling(v, r, c)
          BY <4>3, <4>5, <5>1 DEF Settling
        <5>3. QED
          BY <1>8, <2>2, <2>3, <2>5, <2>11, <5>2 DEF Decided
      <4>6. QED
        BY <4>1, <4>4, <4>5, OptionsOfChoice
    <3>5. QED
      BY <3>1, <3>2, <3>3, <3>4
  <2>12. QED
    BY <2>9, <2>10, <2>11
<1>11. QED
  BY <1>9, <1>10


(* While a choice decides, the changes of its options are propagated.      *)
LEMMA AfterNotice ==
    ASSUME NEW c \in Choice, NEW val, NEW q \in Seq(Task), q # <<>>,
           Deciding(val, q, c), q[1].do = "propagate",
           NEW ts \in Seq(Task), NEW e, Notices(ts, e),
           NEW r, Continues(r, ts, q)
    PROVE  Deciding(val, r, c)
<1>1. q # <<Evaluate(c)>>
  BY DEF Evaluate
<1>2. PICK n \in Range(Children[c]), m \in 0..Len(Children[c]), d \in {0, 1} :
         /\ Agrees(val, c, n, m)
         /\ Remaining(q, d, c, n, m)
         /\ NoMore(q, d, c, m)
         /\ Heralded(q, d)
  BY <1>1, Zenon DEF Deciding
<1>3. PICK k \in Nat : k = Len(Children[c])
  BY OptionsOfChoice
<1>4. Len(q) \in Nat /\ Len(q) # 0 /\ m \in Nat /\ m <= k
  BY <1>3, LenProperties, EmptySeq
<1>5. d = 1
  <2>1. SUFFICES ASSUME d = 0
                 PROVE  FALSE
    OBVIOUS
  <2>2. m + 1 \in (m + 1)..Len(Children[c]) /\ d + (m + 1) - m = 1
    BY <1>2, <1>3, <1>4, <2>1 DEF NoMore
  <2>3. Selects(q[1], c, n, m + 1)
    BY <1>2, <2>2 DEF Remaining
  <2>4. QED
    BY <2>3 DEF Selects
<1>6. e \in {0, 1} /\ Len(ts) = e /\ Heralded(ts, e)
  BY DEF Notices
<1>7. /\ Len(r) = Len(ts) + Len(q) - 1
      /\ \A i \in 1..Len(ts) : r[i] = ts[i]
      /\ \A i \in 2..Len(q) : r[Len(ts) + i - 1] = q[i]
  <2>1. r = ts \o Tail(q)
    BY DEF Continues
  <2>2. QED
    BY <2>1, Behind
<1>8. Heralded(r, e)
  BY <1>6, <1>7 DEF Heralded
<1>9. NoMore(r, e, c, m)
  BY <1>2, <1>3, <1>4, <1>5, <1>6, <1>7 DEF NoMore
<1>10. Remaining(r, e, c, n, m)
  <2>1. ASSUME NEW i \in (m + 1)..k
        PROVE  Selects(r[e + i - m], c, n, i)
    <3>1. /\ 1 + i - m \in 2..Len(q)
          /\ e + (1 + i - m) - 1 = e + i - m
      BY <1>2, <1>3, <1>4, <1>5, <1>6 DEF NoMore
    <3>2. r[e + i - m] = q[1 + i - m]
      BY <1>6, <1>7, <3>1
    <3>3. Selects(q[1 + i - m], c, n, i)
      BY <1>2, <1>3, <1>5 DEF Remaining
    <3>4. QED
      BY <3>2, <3>3
  <2>2. Len(r) >= e + k - m
    BY <1>3, <1>4, <1>6, <1>9 DEF NoMore
  <2>3. QED
    BY <1>3, <2>1, <2>2 DEF Remaining
<1>11. QED
  BY <1>2, <1>6, <1>8, <1>9, <1>10, Zenon DEF Deciding

(* Propagating goes on without a change of values...                       *)
LEMMA StaysDecided ==
    ASSUME CallsOK, work[Depth] # <<>>, Call.do = "propagate",
           NEW c \in Choice, Decided(c),
           Entered(c) \/ ~(Call.to # <<>> /\ Head(Call.to) = c),
           value' = value,
           NEW ts \in Seq(Task), NEW e, Notices(ts, e), Calm(ts), Then(ts)
    PROVE  Decided(c)'
<1>1. /\ Depth \in Nat /\ Depth >= 1
      /\ work[Depth] \in Seq(Task)
      /\ Call = work[Depth][1]
  BY Levels DEF Call
<1>2. /\ Depth' = Depth
      /\ propagateCallstack' = propagateCallstack
      /\ work'[Depth] = ts \o Tail(work[Depth])
      /\ \A k \in 1..Depth : k # Depth => work'[k] = work[k]
  BY ThenLevels
<1>3. Entered(c)' <=> Entered(c)
  BY <1>2 DEF Entered
<1>4. CASE Entered(c)
  <2>1. Depth > 1 /\ Deciding(value, work[2], c)
    BY <1>4 DEF Entered, Decided
  <2>2. CASE Depth = 2
    <3>1. PICK q, r :
             q \in Seq(Task) /\ q = work[2] /\ r = work'[2] /\ Continues(r, ts, q)
      BY <1>1, <1>2, <2>2 DEF Continues
    <3>2. q # <<>> /\ q[1].do = "propagate"
      BY <1>1, <2>2, <3>1
    <3>3. Deciding(value, r, c)
      BY <2>1, <3>1, <3>2, AfterNotice
    <3>4. QED
      BY <1>3, <1>4, <3>1, <3>3 DEF Decided
  <2>3. CASE Depth # 2
    <3>1. work'[2] = work[2]
      BY <1>1, <1>2, <2>1, <2>3
    <3>2. QED
      BY <1>3, <1>4, <2>1, <3>1 DEF Decided
  <2>4. QED
    BY <2>2, <2>3
<1>5. CASE ~Entered(c)
  <2>1. ~Settling(value, work[Depth], c)
    BY <1>1, <1>5, SettlingNext
  <2>2. CASE Settled(value, c)
    BY <1>3, <1>5, <2>2 DEF Decided
  <2>3. CASE Due(work[1], c)
    BY <1>2, <1>3, <1>5, <2>3, DueStays DEF Decided
  <2>4. QED
    BY <1>5, <2>1, <2>2, <2>3 DEF Decided
<1>6. QED
  BY <1>4, <1>5

LEMMA PropagateEndDecides ==
    ASSUME IInv, PropagateEnd, NEW c \in Choice, Decided(c)
    PROVE  Decided(c)'
<1>1. /\ work[Depth] # <<>>
      /\ Call.do = "propagate" /\ Call.to = <<>>
  BY Runs DEF IInv, PropagateEnd
<1>2. << >> \in Seq(Task) /\ Calm(<< >>) /\ Notices(<< >>, 0)
  BY CalmCalls DEF Notices, Heralded
<1>3. value' = value /\ Then(<<>>)
  BY DEF PropagateEnd, state
<1>4. QED
  BY <1>1, <1>2, <1>3, StaysDecided DEF IInv

(* What is left of a propagation.                                          *)
LEMMA NoticeLeft ==
    ASSUME NEW t \in Task, t.do = "propagate", t.to # <<>>,
           NEW k, NEW cs, WellCalled(t, k, cs)
    PROVE  /\ <<Propagate(t.of, Tail(t.to))>> \in Seq(Task)
           /\ Calm(<<Propagate(t.of, Tail(t.to))>>)
           /\ Notices(<<Propagate(t.of, Tail(t.to))>>, 1)
<1>1. <<Propagate(t.of, Tail(t.to))>> \in Seq(Task)
  BY RestOfPropagation
<1>2. Calm(<<Propagate(t.of, Tail(t.to))>>)
  BY DEF Calm, Propagate
<1>3. Notices(<<Propagate(t.of, Tail(t.to))>>, 1)
  BY DEF Notices, Heralded, Propagate
<1>4. QED
  BY <1>1, <1>2, <1>3

LEMMA PropagateSkipDecides ==
    ASSUME IInv, PropagateSkip, NEW c \in Choice, Decided(c)
    PROVE  Decided(c)'
<1> DEFINE rest == <<Propagate(Call.of, Tail(Call.to))>>
<1>1. /\ work[Depth] # <<>>
      /\ Call.do = "propagate" /\ Call.to # <<>>
      /\ Call \in Task /\ WellCalled(Call, Depth, propagateCallstack)
  BY Runs DEF IInv, PropagateSkip
<1>2. rest \in Seq(Task) /\ Calm(rest) /\ Notices(rest, 1)
  BY <1>1, NoticeLeft
<1>3. /\ value' = value /\ Then(rest)
      /\ Head(Call.to) \in Range(propagateCallstack)
  BY DEF PropagateSkip, state
<1> HIDE DEF rest
<1>4. Entered(c) \/ Head(Call.to) # c
  BY <1>3, NotEntered DEF IInv
<1>5. QED
  BY <1>1, <1>2, <1>3, <1>4, StaysDecided DEF IInv

(* ... and entering the call stack for a referrer's sake changes nothing   *)
(* either, but that a choice told of a change is about to be evaluated.    *)
LEMMA PropagateVisitDecides ==
    ASSUME IInv, PropagateVisit, NEW c \in Choice, Decided(c)
    PROVE  Decided(c)'
<1>1. /\ work[Depth] # <<>>
      /\ Call.do = "propagate" /\ Call.to # <<>>
      /\ Call \in Task /\ WellCalled(Call, Depth, propagateCallstack)
  BY Runs DEF IInv, PropagateVisit
<1>2. PICK w, x, rest :
         /\ w = Call.of /\ x = Head(Call.to)
         /\ rest = <<Propagate(Call.of, Tail(Call.to))>>
  OBVIOUS
<1>3. rest \in Seq(Task) /\ Calm(rest) /\ Notices(rest, 1)
  BY <1>1, <1>2, NoticeLeft
<1>4. /\ w \in Widget /\ w \notin Choice
      /\ x \in Widget
  BY <1>1, <1>2, TaskFields, RestOfPropagation DEF WellCalled
<1>5. PICK inner : inner = <<Evaluate(x)>>
  OBVIOUS
<1>6. /\ inner \in Seq(Task)
      /\ inner # <<>>
      /\ inner[1].do = "evaluate" /\ inner[1].of = x
  BY <1>4, <1>5 DEF Evaluate, Task
<1>7. value' = value /\ Enter(w, inner, rest)
  BY <1>2, <1>5 DEF PropagateVisit, state
<1>8. /\ Depth' = Depth + 1
      /\ propagateCallstack'[Depth] = w
      /\ \A k \in 1..(Depth - 1) : propagateCallstack'[k] = propagateCallstack[k]
      /\ work'[Depth + 1] = inner
      /\ work'[Depth] = rest \o Tail(work[Depth])
      /\ \A k \in 1..Depth : k # Depth => work'[k] = work[k]
  BY <1>1, <1>3, <1>4, <1>6, <1>7, EnterLevels DEF IInv
<1>9. /\ Depth \in Nat /\ Depth >= 1
      /\ work[Depth] \in Seq(Task)
      /\ Call = work[Depth][1]
  BY <1>1, Levels DEF IInv, Call
<1>10. Entered(c)' <=> Entered(c)
  <2>1. CASE Depth = 1
    BY <1>4, <1>8, <2>1 DEF Entered
  <2>2. CASE Depth > 1
    <3>1. 1 \in 1..(Depth - 1) /\ Depth' > 1
      BY <1>8, <1>9, <2>2
    <3>2. QED
      BY <1>8, <2>2, <3>1 DEF Entered
  <2>3. QED
    BY <1>9, <2>1, <2>2
<1>11. CASE Entered(c)
  <2>1. Depth > 1 /\ Deciding(value, work[2], c)
    BY <1>11 DEF Entered, Decided
  <2>2. CASE Depth = 2
    <3>1. PICK q, r :
             q \in Seq(Task) /\ q = work[2] /\ r = work'[2] /\ Continues(r, rest, q)
      BY <1>8, <1>9, <2>2 DEF Continues
    <3>2. q # <<>> /\ q[1].do = "propagate"
      BY <1>1, <1>9, <2>2, <3>1
    <3>3. Deciding(value, r, c)
      BY <1>3, <2>1, <3>1, <3>2, AfterNotice
    <3>4. QED
      BY <1>7, <1>10, <1>11, <3>1, <3>3 DEF Decided
  <2>3. CASE Depth # 2
    <3>1. work'[2] = work[2]
      BY <1>8, <1>9, <2>1, <2>3
    <3>2. QED
      BY <1>7, <1>10, <1>11, <2>1, <3>1 DEF Decided
  <2>4. QED
    BY <2>2, <2>3
<1>12. CASE ~Entered(c)
  <2>1. CASE Settled(value, c)
    BY <1>7, <1>10, <1>12, <2>1 DEF Decided
  <2>2. CASE Due(work[1], c)
    <3>1. Due(work'[1], c)
      BY <1>1, <1>3, <1>8, <2>2, DueStays DEF IInv
    <3>2. QED
      BY <1>10, <1>12, <3>1 DEF Decided
  <2>3. CASE Settling(value, work[Depth], c)
    <3>1. x = c
      BY <1>1, <1>2, <1>9, <2>3, SettlingNext
    <3>2. Settling(value', inner, c)
      BY <1>6, <3>1 DEF Settling
    <3>3. QED
      BY <1>8, <1>10, <1>12, <3>2 DEF Decided
  <2>4. QED
    BY <1>12, <2>1, <2>2, <2>3 DEF Decided
<1>13. QED
  BY <1>11, <1>12

LEMMA PropagateReturnDecides ==
    ASSUME IInv, PropagateReturn, NEW c \in Choice, Decided(c)
    PROVE  Decided(c)'
<1>1. /\ Depth \in Nat /\ Depth > 1
      /\ work[Depth] = <<>>
      /\ propagateCallstack \in Seq(Widget)
      /\ work \in Seq(Seq(Task))
      /\ Len(work) = Depth /\ Len(propagateCallstack) = Depth - 1
  BY Levels DEF IInv, CallsOK, PropagateReturn, Depth
<1>2. PICK n \in Nat : n = Depth - 2
  BY <1>1
<1>3. PICK m \in Nat : m = n + 1
  OBVIOUS
<1>4. /\ Len(propagateCallstack) = n + 1 /\ Len(work) = m + 1
      /\ work' = SubSeq(work, 1, m)
      /\ propagateCallstack' = SubSeq(propagateCallstack, 1, n)
      /\ value' = value
  BY <1>1, <1>2, <1>3 DEF PropagateReturn, state
<1>5. /\ Len(work') = m
      /\ \A i \in 1..m : work'[i] = work[i]
      /\ \A i \in 1..n : propagateCallstack'[i] = propagateCallstack[i]
  BY <1>1, <1>4, FrontOf
<1>6. Depth' = m
  BY <1>5 DEF Depth
<1>7. CASE Entered(c)
  <2>1. Deciding(value, work[2], c) /\ propagateCallstack[1] = c
    BY <1>7 DEF Entered, Decided
  <2>2. CASE Depth = 2
    <3>1. Settled(value, c)
      BY <1>1, <2>1, <2>2, DecidingDone
    <3>2. ~Entered(c)'
      BY <1>2, <1>3, <1>6, <2>2 DEF Entered
    <3>3. QED
      BY <1>4, <3>1, <3>2 DEF Decided
  <2>3. CASE Depth # 2
    <3>1. 2 \in 1..m /\ 1 \in 1..n /\ m > 1
      BY <1>1, <1>2, <1>3, <2>3
    <3>2. Entered(c)' /\ work'[2] = work[2]
      BY <1>5, <1>6, <2>1, <3>1 DEF Entered
    <3>3. QED
      BY <1>4, <2>1, <3>2 DEF Decided
  <2>4. QED
    BY <2>2, <2>3
<1>8. CASE ~Entered(c)
  <2>1. Settled(value, c) \/ Due(work[1], c)
    BY <1>1, <1>8 DEF Decided, Settling
  <2>2. work'[1] = work[1]
    BY <1>3, <1>5
  <2>3. ~Entered(c)'
    <3>1. CASE Depth = 2
      BY <1>2, <1>3, <1>6, <3>1 DEF Entered
    <3>2. CASE Depth # 2
      <4>1. 1 \in 1..n
        BY <1>1, <1>2, <3>2
      <4>2. propagateCallstack[1] # c
        BY <1>1, <1>8 DEF Entered
      <4>3. QED
        BY <1>5, <4>1, <4>2 DEF Entered
    <3>3. QED
      BY <3>1, <3>2
  <2>4. QED
    BY <1>4, <2>1, <2>2, <2>3 DEF Decided
<1>9. QED
  BY <1>7, <1>8

LEMMA EvaluateGuardedDecides ==
    ASSUME IInv, EvaluateGuarded, NEW c \in Choice, Decided(c)
    PROVE  Decided(c)'
<1>1. /\ work[Depth] # <<>>
      /\ Call.do = "guarded" /\ Call.of \in Choice
      /\ Depth = 1
  BY Runs, TaskFields, OutermostCall DEF IInv, EvaluateGuarded
<1>2. PICK x \in Choice : x = Call.of
  BY <1>1
<1>3. PICK inner : inner = <<Evaluate(x)>>
  OBVIOUS
<1>4. PICK rest : rest = <<>>
  OBVIOUS
<1>5. x \in Widget /\ inner \in Seq(Task) /\ rest \in Seq(Task) /\ Calm(rest)
  BY <1>3, <1>4, Kinds, CalmCalls DEF Evaluate, Task
<1>6. value' = value /\ Enter(x, inner, rest)
  BY <1>2, <1>3, <1>4 DEF EvaluateGuarded, state
<1>7. /\ Depth' = Depth + 1
      /\ propagateCallstack'[Depth] = x
      /\ work'[Depth + 1] = inner
      /\ work'[Depth] = rest \o Tail(work[Depth])
      /\ \A k \in 1..Depth : k # Depth => work'[k] = work[k]
  BY <1>1, <1>5, <1>6, EnterLevels DEF IInv
<1>8. CASE c = x
  <2>1. Entered(c)' /\ work'[2] = <<Evaluate(c)>>
    BY <1>1, <1>3, <1>7, <1>8 DEF Entered
  <2>2. QED
    BY <2>1 DEF Decided, Deciding
<1>9. CASE c # x
  <2>1. ~Entered(c) /\ ~Entered(c)'
    BY <1>1, <1>7, <1>9 DEF Entered
  <2>2. ~Settling(value, work[Depth], c)
    <3>1. Call = work[Depth][1] /\ ~About(Call, c)
      BY <1>1, Levels DEF IInv, Call, About
    <3>2. QED
      BY <3>1, SettlingNext
  <2>3. Due(work[1], c) => Due(work'[1], c)
    BY <1>1, <1>2, <1>5, <1>7, <1>9, DueStays DEF IInv
  <2>4. QED
    BY <1>6, <2>1, <2>2, <2>3 DEF Decided
<1>10. QED
  BY <1>8, <1>9

(* An exception leaves no choice undecided: while an option of the file is *)
(* read, every choice is settled.                                          *)
LEMMA LoadFailsDecides ==
    ASSUME IInv, LoadFails, NEW c \in Choice, Decided(c)
    PROVE  Decided(c)'
<1>1. /\ work[Depth] # <<>>
      /\ Call.do = "set"
      /\ Depth = 1
  BY Runs, OutermostCall DEF IInv, LoadFails
<1>2. work[1] \in Seq(Task) /\ Call = work[1][1]
  BY <1>1, Levels DEF IInv, Call
<1>3. ~Settling(value, work[1], c)
  <2>1. ~About(Call, c)
    BY <1>1 DEF About
  <2>2. QED
    BY <1>2, <2>1, SettlingNext
<1>4. ~Due(work[1], c)
  <2>1. 1 \in 1..Len(work[1])
    BY <1>1, <1>2, LenProperties, EmptySeq
  <2>2. QED
    BY <1>1, <1>2, <2>1 DEF Due, NoSets
<1>5. Settled(value, c)
  BY <1>1, <1>3, <1>4 DEF Decided, Entered
<1>6. value' = value /\ ~Entered(c)'
  BY DEF LoadFails, state, Entered, Depth
<1>7. QED
  BY <1>5, <1>6 DEF Decided

-----------------------------------------------------------------------------
(* The user's actions.                                                     *)

(* At rest every choice is settled.                                        *)
LEMMA RestSettles ==
    ASSUME Quiescent, NEW c \in Choice, Decided(c)
    PROVE  Settled(value, c)
<1>1. work = << <<>> >> /\ Depth = 1
  BY DEF Quiescent, Depth
<1>2. work[Depth] = <<>> /\ work[1] = <<>>
  BY <1>1
<1>3. ~Entered(c) /\ ~Settling(value, work[Depth], c) /\ ~Due(work[1], c)
  BY <1>1, <1>2 DEF Entered, Settling, Due
<1>4. QED
  BY <1>3 DEF Decided

(* A handler starts outside of every choice.                               *)
LEMMA StartDecides ==
    ASSUME NEW ts, work' = << ts >>, NEW c, Settled(value, c)'
    PROVE  Decided(c)'
<1>1. Depth' = 1
  BY DEF Depth
<1>2. ~Entered(c)'
  BY <1>1 DEF Entered
<1>3. QED
  BY <1>2 DEF Decided

LEMMA UserSetsDecides ==
    ASSUME IInv, Quiescent, NEW w, w \notin Option, NEW x, UserSets(w, x),
           Start(Changed(w)) \/ Start(Notify(w)),
           NEW c \in Choice, Decided(c)
    PROVE  Decided(c)'
<1>1. \A o \in Range(Children[c]) : value'[o] = value[o]
  BY OptionsUntouched DEF UserSets, IInv, DataOK
<1>2. Settled(value', c)
  BY <1>1, RestSettles, SameValues
<1>3. QED
  BY <1>2, StartDecides DEF Start

LEMMA ClickBoolDecides ==
    ASSUME IInv, NEW w \in Bool, ClickBool(w), NEW c \in Choice, Decided(c)
    PROVE  Decided(c)'
<1>1. PICK x : UserSets(w, x)
  BY DEF ClickBool
<1>2. w \notin Option
  BY WidgetsDisjoint
<1>3. QED
  BY <1>1, <1>2, UserSetsDecides DEF ClickBool, Editable

LEMMA ClickTristateDecides ==
    ASSUME IInv, NEW w \in Tristate, ClickTristate(w), NEW c \in Choice, Decided(c)
    PROVE  Decided(c)'
<1>1. PICK x : UserSets(w, x)
  BY DEF ClickTristate
<1>2. w \notin Option
  BY WidgetsDisjoint
<1>3. QED
  BY <1>1, <1>2, UserSetsDecides DEF ClickTristate, Editable

LEMMA EditTextDecides ==
    ASSUME IInv, NEW w \in Number \cup Text, NEW x, EditText(w, x),
           NEW c \in Choice, Decided(c)
    PROVE  Decided(c)'
<1>1. w \notin Option
  BY WidgetsDisjoint
<1>2. QED
  BY <1>1, UserSetsDecides DEF EditText, Editable

(* An option picked from the list enters its choice, which then plans to   *)
(* select that option; another choice is at rest.                          *)
LEMMA PickOptionDecides ==
    ASSUME IInv, NEW o \in Option, PickOption(o), NEW c \in Choice, Decided(c)
    PROVE  Decided(c)'
<1>1. PICK x \in Choice : x = Parent(o) /\ o \in Range(Children[x])
  BY OptionHasParent
<1>2. PICK ts, no : no = FALSE /\ ts = SelectOptions(x, o, no)
  OBVIOUS
<1>3. /\ Quiescent
      /\ propagateCallstack' = <<x>>
      /\ work' = << <<>>, ts >>
      /\ value' = value
  BY <1>1, <1>2 DEF PickOption, Editable
<1>4. Depth' = 2 /\ work'[2] = ts /\ propagateCallstack'[1] = x
  BY <1>3 DEF Depth
<1>5. CASE c = x
  <2>1. Entered(c)'
    BY <1>4, <1>5 DEF Entered
  <2>2. /\ Len(ts) = Len(Children[c])
        /\ \A i \in 1..Len(Children[c]) :
              ts[i] = Select(Children[c][i], Children[c][i] = o, no)
    <3>1. Len(Children[c]) \in Nat
      BY OptionsOfChoice
    <3>2. ts = SelectOptions(c, o, no)
      BY <1>2, <1>5
    <3>3. QED
      BY <3>1, <3>2 DEF SelectOptions
  <2>3. 0 \in 0..Len(Children[c]) /\ Agrees(value', c, o, 0)
    BY OptionsOfChoice DEF Agrees
  <2>4. NoMore(ts, 0, c, 0) /\ Heralded(ts, 0)
    BY <2>2, OptionsOfChoice DEF NoMore, Heralded
  <2>5. Remaining(ts, 0, c, o, 0)
    <3>1. ASSUME NEW i \in 1..Len(Children[c])
          PROVE  Selects(ts[i], c, o, i)
      <4>1. PICK t : t = ts[i]
        OBVIOUS
      <4>2. Selects(t, c, o, i)
        BY <2>2, <4>1, SelectSelects, Zenon
      <4>3. QED
        BY <4>1, <4>2
    <3>2. \A i \in (0 + 1)..Len(Children[c]) :
              i \in 1..Len(Children[c]) /\ 0 + i - 0 = i
      BY OptionsOfChoice
    <3>3. Len(ts) >= 0 + Len(Children[c]) - 0
      BY <2>2, OptionsOfChoice
    <3>4. QED
      BY <3>1, <3>2, <3>3 DEF Remaining
  <2>6. Deciding(value', ts, c)
    BY <1>1, <1>5, <2>3, <2>4, <2>5 DEF Deciding
  <2>7. QED
    BY <1>4, <2>1, <2>6 DEF Decided
<1>6. CASE c # x
  <2>1. ~Entered(c)'
    BY <1>4, <1>6 DEF Entered
  <2>2. Settled(value', c)
    BY <1>3, RestSettles
  <2>3. QED
    BY <2>1, <2>2 DEF Decided
<1>7. QED
  BY <1>5, <1>6

(* A file is read with every choice as it was at rest.                     *)
LEMMA LoadDecides ==
    ASSUME NEW f, Load(f), NEW c \in Choice, Decided(c)
    PROVE  Decided(c)'
<1>1. Settled(value, c)' /\ \E ts : work' = << ts >>
  BY RestSettles DEF Load, Start
<1>2. QED
  BY <1>1, StartDecides

(* What only saves, or does nothing, leaves the choices as they are.       *)
LEMMA SameDecides ==
    ASSUME UNCHANGED <<value, work, propagateCallstack>>, NEW c, Decided(c)
    PROVE  Decided(c)'
BY DEF Decided, Entered, Depth
-----------------------------------------------------------------------------
(* A choice remembers options of its own only.                             *)

LEMMA ChosenStep ==
    ASSUME IInv, ChosenOK, NEW o \in Option, NEW x,
           chosen' = [chosen EXCEPT ![Parent(o)] = x],
           x = Chosen(o, value[o]) \/ x = o \/ \E y : x = Chosen(o, y)
    PROVE  ChosenOK'
<1>1. PICK d \in Choice : d = Parent(o) /\ o \in Range(Children[d])
  BY OptionHasParent
<1>2. x = o \/ x = None \/ x = chosen[d]
  BY <1>1 DEF Chosen
<1>3. chosen' = [chosen EXCEPT ![d] = x] /\ chosen \in [Choice -> Option \cup {None}]
  BY <1>1 DEF IInv, DataOK
<1>4. QED
  BY <1>1, <1>2, <1>3 DEF ChosenOK

LEMMA ChosenKept ==
    ASSUME IInv, ChosenOK, [Next]_vars
    PROVE  ChosenOK'
<1>1. CASE EvaluateOption
  <2>1. Call.of \in Option
    BY <1>1 DEF EvaluateOption
  <2>2. \/ chosen' = chosen
        \/ chosen' = [chosen EXCEPT ![Parent(Call.of)]
                                       = Chosen(Call.of, Restored(Call.of))]
    BY <1>1 DEF EvaluateOption
  <2>3. QED
    BY <2>1, <2>2, ChosenStep DEF ChosenOK
<1>2. CASE LoadOption
  <2>1. \/ chosen' = chosen
        \/ /\ Call.of \in Option
           /\ chosen' = [chosen EXCEPT ![Parent(Call.of)]
                            = Chosen(Call.of, Read(Call.of, Call.to))]
    BY <1>2 DEF LoadOption
  <2>2. QED
    BY <2>1, ChosenStep DEF ChosenOK
<1>3. ASSUME NEW o \in Option, PickOption(o)
      PROVE  ChosenOK'
  BY <1>3, ChosenStep DEF PickOption
<1>4. ASSUME NEW f, Load(f)
      PROVE  ChosenOK'
  BY <1>4 DEF Load, ChosenOK
<1>5. CASE UNCHANGED chosen
  BY <1>5 DEF ChosenOK
<1>6. Engine => \/ UNCHANGED chosen \/ EvaluateOption \/ LoadOption
  BY DEF Engine, EvaluateWidget, EvaluateChoice, SelectOption, PropagateEnd,
     PropagateSkip, PropagateVisit, PropagateReturn, EvaluateGuarded,
     ModulesChange, LoadFails, state
<1>7. User => \/ UNCHANGED chosen
              \/ \E o \in Option : PickOption(o)
              \/ \E f : Load(f)
  BY DEF User, ClickBool, ClickTristate, EditText, UserSets, Save, state
<1>8. QED
  BY <1>1, <1>2, <1>3, <1>4, <1>5, <1>6, <1>7 DEF Next, vars
-----------------------------------------------------------------------------
(* A tree just built has every choice in choiceList, to be evaluated...    *)
LEMMA InitSInv == Init => SInv
<1> SUFFICES ASSUME Init PROVE SInv
  OBVIOUS
<1>1. IInv
  BY InitIInv
<1>2. ChosenOK
  <2>1. PICK k :
           chosen = [c \in Choice |->
                 LET y == {o \in Range(Children[c]) : k.value[o] = 2}
                 IN  IF y = {} THEN None ELSE CHOOSE o \in y : TRUE]
    BY DEF Init
  <2>2. ASSUME NEW c \in Choice, chosen[c] # None
        PROVE  chosen[c] \in Range(Children[c])
    <3> DEFINE y == {o \in Range(Children[c]) : k.value[o] = 2}
    <3>1. chosen[c] = IF y = {} THEN None ELSE CHOOSE o \in y : TRUE
      BY <2>1
    <3>2. y # {}
      BY <2>2, <3>1
    <3>3. (CHOOSE o \in y : TRUE) \in y
      BY <3>2
    <3>4. QED
      BY <3>1, <3>2, <3>3
  <2>3. QED
    BY <2>2 DEF ChosenOK
<1>3. ASSUME NEW c \in Choice
      PROVE  Decided(c)
  <2> DEFINE us == IF Modules # None THEN <<InvalidateTristate>> ELSE <<>>
  <2>1. us \in Seq(Task) /\ NoSets(us)
    <3>1. InvalidateTristate \in Task /\ InvalidateTristate.do # "set"
      BY DEF InvalidateTristate, Task
    <3>2. QED
      BY <3>1 DEF NoSets
  <2>2. /\ EvaluateChoices \in Seq(Task)
        /\ Len(EvaluateChoices) = Len(ChoiceList) /\ Len(ChoiceList) \in Nat
        /\ \A i \in 1..Len(ChoiceList) : EvaluateChoices[i] = Guarded(ChoiceList[i])
    <3>1. EvaluateChoices \in Seq(Task)
      BY GuardedCalls
    <3>2. Len(ChoiceList) \in Nat
      BY TreeTyped, LenProperties
    <3>3. QED
      BY <3>1, <3>2 DEF EvaluateChoices
  <2>3. NoSets(EvaluateChoices)
    <3>1. \A x : Guarded(x).do # "set"
      BY DEF Guarded
    <3>2. QED
      BY <2>2, <3>1 DEF NoSets
  <2>4. PICK i \in 1..Len(ChoiceList) : ChoiceList[i] = c
    BY ChoicesApart, TreeTyped, RangeEquality
  <2>5. EvaluateChoices[i].do = "guarded" /\ EvaluateChoices[i].of = c
    <3>1. EvaluateChoices[i] = Guarded(c)
      BY <2>2, <2>4
    <3>2. QED
      BY <3>1 DEF Guarded
  <2> HIDE DEF us
  <2>6. PICK r : r = EvaluateChoices \o us
    OBVIOUS
  <2>7. /\ Len(r) = Len(EvaluateChoices) + Len(us)
        /\ \A j \in 1..Len(EvaluateChoices) : r[j] = EvaluateChoices[j]
    <3>1. PICK ts : ts = EvaluateChoices
      OBVIOUS
    <3>2. ts \in Seq(Task) /\ Len(ts) \in Nat /\ Len(us) \in Nat
      BY <2>1, <2>2, <3>1, LenProperties
    <3>3. /\ Len(ts \o us) = Len(ts) + Len(us)
          /\ \A j \in 1..Len(ts) : (ts \o us)[j] = ts[j]
      BY <2>1, <3>2, ConcatProperties
    <3>4. QED
      BY <2>6, <3>1, <3>3
  <2>8. NoSets(r)
    BY <2>1, <2>2, <2>3, <2>6, CalmConcat
  <2>9. i \in 1..Len(r)
    BY <2>1, <2>2, <2>7, LenProperties
  <2>10. Due(r, c)
    BY <2>2, <2>5, <2>7, <2>8, <2>9 DEF Due
  <2>11. work = <<r>>
    BY <2>6 DEF Init, us
  <2>12. work[1] = r /\ ~Entered(c)
    BY <2>11 DEF Entered, Depth
  <2>13. QED
    BY <2>10, <2>12 DEF Decided
<1>4. QED
  BY <1>1, <1>2, <1>3 DEF SInv

(* ... and every call and every event leaves it decided.                   *)
LEMMA NextSInv == SInv /\ [Next]_vars => SInv'
<1> SUFFICES ASSUME SInv, [Next]_vars PROVE SInv'
  OBVIOUS
<1>1. IInv /\ ChosenOK
  BY DEF SInv
<1>2. IInv'
  BY <1>1, NextIInv
<1>3. ChosenOK'
  BY <1>1, ChosenKept
<1>4. ASSUME NEW c \in Choice
      PROVE  Decided(c)'
  <2>1. Decided(c)
    BY DEF SInv
  <2>2. CASE Engine
    BY <1>1, <2>1, <2>2, EvaluateWidgetDecides, EvaluateOptionDecides,
       EvaluateChoiceDecides, SelectOptionDecides, PropagateEndDecides,
       PropagateSkipDecides, PropagateVisitDecides, PropagateReturnDecides,
       EvaluateGuardedDecides, ModulesChangeDecides, LoadOptionDecides,
       LoadFailsDecides DEF Engine
  <2>3. CASE User
    <3>1. CASE Save
      BY <2>1, <3>1, SameDecides DEF Save, state
    <3>2. QED
      BY <1>1, <2>1, <2>3, <3>1, ClickBoolDecides, ClickTristateDecides,
         EditTextDecides, PickOptionDecides, LoadDecides DEF User
  <2>4. CASE UNCHANGED vars
    BY <2>1, <2>4, SameDecides DEF vars
  <2>5. QED
    BY <2>2, <2>3, <2>4 DEF Next
<1>5. QED
  BY <1>2, <1>3, <1>4 DEF SInv

LEMMA DecidedAlways == Spec => []SInv
<1>1. QED
  BY InitSInv, NextSInv, PTL DEF Spec

LEMMA SelectedOnce == SInv => OneSelected
<1> SUFFICES ASSUME SInv, Quiescent, NEW c \in Choice
             PROVE  Cardinality({o \in Range(Children[c]) : value[o] = 2}) = 1
  BY DEF OneSelected
<1>1. Settled(value, c)
  BY RestSettles DEF SInv
<1>2. PICK n \in Range(Children[c]) : Agrees(value, c, n, Len(Children[c]))
  BY <1>1 DEF Settled
<1>3. ASSUME NEW o \in Range(Children[c])
      PROVE  value[o] = 2 <=> o = n
  <2>1. PICK i \in 1..Len(Children[c]) : o = Children[c][i]
    BY OptionsOfChoice
  <2>2. QED
    BY <1>2, <2>1 DEF Agrees
<1>4. {o \in Range(Children[c]) : value[o] = 2} = {n}
  BY <1>3
<1>5. QED
  BY <1>4, FS_Singleton

(* Whatever the tree, the conditions of its options, and the order of      *)
(* clicks, edits and loads (a file whose loading ends half way included):  *)
(* whenever the engine is at rest, ChoiceOption.select() has left exactly  *)
(* one option of each choice at y.                                         *)
THEOREM OneOptionStaysSelected == Spec => []OneSelected
BY SelectedOnce, DecidedAlways, PTL
-----------------------------------------------------------------------------
(* Where no option has a condition of its own, whatever else the tree      *)
(* holds: a choice that is shown reads y for exactly one option, and what  *)
(* getConfigFileContent() writes of it is that option.  (With conditions   *)
(* on options the claim fails: OneOption under Options.cfg.)               *)
THEOREM OneOptionShown == ASSUME PlainOptions PROVE Spec => []OneOption
<1>1. SInv /\ OptionsShown => OneOption
  <2> SUFFICES ASSUME SInv, OptionsShown, Quiescent, NEW c \in Choice, active[c]
               PROVE  Cardinality({o \in Range(Children[c]) : Value(o) = 2}) = 1
    BY DEF OneOption
  <2>1. Cardinality({o \in Range(Children[c]) : value[o] = 2}) = 1
    BY SelectedOnce DEF OneSelected
  <2>2. ASSUME NEW o \in Range(Children[c])
        PROVE  Value(o) = value[o]
    BY OwnChoice DEF OptionsShown, Value, Reads, Live
  <2>3. {o \in Range(Children[c]) : Value(o) = 2}
          = {o \in Range(Children[c]) : value[o] = 2}
    BY <2>2
  <2>4. QED
    BY <2>1, <2>3
<1>2. SInv /\ OptionsShown /\ [Next]_vars => OptionsShown'
  BY NextOptionsShown DEF SInv
<1>3. PlainOptions /\ Init => OptionsShown
  BY InitOptionsShown
<1>4. QED
  BY <1>1, <1>2, <1>3, DecidedAlways, PTL DEF Spec
-----------------------------------------------------------------------------
(* Saving and loading.                                                     *)

(* What the symbols of a configuration at rest read as, where u are the    *)
(* values that the user set.                                               *)
AtRest(r, u) ==
    /\ r \in [Symbol -> Setting]
    /\ \A s \in Symbol \ Option :
          r[s] = IF HoldsIn(r, s) THEN AssignedIn(r, s, u[s]) ELSE TypeDefault[s]
    /\ \A c \in Choice : \E n \in Range(Children[c]) :
          \A o \in Range(Children[c]) :
             r[o] = IF ~HoldsIn(r, c) THEN TypeDefault[o]
                    ELSE IF o = n THEN 2 ELSE 0

ShownIn(r, s) == HoldsIn(r, IF s \in Option THEN Parent(s) ELSE s)

(* What is written of it.                                                  *)
ContentIn(r) == [s \in Symbol |-> IF ShownIn(r, s) THEN r[s] ELSE Unset]

(* f was written by a configuration at rest.                               *)
Written(f) == \E r, u : AtRest(r, u) /\ f = ContentIn(r)

(* q and v are another configuration at rest and its user's values, which  *)
(* are those of the file.                                                  *)
Reread(q, v, f) ==
    /\ AtRest(q, v)
    /\ \A s \in Symbol \ Option : v[s] = f[s]
    /\ \A o \in Option : f[o] = 2 /\ ShownIn(q, o) => q[o] = 2

(* Evaluating a value again leaves it as it is.                            *)
LEMMA AssignedTwice ==
    ASSUME NEW r, NEW s, NEW x
    PROVE  AssignedIn(r, s, AssignedIn(r, s, x)) = AssignedIn(r, s, x)
BY DEF AssignedIn, EmptyText, Unset, Blank

(* In a layer, the readings follow from those below and the file.          *)
LEMMA LayerDetermined ==
    ASSUME NEW rank, Layered(rank), NEW r, NEW u, AtRest(r, u), NEW f,
           f = ContentIn(r), NEW q, NEW v, Reread(q, v, f),
           NEW s \in Symbol,
           \A t \in Symbol : rank[t] < rank[s] => q[t] = r[t]
    PROVE  q[s] = r[s]
<1>1. ASSUME NEW x \in Widget, rank[x] = rank[s]
      PROVE  Agree(q, r, Needs(x))
  <2>1. Symbol \subseteq Widget
    BY Kinds
  <2>2. \A t \in Needs(x) \cap Symbol : rank[t] < rank[s]
    BY <1>1, <2>1, NeedsBelow
  <2>3. QED
    BY <2>2 DEF Agree
<1>2. CASE s \notin Option
  <2>1. s \in Widget /\ s \notin Choice /\ s \in Symbol \ Option
    BY <1>2, Kinds
  <2>2. Agree(q, r, Mentions(s))
    BY <1>1, <2>1 DEF Needs
  <2>3. Agree(q, r, CondSymbols(s))
    BY <2>2 DEF Agree, CondSymbols, Mentions, MentionsConditions
  <2>4. HoldsIn(q, s) = HoldsIn(r, s)
    BY <2>1, <2>3, AgreeHolds
  <2>5. \A y : AssignedIn(q, s, y) = AssignedIn(r, s, y)
    BY <2>2, AgreeAssigned
  <2>6. /\ r[s] = IF HoldsIn(r, s) THEN AssignedIn(r, s, u[s]) ELSE TypeDefault[s]
        /\ q[s] = IF HoldsIn(q, s) THEN AssignedIn(q, s, v[s]) ELSE TypeDefault[s]
        /\ v[s] = f[s]
    BY <2>1 DEF AtRest, Reread
  <2>7. f[s] = IF HoldsIn(r, s) THEN r[s] ELSE Unset
    BY <2>1 DEF ContentIn, ShownIn
  <2>8. CASE HoldsIn(r, s)
    <3>1. q[s] = AssignedIn(r, s, AssignedIn(r, s, u[s]))
      BY <2>4, <2>5, <2>6, <2>7, <2>8
    <3>2. QED
      BY <2>6, <2>8, <3>1, AssignedTwice
  <2>9. CASE ~HoldsIn(r, s)
    BY <2>4, <2>6, <2>9
  <2>10. QED
    BY <2>8, <2>9
<1>3. CASE s \in Option
  <2>1. PICK c : c = Parent(s)
    OBVIOUS
  <2>2. c \in Choice /\ s \in Range(Children[c]) /\ c \in Widget
    BY <1>3, <2>1, OptionHasParent, Kinds
  <2>3. rank[c] = rank[s]
    BY <1>3, <2>1 DEF Layered
  <2>4. HoldsIn(q, c) = HoldsIn(r, c)
    BY <1>1, <2>2, <2>3, AgreeHolds DEF Needs
  <2>5. PICK n \in Range(Children[c]) : \A o \in Range(Children[c]) :
             r[o] = IF ~HoldsIn(r, c) THEN TypeDefault[o]
                    ELSE IF o = n THEN 2 ELSE 0
    BY <2>2 DEF AtRest
  <2>6. PICK m \in Range(Children[c]) : \A o \in Range(Children[c]) :
             q[o] = IF ~HoldsIn(q, c) THEN TypeDefault[o]
                    ELSE IF o = m THEN 2 ELSE 0
    BY <2>2 DEF AtRest, Reread
  <2>7. n \in Option /\ Parent(n) = c /\ n \in Symbol
    BY <2>2, OwnChoice, Kinds
  <2>8. CASE HoldsIn(r, c)
    <3>1. f[n] = 2
      BY <2>5, <2>7, <2>8 DEF ContentIn, ShownIn
    <3>2. q[n] = 2
      BY <2>4, <2>7, <2>8, <3>1 DEF Reread, ShownIn
    <3>3. n = m
      BY <2>4, <2>6, <2>8, <3>2
    <3>4. QED
      BY <2>2, <2>4, <2>5, <2>6, <2>8, <3>3
  <2>9. CASE ~HoldsIn(r, c)
    BY <2>2, <2>4, <2>5, <2>6, <2>9
  <2>10. QED
    BY <2>8, <2>9
<1>4. QED
  BY <1>2, <1>3

(* Layer by layer, all of them do.                                         *)
LEMMA Determined ==
    ASSUME NEW rank, Layered(rank), NEW f, Written(f), NEW q, NEW v, Reread(q, v, f)
    PROVE  ContentIn(q) = f
<1>1. PICK r, u : AtRest(r, u) /\ f = ContentIn(r)
  BY DEF Written
<1> DEFINE S == {n \in Nat : \A s \in Symbol : rank[s] < n => q[s] = r[s]}
<1>2. \A s \in Symbol : rank[s] \in Nat
  BY Kinds DEF Layered
<1>3. 0 \in S
  BY <1>2
<1>4. ASSUME NEW n \in Nat, n \in S
      PROVE  n + 1 \in S
  <2>1. ASSUME NEW s \in Symbol, rank[s] < n + 1
        PROVE  q[s] = r[s]
    <3>1. \A t \in Symbol : rank[t] < rank[s] => q[t] = r[t]
      BY <1>2, <1>4, <2>1
    <3>2. QED
      BY <1>1, <3>1, LayerDetermined
  <2>2. QED
    BY <2>1
<1>5. \A n \in Nat : n \in S
  <2> HIDE DEF S
  <2>1. QED
    BY <1>3, <1>4, SetInduction
<1>6. \A s \in Symbol : q[s] = r[s]
  <2>1. SUFFICES ASSUME NEW s \in Symbol PROVE q[s] = r[s]
    OBVIOUS
  <2>2. rank[s] + 1 \in Nat /\ rank[s] < rank[s] + 1
    BY <1>2
  <2>3. rank[s] + 1 \in S
    BY <1>5, <2>2
  <2>4. QED
    BY <2>2, <2>3
<1>7. q = r
  BY <1>1, <1>6 DEF AtRest, Reread
<1>8. QED
  BY <1>1, <1>7
-----------------------------------------------------------------------------
(* The configuration at rest.                                              *)

LEMMA RestSettled ==
    ASSUME NEW rank, PlainOptions, UserDecides, WInv(rank), Quiescent
    PROVE  /\ \A w \in Widget \ Option : active[w] = Cond(w)
           /\ \A x \in Symbol \ Option :
                 /\ Attended(x) => UpToDate(x)
                 /\ UpToDate(x) \/ Emptied(x)
<1>1. Waiting = {} /\ \A x : ~Heeded(x)
  BY NoneHeededAtRest
<1>2. \A x : ~Awaits(x)
  BY <1>1 DEF Awaits, SetTasks
<1>3. QED
  BY <1>1, <1>2 DEF WInv, VInv, ShownOrHeeded, ValuedOrHeeded, Attended

(* What is read of the widgets at rest is a configuration at rest, unless  *)
(* one of them is empty, and what is saved is what is read of them.        *)
LEMMA ViewAtRest ==
    ASSUME NEW rank, PlainOptions, UserDecides, WInv(rank), SInv, Quiescent,
           \A x \in Symbol \ Option : UpToDate(x)
    PROVE  /\ AtRest(View, user_value)
           /\ Content = ContentIn(View)
           /\ \A o \in Option : ShownIn(View, o) => View[o] = value[o]
<1>1. /\ \A w \in Widget \ Option : active[w] = Cond(w)
      /\ \A x \in Symbol \ Option :
            active[x] => value[x] = Assigned(x, user_value[x])
  BY RestSettled DEF UpToDate
<1>2. /\ value \in [Symbol -> Setting] /\ active \in [Widget -> BOOLEAN]
      /\ \A o \in Option : active[Parent(o)] => active[o]
  BY DEF WInv, VInv, IInv, DataOK, OptionsShown
<1>3. /\ \A w : Cond(w) = HoldsIn(View, w)
      /\ \A w \in Symbol : \A x : Assigned(w, x) = AssignedIn(View, w, x)
  BY Viewed DEF IsViewed
<1>4. \A s \in Symbol : View[s] = Value(s)
  BY DEF View
<1>5. ASSUME NEW s \in Symbol
      PROVE  /\ IsActive(s) <=> ShownIn(View, s)
             /\ View[s] = IF ShownIn(View, s) THEN value[s] ELSE TypeDefault[s]
  <2>1. IsActive(s) <=> ShownIn(View, s)
    <3>1. CASE s \in Option
      <4>1. Parent(s) \in Widget \ Option
        BY <3>1, OptionHasParent, Kinds
      <4>2. active[Parent(s)] <=> HoldsIn(View, Parent(s))
        BY <1>1, <1>3, <4>1
      <4>3. QED
        BY <1>2, <3>1, <4>2 DEF IsActive, Live, ShownIn
    <3>2. CASE s \notin Option
      <4>1. s \in Widget \ Option
        BY <3>2, Kinds
      <4>2. QED
        BY <1>1, <1>3, <3>2, <4>1 DEF IsActive, Live, ShownIn
    <3>3. QED
      BY <3>1, <3>2
  <2>2. QED
    BY <1>4, <2>1 DEF Value, Reads, IsActive
<1>6. Content = ContentIn(View)
  <2>1. ASSUME NEW s \in Symbol, s \in Text, IsActive(s)
        PROVE  value[s] # Blank
    <3>1. s \notin Option /\ s \notin Bool
      BY <2>1, WidgetsDisjoint
    <3>2. value[s] = Assigned(s, user_value[s])
      BY <1>1, <2>1, <3>1 DEF IsActive, Live
    <3>3. QED
      BY <2>1, <3>1, <3>2 DEF Assigned, EmptyText, Blank
  <2>2. QED
    BY <1>5, <2>1 DEF Content, ContentIn
<1>7. View \in [Symbol -> Setting]
  BY <1>2, ValueType DEF View
<1>8. ASSUME NEW s \in Symbol \ Option
      PROVE  View[s] = IF HoldsIn(View, s) THEN AssignedIn(View, s, user_value[s])
                       ELSE TypeDefault[s]
  <2>1. active[s] <=> HoldsIn(View, s)
    BY <1>1, <1>3, Kinds
  <2>2. ShownIn(View, s) <=> HoldsIn(View, s)
    BY DEF ShownIn
  <2>3. QED
    BY <1>1, <1>3, <1>5, <2>1, <2>2
<1>9. ASSUME NEW c \in Choice
      PROVE  \E n \in Range(Children[c]) :
                \A o \in Range(Children[c]) :
                   View[o] = IF ~HoldsIn(View, c) THEN TypeDefault[o]
                             ELSE IF o = n THEN 2 ELSE 0
  <2>1. PICK n \in Range(Children[c]) : Agrees(value, c, n, Len(Children[c]))
    BY RestSettles DEF SInv, Settled
  <2>2. ASSUME NEW o \in Range(Children[c])
        PROVE  View[o] = IF ~HoldsIn(View, c) THEN TypeDefault[o]
                         ELSE IF o = n THEN 2 ELSE 0
    <3>1. o \in Option /\ Parent(o) = c /\ o \in Symbol
      BY OwnChoice, Kinds
    <3>2. PICK i \in 1..Len(Children[c]) : o = Children[c][i]
      BY OptionsOfChoice
    <3>3. value[o] = IF o = n THEN 2 ELSE 0
      BY <2>1, <3>2 DEF Agrees
    <3>4. ShownIn(View, o) <=> HoldsIn(View, c)
      BY <3>1 DEF ShownIn
    <3>5. QED
      BY <1>5, <3>1, <3>3, <3>4
  <2>3. QED
    BY <2>2
<1>10. AtRest(View, user_value)
  BY <1>7, <1>8, <1>9 DEF AtRest
<1>11. QED
  BY <1>5, <1>6, <1>10, Kinds

-----------------------------------------------------------------------------
(* From Load(saved) to rest.                                               *)

(* The user's values are those of the file, or will be.                    *)
FileRead ==
    /\ \A t \in SetTasks : t.to = saved[t.of]
    /\ \A s \in Symbol : /\ user_value[s] \in {Unset, saved[s]}
                         /\ user_value[s] = saved[s] \/ Awaits(s)

(* So are the options chosen.                                              *)
ChoicesRead ==
    \A o \in Option : /\ chosen[Parent(o)] = o => saved[o] = 2
                      /\ saved[o] = 2 => chosen[Parent(o)] = o \/ Awaits(o)

(* o is chosen, no selection that waits says otherwise, and o is at y or   *)
(* will be.                                                                *)
Underway(o) ==
    /\ chosen[Parent(o)] = o
    /\ \A t \in Waiting :
          t.do = "select" /\ Parent(t.of) = Parent(o) => (t.selected <=> t.of = o)
    /\ \/ value[o] = 2
       \/ \E t \in Waiting : \/ t.do = "evaluate" /\ t.of = Parent(o)
                             \/ t.do = "select" /\ t.of = o

(* An option of the file is on its way unless its choice has still to be   *)
(* evaluated.                                                              *)
OptionsRead ==
    \A o \in Option :
        saved[o] = 2 => Guarded(Parent(o)) \in Waiting \/ Underway(o)

Reloading == FileRead /\ ChoicesRead /\ OptionsRead

(* No symbol was left empty, or none will stay so.                         *)
NoneEmptied == \A x \in Symbol \ Option : Attended(x)

(* The inductive invariant.                                                *)
RInv ==
    /\ saved # None /\ Readable(saved) => Written(saved)
    /\ ~edited => saved # None
    /\ ~edited /\ Readable(saved) => Reloading /\ NoneEmptied

(* What was written has one option of each choice at most.                 *)
OneEach ==
    \A o, p \in Option :
        Parent(o) = Parent(p) /\ saved[o] = 2 /\ saved[p] = 2 => o = p

LEMMA OneEachWritten ==
    ASSUME Written(saved)
    PROVE  OneEach
<1>1. PICK r, u : AtRest(r, u) /\ saved = ContentIn(r)
  BY DEF Written
<1>2. SUFFICES ASSUME NEW o \in Option, NEW p \in Option, Parent(o) = Parent(p),
                      saved[o] = 2, saved[p] = 2
               PROVE  o = p
  BY DEF OneEach
<1>3. PICK c \in Choice : /\ c = Parent(o) /\ c = Parent(p)
                          /\ o \in Range(Children[c]) /\ p \in Range(Children[c])
  BY <1>2, OptionHasParent
<1>4. o \in Symbol /\ p \in Symbol
  BY Kinds
<1>5. HoldsIn(r, c) /\ r[o] = 2 /\ r[p] = 2
  BY <1>1, <1>2, <1>3, <1>4 DEF ContentIn, ShownIn, Unset
<1>6. PICK n \in Range(Children[c]) : \A x \in Range(Children[c]) :
             r[x] = IF ~HoldsIn(r, c) THEN TypeDefault[x]
                    ELSE IF x = n THEN 2 ELSE 0
  BY <1>1 DEF AtRest
<1>7. QED
  BY <1>3, <1>5, <1>6

(* The calls that a step leaves.                                           *)
Quiet == {"evaluate", "propagate", "modules"}

MovesOn ==
    /\ \A t \in Waiting' : t \in Waiting \/ t.do \in Quiet
    /\ \A t \in Waiting : t \in Waiting' \/ (work[Depth] # <<>> /\ t = Call)

LEMMA ThenMovesOn ==
    ASSUME CallsOK, work[Depth] # <<>>, NEW ts \in Seq(Task), Then(ts),
           \A t \in Range(ts) : t.do \in Quiet
    PROVE  MovesOn
<1>1. /\ Waiting \ {Call} \subseteq Waiting'
      /\ Waiting' \subseteq Waiting \cup Range(ts)
  BY ThenWaiting
<1>2. QED
  BY <1>1 DEF MovesOn

LEMMA TellsMovesOn ==
    ASSUME CallsOK, work[Depth] # <<>>, NEW w, NEW ts, Tells(ts, w), Then(ts)
    PROVE  MovesOn
<1>1. \A t \in Range(ts) : t.do \in Quiet
  BY DEF Tells, Propagate, InvalidateTristate, Quiet
<1>2. QED
  BY <1>1, ThenMovesOn DEF Tells

LEMMA NothingMovesOn ==
    ASSUME CallsOK, work[Depth] # <<>>, Then(<<>>)
    PROVE  MovesOn
<1>1. << >> \in Seq(Task) /\ Range(<< >>) = {}
  BY RangeEmpty
<1>2. PICK ts : ts \in Seq(Task) /\ Range(ts) = {} /\ Then(ts)
  BY <1>1, Zenon
<1>3. QED
  BY <1>2, ThenMovesOn

LEMMA EnterMovesOn ==
    ASSUME CallsOK, work[Depth] # <<>>, NEW w \in Widget,
           NEW inner \in Seq(Task), NEW rest \in Seq(Task), Enter(w, inner, rest),
           \A t \in Range(inner) \cup Range(rest) : t.do \in Quiet
    PROVE  MovesOn
<1>1. /\ Waiting \ {Call} \subseteq Waiting'
      /\ Waiting' \subseteq Waiting \cup Range(inner) \cup Range(rest)
  BY EnterWaiting
<1>2. QED
  BY <1>1 DEF MovesOn

(* Every call but a choice's evaluation leaves no selection behind it, and *)
(* every call that waits goes on waiting.                                  *)
LEMMA EngineMovesOn ==
    ASSUME IInv, Engine, ~EvaluateChoice, ~LoadFails
    PROVE  MovesOn
<1>1. CASE EvaluateWidget
  <2>1. work[Depth] # <<>> /\ Call \in Task /\ Call.do = "evaluate"
    BY <1>1, Runs DEF IInv, EvaluateWidget
  <2>2. PICK ts : Tells(ts, Call.of) /\ Then(ts)
    BY <1>1, <2>1, TaskFields, NotifyTells DEF EvaluateWidget
  <2>3. QED
    BY <2>1, <2>2, TellsMovesOn DEF IInv
<1>2. CASE EvaluateOption
  <2>1. work[Depth] # <<>> /\ Call \in Task /\ Call.do = "evaluate"
    BY <1>2, Runs DEF IInv, EvaluateOption
  <2>2. PICK ts : Tells(ts, Call.of) /\ Then(ts)
    BY <1>2, <2>1, TaskFields, NotifyTells DEF EvaluateOption
  <2>3. QED
    BY <2>1, <2>2, TellsMovesOn DEF IInv
<1>3. CASE SelectOption
  <2>1. work[Depth] # <<>> /\ Call \in Task /\ Call.do = "select"
    BY <1>3, Runs DEF IInv, SelectOption
  <2>2. Call.of \in Widget
    BY <2>1, TaskFields, Kinds
  <2>3. Then(Notify(Call.of)) \/ Then(<<>>)
    BY <1>3 DEF SelectOption
  <2>4. CASE Then(Notify(Call.of))
    <3>1. PICK ts : Tells(ts, Call.of) /\ Then(ts)
      BY <2>2, <2>4, NotifyTells
    <3>2. QED
      BY <2>1, <3>1, TellsMovesOn DEF IInv
  <2>5. QED
    BY <2>1, <2>3, <2>4, NothingMovesOn DEF IInv
<1>4. CASE PropagateEnd \/ ModulesChange
  <2>1. work[Depth] # <<>> /\ Then(<<>>)
    BY <1>4 DEF PropagateEnd, ModulesChange, Running
  <2>2. QED
    BY <2>1, NothingMovesOn DEF IInv
<1>5. ASSUME PropagateSkip \/ PropagateVisit
      PROVE  /\ work[Depth] # <<>> /\ Call.of \in Widget
             /\ Evaluate(Head(Call.to)) \in Task
             /\ Propagate(Call.of, Tail(Call.to)) \in Task
  <2>1. work[Depth] # <<>> /\ Call \in Task /\ Call.do = "propagate" /\ Call.to # <<>>
    BY <1>5, Runs DEF IInv, PropagateSkip, PropagateVisit
  <2>2. Call.of \in Widget /\ Call.to \in Seq(Widget)
    BY <2>1, TaskFields
  <2>3. Head(Call.to) \in Widget /\ Tail(Call.to) \in Seq(Widget)
    BY <2>1, <2>2, HeadTailProperties
  <2>4. QED
    BY <2>1, <2>2, <2>3 DEF Evaluate, Propagate, Task
<1>6. \A w, to : Evaluate(w).do = "evaluate" /\ Propagate(w, to).do = "propagate"
  BY DEF Evaluate, Propagate
<1>7. CASE PropagateSkip
  <2>1. PICK t : t = Propagate(Call.of, Tail(Call.to))
    OBVIOUS
  <2>2. t \in Task /\ t.do = "propagate"
    BY <1>5, <1>6, <1>7, <2>1
  <2>3. PICK ts : ts \in Seq(Task) /\ Range(ts) = {t} /\ Then(ts)
    BY <1>7, <2>1, <2>2, OneCalm DEF PropagateSkip
  <2>4. QED
    BY <1>5, <1>7, <2>2, <2>3, ThenMovesOn DEF IInv, Quiet
<1>8. CASE PropagateVisit
  <2>1. PICK e, t : e = Evaluate(Head(Call.to)) /\ t = Propagate(Call.of, Tail(Call.to))
    OBVIOUS
  <2>2. e \in Task /\ e.do = "evaluate" /\ t \in Task /\ t.do = "propagate"
    BY <1>5, <1>6, <1>8, <2>1
  <2>3. /\ <<e>> \in Seq(Task) /\ Range(<<e>>) = {e}
        /\ <<t>> \in Seq(Task) /\ Range(<<t>>) = {t}
    BY <2>2, OneCalm
  <2>4. Enter(Call.of, <<e>>, <<t>>)
    BY <1>8, <2>1 DEF PropagateVisit
  <2>5. PICK inner, rest : /\ inner \in Seq(Task) /\ Range(inner) = {e}
                           /\ rest \in Seq(Task) /\ Range(rest) = {t}
                           /\ Enter(Call.of, inner, rest)
    BY <2>3, <2>4, Zenon
  <2>6. QED
    BY <1>5, <1>8, <2>2, <2>5, EnterMovesOn DEF IInv, Quiet
<1>9. CASE PropagateReturn
  BY <1>9, ReturnWaiting DEF IInv, MovesOn
<1>10. CASE EvaluateGuarded
  <2>1. work[Depth] # <<>> /\ Call \in Task /\ Call.do = "guarded"
    BY <1>10, Runs DEF IInv, EvaluateGuarded
  <2>2. Call.of \in Widget
    BY <2>1, TaskFields, Kinds
  <2>3. PICK e : e = Evaluate(Call.of)
    OBVIOUS
  <2>4. e \in Task /\ e.do = "evaluate"
    BY <2>2, <2>3 DEF Evaluate, Task
  <2>5. /\ <<e>> \in Seq(Task) /\ Range(<<e>>) = {e}
        /\ <<>> \in Seq(Task) /\ Range(<<>>) = {}
    BY <2>4, OneCalm, RangeEmpty
  <2>6. Enter(Call.of, <<e>>, <<>>)
    BY <1>10, <2>3 DEF EvaluateGuarded
  <2>7. PICK inner, rest : /\ inner \in Seq(Task) /\ Range(inner) = {e}
                           /\ rest \in Seq(Task) /\ Range(rest) = {}
                           /\ Enter(Call.of, inner, rest)
    BY <2>5, <2>6, Zenon
  <2>8. QED
    BY <2>1, <2>2, <2>4, <2>7, EnterMovesOn DEF IInv, Quiet
<1>11. CASE LoadOption
  <2>1. work[Depth] # <<>> /\ Call \in Task /\ Call.do = "set"
    BY <1>11, Runs DEF IInv, LoadOption
  <2>2. Call.of \in Widget
    BY <2>1, TaskFields, Kinds
  <2>3. Then(Changed(Call.of)) \/ Then(<<>>)
    BY <1>11 DEF LoadOption
  <2>4. CASE Then(Changed(Call.of))
    <3>1. PICK ts : Tells(ts, Call.of) /\ Then(ts)
      BY <2>2, <2>4, NotifyTells
    <3>2. QED
      BY <2>1, <3>1, TellsMovesOn DEF IInv
  <2>5. QED
    BY <2>1, <2>3, <2>4, NothingMovesOn DEF IInv
<1>12. QED
  BY <1>1, <1>2, <1>3, <1>4, <1>7, <1>8, <1>9, <1>10, <1>11 DEF Engine

-----------------------------------------------------------------------------
(* What the calls do to the chosen options.                                *)

KeepsChosen ==
    \A o \in Option : /\ saved[o] = 2 /\ chosen[Parent(o)] = o
                            => chosen'[Parent(o)] = o
                      /\ chosen'[Parent(o)] = o => saved[o] = 2

(* An option set to what the file says of it is chosen if it is the file's *)
(* and unsettles no other that is.                                         *)
LEMMA SetAsRead ==
    ASSUME OneEach, ChoicesRead, chosen \in [Choice -> Option \cup {None}],
           NEW o \in Option, NEW x \in {Unset, saved[o]},
           chosen' = [chosen EXCEPT ![Parent(o)] = Chosen(o, x)]
    PROVE  KeepsChosen /\ (x = 2 => chosen'[Parent(o)] = o)
<1>1. PICK c \in Choice : c = Parent(o)
  BY OptionHasParent
<1>2. chosen'[c] = Chosen(o, x) /\ \A d \in Choice \ {c} : chosen'[d] = chosen[d]
  BY <1>1
<1>3. Chosen(o, x) = IF x = 2 THEN o ELSE chosen[c]
  <2>1. ~(x = 0 /\ chosen[c] = o)
    BY <1>1 DEF ChoicesRead, Unset
  <2>2. QED
    BY <1>1, <2>1 DEF Chosen
<1>4. x = 2 => saved[o] = 2
  BY DEF Unset
<1>5. ASSUME NEW p \in Option
      PROVE  /\ saved[p] = 2 /\ chosen[Parent(p)] = p => chosen'[Parent(p)] = p
             /\ chosen'[Parent(p)] = p => saved[p] = 2
  <2>1. Parent(p) \in Choice
    BY OptionHasParent
  <2>2. CASE Parent(p) = c
    BY <1>1, <1>2, <1>3, <1>4, <2>2 DEF OneEach, ChoicesRead
  <2>3. CASE Parent(p) # c
    BY <1>2, <2>1, <2>3 DEF ChoicesRead
  <2>4. QED
    BY <2>2, <2>3
<1>6. QED
  BY <1>1, <1>2, <1>3, <1>5 DEF KeepsChosen

LEMMA SameChosen ==
    ASSUME ChoicesRead, chosen' = chosen
    PROVE  KeepsChosen
BY DEF ChoicesRead, KeepsChosen

(* An option restores the file's value, for nothing else sets it.          *)
LEMMA EvaluateOptionChooses ==
    ASSUME OptionsUnselected, IInv, OneEach, FileRead, ChoicesRead, EvaluateOption
    PROVE  KeepsChosen
<1>1. PICK o \in Option : o = Call.of
  BY DEF EvaluateOption
<1>2. Restored(o) = user_value[o]
  BY DEF OptionsUnselected, Restored, isSelected
<1>3. Restored(o) \in {Unset, saved[o]}
  BY <1>2, Kinds DEF FileRead
<1>4. PICK x \in {Unset, saved[o]} : x = Restored(o)
  BY <1>3
<1>5. chosen' = chosen \/ chosen' = [chosen EXCEPT ![Parent(o)] = Chosen(o, x)]
  BY <1>1, <1>4 DEF EvaluateOption
<1>6. chosen \in [Choice -> Option \cup {None}]
  BY DEF IInv, DataOK
<1>7. QED
  BY <1>5, <1>6, SetAsRead, SameChosen

(* loadConfig() gives an option the value of the file.                     *)
LEMMA LoadOptionReads ==
    ASSUME IInv, saved \in [Symbol -> Setting], Readable(saved),
           OneEach, FileRead, ChoicesRead, LoadOption, KeepsSets
    PROVE  /\ FileRead' /\ ChoicesRead' /\ KeepsChosen
           /\ \A o \in Option : value'[o] = value[o]
<1>1. work[Depth] # <<>> /\ Call.do = "set" /\ Call \in Task
  BY Runs DEF IInv, LoadOption
<1>2. PICK s \in Symbol : s = Call.of
  BY <1>1, TaskFields
<1>3. Call \in SetTasks
  BY <1>1, CallWaits DEF IInv, SetTasks
<1>4. Call.to = saved[s]
  BY <1>2, <1>3 DEF FileRead
<1>5. Read(s, Call.to) = saved[s] /\ saved[s] # Blank
  BY <1>4 DEF Readable
<1>6. /\ user_value \in [Symbol -> Setting] /\ value \in [Symbol -> Setting]
      /\ chosen \in [Choice -> Option \cup {None}]
      /\ saved' = saved
  BY DEF IInv, DataOK, LoadOption, file
<1>7. user_value' = IF saved[s] = Unset THEN user_value
                    ELSE [user_value EXCEPT ![s] = saved[s]]
  BY <1>2, <1>5 DEF LoadOption
<1>8. user_value'[s] = saved[s] /\ \A x \in Symbol \ {s} : user_value'[x] = user_value[x]
  BY <1>6, <1>7 DEF FileRead
<1>9. \A x : Awaits(x) => Awaits(x)' \/ x = s
  BY <1>2 DEF Awaits, KeepsSets
<1>10. FileRead'
  <2>1. \A t \in SetTasks' : t.to = saved'[t.of]
    BY <1>6 DEF FileRead, KeepsSets
  <2>2. ASSUME NEW x \in Symbol
        PROVE  /\ user_value'[x] \in {Unset, saved'[x]}
               /\ user_value'[x] = saved'[x] \/ Awaits(x)'
    BY <1>6, <1>8, <1>9 DEF FileRead
  <2>3. QED
    BY <2>1, <2>2 DEF FileRead
<1>11. KeepsChosen /\ (s \in Option /\ saved[s] = 2 => chosen'[Parent(s)] = s)
  <2>1. CASE s \in Option
    <3>1. PICK x \in {Unset, saved[s]} : x = saved[s]
      OBVIOUS
    <3>2. chosen' = [chosen EXCEPT ![Parent(s)] = Chosen(s, x)]
      BY <1>2, <1>5, <2>1, <3>1 DEF LoadOption
    <3>3. QED
      BY <1>6, <2>1, <3>1, <3>2, SetAsRead
  <2>2. CASE s \notin Option
    BY <1>2, <2>2, SameChosen DEF LoadOption
  <2>3. QED
    BY <2>1, <2>2
<1>12. ChoicesRead'
  BY <1>6, <1>9, <1>11 DEF ChoicesRead, KeepsChosen
<1>13. \A o \in Option : value'[o] = value[o]
  <2>1. CASE s \in Option
    BY <1>2, <2>1 DEF LoadOption
  <2>2. CASE s \notin Option
    <3>1. \E y : value' = [value EXCEPT ![s] = y]
      BY <1>2, <2>2 DEF LoadOption
    <3>2. QED
      BY <1>6, <2>2, <3>1, Kinds
  <2>3. QED
    BY <2>1, <2>2
<1>14. QED
  BY <1>10, <1>11, <1>12, <1>13

(* Any other call sets nothing.                                            *)
LEMMA OthersRead ==
    ASSUME OptionsUnselected, IInv, OneEach, FileRead, ChoicesRead, Engine,
           ~LoadOption, ~LoadFails, KeepsSets
    PROVE  FileRead' /\ ChoicesRead' /\ KeepsChosen
<1>1. ~Running("set")
  BY DEF Engine, EvaluateWidget, EvaluateOption, EvaluateChoice, SelectOption,
     PropagateEnd, PropagateSkip, PropagateVisit, PropagateReturn,
     EvaluateGuarded, ModulesChange, Running
<1>2. SetTasks' = SetTasks /\ \A x : Awaits(x)' <=> Awaits(x)
  BY <1>1 DEF KeepsSets, Awaits
<1>3. user_value' = user_value /\ saved' = saved
  BY DEF Engine, EvaluateWidget, EvaluateOption, EvaluateChoice, SelectOption,
     PropagateEnd, PropagateSkip, PropagateVisit, PropagateReturn,
     EvaluateGuarded, ModulesChange, state, file
<1>4. EvaluateOption \/ chosen' = chosen
  BY DEF Engine, EvaluateWidget, EvaluateChoice, SelectOption,
     PropagateEnd, PropagateSkip, PropagateVisit, PropagateReturn,
     EvaluateGuarded, ModulesChange, state
<1>5. KeepsChosen
  BY <1>4, EvaluateOptionChooses, SameChosen
<1>6. FileRead'
  BY <1>2, <1>3 DEF FileRead
<1>7. ChoicesRead'
  BY <1>2, <1>3, <1>5 DEF ChoicesRead, KeepsChosen
<1>8. QED
  BY <1>5, <1>6, <1>7
-----------------------------------------------------------------------------
(* What the calls do to the selections under way.                          *)

(* A call that neither selects an option nor evaluates a choice.           *)
LEMMA OptionsStay ==
    ASSUME IInv, Engine, ~EvaluateChoice, ~LoadFails, ~SelectOption,
           ~EvaluateGuarded, KeepsChosen, OptionsRead,
           \A o \in Option : value'[o] = value[o]
    PROVE  OptionsRead'
<1>1. MovesOn
  BY EngineMovesOn
<1>2. saved' = saved
  BY DEF Engine, EvaluateWidget, EvaluateOption, PropagateEnd, PropagateSkip,
     PropagateVisit, PropagateReturn, ModulesChange, LoadOption, file
<1>3. work[Depth] # <<>> =>
         /\ Call.do \notin {"select", "guarded"}
         /\ Call.do = "evaluate" => Call.of \notin Choice
  <2>1. \A o \in Option : o \notin Choice
    BY Kinds
  <2>2. QED
    BY <2>1 DEF Engine, EvaluateWidget, EvaluateOption, PropagateEnd,
       PropagateSkip, PropagateVisit, PropagateReturn, ModulesChange,
       LoadOption, Running, Call
<1>4. ASSUME NEW t \in Waiting,
             \/ t.do \in {"select", "guarded"}
             \/ t.do = "evaluate" /\ t.of \in Choice
      PROVE  t \in Waiting'
  BY <1>1, <1>3, <1>4 DEF MovesOn
<1>5. ASSUME NEW o \in Option, saved[o] = 2
      PROVE  Guarded(Parent(o)) \in Waiting' \/ Underway(o)'
  <2>1. CASE Guarded(Parent(o)) \in Waiting
    BY <1>4, <2>1 DEF Guarded
  <2>2. CASE Underway(o)
    <3>1. Parent(o) \in Choice
      BY OptionHasParent
    <3>2. chosen'[Parent(o)] = o /\ value'[o] = value[o]
      BY <1>5, <2>2 DEF KeepsChosen, Underway
    <3>3. \A t \in Waiting' : t.do = "select" => t \in Waiting
      BY <1>1 DEF MovesOn, Quiet
    <3>4. \A t \in Waiting' : t.do = "select" /\ Parent(t.of) = Parent(o)
                                  => (t.selected <=> t.of = o)
      BY <2>2, <3>3 DEF Underway
    <3>5. \/ value[o] = 2
          \/ \E t \in Waiting' : \/ t.do = "evaluate" /\ t.of = Parent(o)
                                 \/ t.do = "select" /\ t.of = o
      BY <1>4, <2>2, <3>1 DEF Underway
    <3>6. QED
      BY <3>2, <3>4, <3>5 DEF Underway
  <2>3. QED
    BY <1>5, <2>1, <2>2 DEF OptionsRead
<1>6. QED
  BY <1>2, <1>5 DEF OptionsRead

(* An option that is selected.                                             *)
LEMMA SelectOptionReads ==
    ASSUME IInv, SelectOption, OptionsRead
    PROVE  OptionsRead'
<1>1. /\ work[Depth] # <<>> /\ Call \in Task /\ Call.do = "select"
  BY Runs DEF IInv, SelectOption
<1>2. PICK p \in Option : p = Call.of
  BY <1>1, TaskFields
<1>3. MovesOn
  BY EngineMovesOn DEF Engine, SelectOption, EvaluateChoice, LoadFails, Running
<1>4. saved' = saved /\ chosen' = chosen /\ value \in [Symbol -> Setting]
  BY DEF SelectOption, file, IInv, DataOK
<1>5. /\ \A o \in Option \ {p} : value'[o] = value[o]
      /\ Call.selected => value'[p] = 2
  <2>1. \/ value' = [value EXCEPT ![p] = IF Call.selected THEN 2 ELSE 0]
        \/ value' = value /\ value[p] = (IF Call.selected THEN 2 ELSE 0)
    BY <1>2 DEF SelectOption
  <2>2. QED
    BY <1>4, <2>1, Kinds
<1>6. Call \in Waiting
  BY <1>1, CallWaits DEF IInv
<1>7. ASSUME NEW o \in Option, saved[o] = 2
      PROVE  Guarded(Parent(o)) \in Waiting' \/ Underway(o)'
  <2>1. CASE Guarded(Parent(o)) \in Waiting
    <3>1. Guarded(Parent(o)) # Call
      BY <1>1 DEF Guarded
    <3>2. QED
      BY <1>3, <2>1, <3>1 DEF MovesOn
  <2>2. CASE Underway(o)
    <3>1. \A t \in Waiting' : t.do = "select" => t \in Waiting
      BY <1>3 DEF MovesOn, Quiet
    <3>2. \A t \in Waiting' : t.do = "select" /\ Parent(t.of) = Parent(o)
                                  => (t.selected <=> t.of = o)
      BY <2>2, <3>1 DEF Underway
    <3>3. CASE o = p
      <4>1. Call.selected
        BY <1>1, <1>2, <1>6, <2>2, <3>3 DEF Underway
      <4>2. QED
        BY <1>4, <1>5, <2>2, <3>2, <3>3, <4>1 DEF Underway
    <3>4. CASE o # p
      <4>1. ASSUME NEW t \in Waiting, \/ t.do = "evaluate"
                                      \/ t.do = "select" /\ t.of = o
            PROVE  t \in Waiting'
        BY <1>1, <1>2, <1>3, <3>4, <4>1 DEF MovesOn
      <4>2. QED
        BY <1>4, <1>5, <2>2, <3>2, <3>4, <4>1 DEF Underway
    <3>5. QED
      BY <3>3, <3>4
  <2>3. QED
    BY <1>7, <2>1, <2>2 DEF OptionsRead
<1>8. QED
  BY <1>4, <1>7 DEF OptionsRead

(* A choice that loadConfig() evaluates: every option has been read.       *)
LEMMA EvaluateGuardedReads ==
    ASSUME NEW rank, IInv, Orderly(rank), EvaluateGuarded,
           saved \in [Symbol -> Setting], ChoicesRead, OptionsRead
    PROVE  OptionsRead'
<1>1. /\ work[Depth] # <<>> /\ Call.do = "guarded" /\ Depth = 1 /\ Call \in Task
  BY Runs, OutermostCall DEF IInv, EvaluateGuarded
<1>2. PICK c \in Choice : c = Call.of
  BY <1>1, TaskFields
<1>3. PICK e : e = Evaluate(c)
  OBVIOUS
<1>4. e \in Task /\ e.do = "evaluate" /\ e.of = c
  BY <1>2, <1>3, Kinds DEF Evaluate, Task
<1>5. /\ Waiting \ {Call} \subseteq Waiting'
      /\ Waiting' \subseteq Waiting \cup {e}
      /\ e \in Waiting'
  <2>1. /\ <<e>> \in Seq(Task) /\ Range(<<e>>) = {e}
        /\ << >> \in Seq(Task) /\ Range(<< >>) = {}
    BY <1>4, OneCalm, RangeEmpty
  <2>2. Enter(c, <<e>>, << >>)
    BY <1>2, <1>3 DEF EvaluateGuarded
  <2>3. PICK inner, rest : /\ inner \in Seq(Task) /\ Range(inner) = {e}
                           /\ rest \in Seq(Task) /\ Range(rest) = {}
                           /\ Enter(c, inner, rest)
    BY <2>1, <2>2, Zenon
  <2>4. c \in Widget
    BY Kinds
  <2>5. QED
    BY <1>1, <2>3, <2>4, EnterWaiting DEF IInv
<1>6. \A t \in Waiting : t.do \in {"guarded", "modules"}
  <2>1. PICK q \in Seq(Task) : q = work[1]
    BY <1>1, Levels DEF IInv
  <2>2. q # <<>> /\ q[1].do = "guarded" /\ AfterSet(q)
    BY <1>1, <2>1, HeadTailProperties DEF Call, Orderly
  <2>3. Len(q) \in Nat /\ Len(q) # 0
    BY <2>2, LenProperties, EmptySeq
  <2>4. \A j \in 1..Len(q) : q[j].do \in {"guarded", "modules"}
    <3>1. 1 \in 1..Len(q) /\ \A j \in 1..Len(q) : j = 1 \/ 1 < j
      BY <2>3
    <3>2. QED
      BY <2>2, <3>1 DEF AfterSet
  <2>5. 1..Depth = {1}
    BY <1>1
  <2>6. Waiting = Range(q)
    BY <2>1, <2>5 DEF Waiting
  <2>7. Range(q) = {q[j] : j \in 1..Len(q)}
    BY RangeEquality
  <2>8. QED
    BY <2>4, <2>6, <2>7
<1>7. /\ saved' = saved /\ chosen' = chosen /\ value' = value
      /\ \A o \in Option : saved[o] = 2 => chosen[Parent(o)] = o
  BY <1>6 DEF EvaluateGuarded, file, state, ChoicesRead, Awaits, SetTasks
<1>8. \A t \in Waiting' : t.do # "select"
  BY <1>4, <1>5, <1>6
<1>9. ASSUME NEW o \in Option, saved[o] = 2
      PROVE  Guarded(Parent(o)) \in Waiting' \/ Underway(o)'
  <2>1. CASE Parent(o) = c
    BY <1>4, <1>5, <1>7, <1>8, <1>9, <2>1 DEF Underway
  <2>2. CASE Parent(o) # c
    <3>1. CASE Guarded(Parent(o)) \in Waiting
      <4>1. Guarded(Parent(o)) # Call
        BY <1>2, <2>2 DEF Guarded
      <4>2. QED
        BY <1>5, <3>1, <4>1
    <3>2. CASE Underway(o)
      <4>1. value[o] = 2
        BY <1>6, <3>2 DEF Underway
      <4>2. QED
        BY <1>7, <1>8, <1>9, <4>1 DEF Underway
    <3>3. QED
      BY <1>9, <3>1, <3>2 DEF OptionsRead
  <2>3. QED
    BY <2>1, <2>2
<1>10. QED
  BY <1>7, <1>9 DEF OptionsRead

(* A choice selects the option chosen for it and deselects the others.     *)
SelectsFor(ts, c, n) ==
    \A t \in Range(ts) : t.selected <=> t.of = n

LEMMA SelectsForMade ==
    ASSUME NEW c \in Choice, NEW n, NEW chg \in BOOLEAN
    PROVE  SelectsFor(SelectOptions(c, n, chg), c, n)
<1>1. PICK ts : ts = SelectOptions(c, n, chg)
  OBVIOUS
<1>2. ts \in Seq(Task)
  BY <1>1, SelectMade DEF SelectsAll
<1>3. PICK m \in Nat : m = Len(Children[c])
  BY OptionsOfChoice
<1>4. /\ Len(ts) = m
      /\ \A i \in 1..m : ts[i] = Select(Children[c][i], Children[c][i] = n, chg)
  BY <1>1, <1>3 DEF SelectOptions
<1>5. Range(ts) = {ts[i] : i \in 1..m}
  BY <1>2, <1>4, RangeEquality
<1>6. \A i \in 1..m : ts[i].selected <=> ts[i].of = n
  <2>1. SUFFICES ASSUME NEW i \in 1..m PROVE ts[i].selected <=> ts[i].of = n
    OBVIOUS
  <2>2. PICK x, b : x = Children[c][i] /\ b = (x = n)
    OBVIOUS
  <2>3. ts[i] = Select(x, b, chg)
    BY <1>4, <2>2
  <2>4. ts[i].of = x /\ ts[i].selected = b
    BY <2>3 DEF Select
  <2>5. QED
    BY <2>2, <2>4
<1>7. SelectsFor(ts, c, n)
  BY <1>5, <1>6 DEF SelectsFor
<1>8. QED
  BY <1>1, <1>7

LEMMA EvaluateChoiceReads ==
    ASSUME IInv, EvaluateChoice, OptionsRead
    PROVE  OptionsRead'
<1>1. /\ work[Depth] # <<>> /\ Call.do = "evaluate" /\ Call \in Task
  BY Runs DEF IInv, EvaluateChoice
<1>2. PICK c \in Choice : c = Call.of
  BY DEF EvaluateChoice
<1>3. PICK chg \in BOOLEAN : chg = (active[c] # Cond(c))
  OBVIOUS
<1>4. PICK n : /\ chosen[c] # None => n = chosen[c]
               /\ Then(SelectOptions(c, n, chg))
  BY <1>2, <1>3 DEF EvaluateChoice
<1>5. PICK ts : SelectsAll(ts, c, chg) /\ SelectsFor(ts, c, n) /\ Then(ts)
  BY <1>4, SelectMade, SelectsForMade
<1>6. /\ Waiting \ {Call} \subseteq Waiting'
      /\ Waiting' \subseteq Waiting \cup Range(ts)
      /\ Range(ts) \subseteq Waiting'
  BY <1>1, <1>5, ThenWaiting DEF IInv, SelectsAll
<1>7. saved' = saved /\ chosen' = chosen /\ value' = value
  BY DEF EvaluateChoice, file
<1>8. \A t \in Range(ts) : t.do = "select" /\ Parent(t.of) = c
  BY <1>5, OwnChoice DEF SelectsAll
<1>9. ASSUME NEW o \in Option, saved[o] = 2
      PROVE  Guarded(Parent(o)) \in Waiting' \/ Underway(o)'
  <2>1. CASE Guarded(Parent(o)) \in Waiting
    <3>1. Guarded(Parent(o)) # Call
      BY <1>1 DEF Guarded
    <3>2. QED
      BY <1>6, <2>1, <3>1
  <2>2. CASE Underway(o) /\ Parent(o) = c
    <3>1. n = o
      <4>1. None \notin Option
        BY TreeTyped, Kinds
      <4>2. QED
        BY <1>4, <2>2, <4>1 DEF Underway
    <3>2. o \in Range(Children[c])
      BY <2>2, OptionHasParent
    <3>3. \A t \in Waiting' : t.do = "select" /\ Parent(t.of) = Parent(o)
                                  => (t.selected <=> t.of = o)
      BY <1>5, <1>6, <2>2, <3>1 DEF Underway, SelectsFor
    <3>4. \E t \in Waiting' : t.do = "select" /\ t.of = o
      BY <1>5, <1>6, <3>2 DEF SelectsAll
    <3>5. QED
      BY <1>7, <2>2, <3>3, <3>4 DEF Underway
  <2>3. CASE Underway(o) /\ Parent(o) # c
    <3>1. \A t \in Waiting' : t.do = "select" /\ Parent(t.of) = Parent(o)
                                  => (t.selected <=> t.of = o)
      BY <1>6, <1>8, <2>3 DEF Underway
    <3>2. ASSUME NEW t \in Waiting, \/ t.do = "evaluate" /\ t.of = Parent(o)
                                    \/ t.do = "select" /\ t.of = o
          PROVE  t \in Waiting'
      BY <1>1, <1>2, <1>6, <2>3, <3>2
    <3>3. QED
      BY <1>7, <2>3, <3>1, <3>2 DEF Underway
  <2>4. QED
    BY <1>9, <2>1, <2>2, <2>3 DEF OptionsRead
<1>10. QED
  BY <1>7, <1>9 DEF OptionsRead

LEMMA EngineReads ==
    ASSUME NEW rank, Layered(rank), PlainOptions, ModulesUnheard, OptionsUnselected,
           IInv, OptionsShown, Orderly(rank), LoadsOne,
           saved # None, Readable(saved), Written(saved), Reloading, Engine
    PROVE  Reloading'
<1>1. ~LoadFails
  BY NothingMalformed
<1>2. KeepsSets
  BY <1>1, EvaluateWidgetCares, EvaluateOptionCares, EvaluateChoiceCares,
     SelectOptionCares, PropagateEndCares, PropagateSkipCares,
     PropagateVisitCares, PropagateReturnCares, EvaluateGuardedCares,
     ModulesChangeCares, LoadOptionCares DEF Engine
<1>3. saved \in [Symbol -> Setting] /\ value \in [Symbol -> Setting] /\ OneEach
  BY OneEachWritten DEF IInv, DataOK
<1>4. /\ FileRead' /\ ChoicesRead' /\ KeepsChosen
      /\ LoadOption => \A o \in Option : value'[o] = value[o]
  BY <1>1, <1>2, <1>3, LoadOptionReads, OthersRead DEF Reloading
<1>5. CASE EvaluateChoice
  BY <1>4, <1>5, EvaluateChoiceReads DEF Reloading
<1>6. CASE SelectOption
  BY <1>4, <1>6, SelectOptionReads DEF Reloading
<1>7. CASE EvaluateGuarded
  BY <1>3, <1>4, <1>7, EvaluateGuardedReads DEF Reloading
<1>8. CASE ~EvaluateChoice /\ ~SelectOption /\ ~EvaluateGuarded
  <2>1. \A o \in Option : value'[o] = value[o]
    <3>1. CASE EvaluateWidget
      <4>1. \/ value' = value
            \/ \E w, y : w \notin Option /\ value' = [value EXCEPT ![w] = y]
        BY <3>1 DEF EvaluateWidget
      <4>2. QED
        BY <1>3, <4>1, Kinds
    <3>2. CASE ModulesChange
      <4>1. \A o \in Option : o \notin Tristate
        BY WidgetsDisjoint
      <4>2. QED
        BY <3>2, <4>1, Kinds DEF ModulesChange
    <3>3. CASE UNCHANGED value
      BY <3>3
    <3>4. QED
      BY <1>1, <1>4, <1>8, <3>1, <3>2, <3>3 DEF Engine, EvaluateOption,
         PropagateEnd, PropagateSkip, PropagateVisit, PropagateReturn, state
  <2>2. OptionsRead'
    BY <1>1, <1>4, <1>8, <2>1, OptionsStay DEF Reloading
  <2>3. QED
    BY <1>4, <2>2 DEF Reloading
<1>9. QED
  BY <1>5, <1>6, <1>7, <1>8

(* The file saved is about to be read.                                     *)
LEMMA LoadReads ==
    ASSUME IInv, saved # None, Load(saved)
    PROVE  Reloading' /\ NoneEmptied'
<1>1. saved \in [Symbol -> Setting] /\ saved' = saved
  BY DEF IInv, DataOK, Load
<1>2. PICK ts : Loads(ts, saved) /\ work' = <<ts>>
  <2>1. PICK f \in [Symbol -> Setting \cup {Malformed}] : f = saved
    BY <1>1
  <2>2. QED
    BY <2>1, LoadMade
<1>3. Waiting' = Range(ts)
  BY <1>2, StartWaits
<1>4. /\ \A s \in Symbol : user_value'[s] = Unset
      /\ \A c \in Choice : chosen'[c] = None
  BY DEF Load
<1>5. /\ \A t \in SetTasks' : t.to = saved[t.of]
      /\ \A s \in Symbol : Awaits(s)'
  <2>1. \A t \in SetTasks' : t.to = saved[t.of]
    BY <1>2, <1>3 DEF Loads, SetTasks
  <2>2. ASSUME NEW s \in Symbol
        PROVE  Awaits(s)'
    <3>1. PICK t \in Range(ts) : t.do = "set" /\ t.of = s
      BY <1>2 DEF Loads, SetValue
    <3>2. t \in SetTasks'
      BY <1>3, <3>1 DEF SetTasks
    <3>3. QED
      BY <3>1, <3>2 DEF Awaits
  <2>3. QED
    BY <2>1, <2>2
<1>6. FileRead'
  BY <1>1, <1>4, <1>5 DEF FileRead
<1>7. ChoicesRead'
  <2>1. None \notin Option
    BY TreeTyped, Kinds
  <2>2. QED
    BY <1>1, <1>4, <1>5, <2>1, OptionHasParent, Kinds DEF ChoicesRead
<1>8. OptionsRead'
  BY <1>2, <1>3, OptionHasParent DEF OptionsRead, Loads
<1>9. NoneEmptied'
  BY <1>5 DEF NoneEmptied, Attended
<1>10. QED
  BY <1>6, <1>7, <1>8, <1>9 DEF Reloading

(* Nothing else that the user does leaves the file as it was loaded.       *)
LEMMA UserReads ==
    ASSUME NEW rank, PlainOptions, UserDecides, WInv(rank), SInv, RInv, User
    PROVE  RInv'
<1>1. IInv
  BY DEF SInv
<1>2. CASE Save
  <2>1. Quiescent /\ saved' = Content /\ edited' = TRUE
    BY <1>2 DEF Save
  <2>2. ASSUME Readable(Content)
        PROVE  Written(Content)
    <3>1. ASSUME NEW x \in Symbol \ Option
          PROVE  UpToDate(x)
      <4>1. CASE active[x] /\ x \notin Text
        <5>1. Content[x] = value[x]
          BY <4>1 DEF Content, IsActive, Live
        <5>2. ~Emptied(x)
          BY <2>2, <5>1 DEF Readable, Emptied
        <5>3. QED
          BY <2>1, <5>2, RestSettled
      <4>2. CASE ~active[x]
        BY <4>2 DEF UpToDate
      <4>3. CASE x \in Text
        BY <2>1, <4>3, RestSettled DEF Emptied
      <4>4. QED
        BY <4>1, <4>2, <4>3
    <3>2. AtRest(View, user_value) /\ Content = ContentIn(View)
      BY <2>1, <3>1, ViewAtRest
    <3>3. QED
      BY <3>2 DEF Written
  <2>3. Readable(saved)' => Readable(Content)
    BY <2>1 DEF Readable, Read
  <2>4. Written(Content) => Written(saved)'
    <3>1. Written(Content) => Written(saved')
      BY <2>1
    <3>2. QED
      BY <3>1 DEF Written
  <2>5. QED
    BY <2>1, <2>2, <2>3, <2>4 DEF RInv
<1>3. ASSUME NEW f \in Files \cup ({saved} \ {None}), Load(f)
      PROVE  RInv'
  <2>1. saved' = saved /\ edited' = (f # saved) /\ f # None
    BY <1>3, InputsTyped DEF Load
  <2>2. f = saved => Reloading' /\ NoneEmptied'
    BY <1>1, <1>3, <2>1, LoadReads
  <2>3. CASE f = saved
    BY <2>1, <2>2, <2>3 DEF RInv
  <2>4. CASE f # saved
    BY <2>1, <2>4 DEF RInv
  <2>5. QED
    BY <2>3, <2>4
<1>4. CASE edited' = TRUE /\ saved' = saved
  BY <1>4 DEF RInv
<1>5. QED
  BY <1>2, <1>3, <1>4 DEF User, ClickBool, ClickTristate, EditText, UserSets,
     PickOption

LEMMA NextReads ==
    ASSUME NEW rank, Layered(rank), PlainOptions, ModulesUnheard, UserDecides,
           OptionsUnselected, WInv(rank), SInv, RInv, [Next]_vars
    PROVE  RInv'
<1>1. CASE Engine
  <2>1. saved' = saved /\ edited' = edited
    BY <1>1 DEF Engine, EvaluateWidget, EvaluateOption, EvaluateChoice,
       SelectOption, PropagateEnd, PropagateSkip, PropagateVisit,
       PropagateReturn, EvaluateGuarded, ModulesChange, LoadOption, LoadFails, file
  <2>2. IInv /\ OptionsShown /\ Orderly(rank) /\ LoadsOne
    BY DEF WInv, VInv
  <2>3. ASSUME ~edited, Readable(saved)
        PROVE  Reloading' /\ NoneEmptied'
    <3>1. Reloading'
      BY <1>1, <2>2, <2>3, EngineReads DEF RInv
    <3>2. \A t \in SetTasks : t.to # Blank
      <4>1. \A t \in SetTasks : t.of \in Symbol /\ t.to = saved[t.of]
        BY <2>2, <2>3 DEF LoadsOne, RInv, Reloading, FileRead
      <4>2. QED
        BY <2>3, <4>1 DEF Readable
    <3>3. MindsAll
      BY <1>1, <2>2, <3>2, EngineMinds
    <3>4. \A x \in Widget \ Option : Careful(x)
      BY <1>1, NextCares DEF WInv, VInv, Next
    <3>5. ASSUME NEW x \in Symbol \ Option
          PROVE  Attended(x)'
      <4>1. Careful(x) /\ Minds(x) /\ Attended(x)
        BY <2>3, <3>3, <3>4, Kinds DEF MindsAll, RInv, NoneEmptied
      <4>2. QED
        BY <4>1, MindsKeeps
    <3>6. QED
      BY <3>1, <3>5 DEF NoneEmptied
  <2>4. QED
    BY <2>1, <2>3 DEF RInv
<1>2. CASE User
  BY <1>2, UserReads
<1>3. CASE UNCHANGED vars
  <2>1. /\ Waiting' = Waiting /\ SetTasks' = SetTasks
        /\ \A x : Heeded(x)' = Heeded(x) /\ Awaits(x)' = Awaits(x)
    BY <1>3 DEF vars, SetTasks, Waiting, Depth, Heeded, Awaits
  <2>2. \A x : UpToDate(x)' = UpToDate(x)
    BY <1>3 DEF vars, UpToDate, Assigned, getDefault, isSelected, Value,
                Reads, Live, Env, EnvOf
  <2>3. \A x : Attended(x)' = Attended(x)
    BY <2>1, <2>2 DEF Attended
  <2>4. NoneEmptied' = NoneEmptied
    BY <2>3 DEF NoneEmptied
  <2>5. Reloading' = Reloading
    BY <1>3, <2>1 DEF vars, Reloading, FileRead, ChoicesRead, OptionsRead, Underway
  <2>6. saved' = saved /\ edited' = edited
    BY <1>3 DEF vars
  <2>7. QED
    BY <2>4, <2>5, <2>6 DEF RInv
<1>4. QED
  BY <1>1, <1>2, <1>3 DEF Next

(* At rest the file has been read, and it leaves nothing else to show.     *)
LEMMA LeadsBack ==
    ASSUME NEW rank, Layered(rank), PlainOptions, UserDecides,
           WInv(rank), SInv, RInv
    PROVE  RoundTrip
<1>1. SUFFICES ASSUME Quiescent, ~edited, Readable(saved) PROVE Content = saved
  BY DEF RoundTrip
<1>2. /\ AtRest(View, user_value)
      /\ Content = ContentIn(View)
      /\ \A o \in Option : ShownIn(View, o) => View[o] = value[o]
  <2>1. \A x \in Symbol \ Option : UpToDate(x)
    BY <1>1, RestSettled DEF RInv, NoneEmptied
  <2>2. QED
    BY <1>1, <2>1, ViewAtRest
<1>3. Waiting = {}
  BY <1>1, NoneHeededAtRest
<1>4. Written(saved) /\ Reloading
  BY <1>1 DEF RInv
<1>5. \A s \in Symbol : user_value[s] = saved[s]
  BY <1>3, <1>4 DEF Reloading, FileRead, Awaits, SetTasks
<1>6. \A o \in Option : saved[o] = 2 => value[o] = 2
  BY <1>3, <1>4 DEF Reloading, OptionsRead, Underway
<1>7. Reread(View, user_value, saved)
  BY <1>2, <1>5, <1>6 DEF Reread
<1>8. ContentIn(View) = saved
  BY <1>4, <1>7, Determined
<1>9. QED
  BY <1>2, <1>8

(* Where nothing but a selection overrides the user and no file the user   *)
(* loads has a string without its quotes: whatever was done since          *)
(* generateConfigFileContent() wrote a .config, when loadConfig() has read *)
(* it back and every choice has been evaluated, the same lines would be    *)
(* written again, option by option - although the file says nothing of     *)
(* what was hidden, and the options are set in the order of optiondb, each *)
(* amid the values of the configuration before.  This is so of every file  *)
(* in which no int or hex is empty and no string has a backslash or a = in *)
(* it, which is what RoundTrip asks (Readable).                            *)
THEOREM SavedComesBack ==
    ASSUME NEW rank, Layered(rank), PlainOptions, ModulesUnheard, UserDecides,
           OptionsUnselected, Files \subseteq [Symbol -> Setting]
    PROVE  Spec /\ Shown /\ Valued => []RoundTrip
<1>1. Init => RInv
  BY DEF Init, RInv
<1>2. WInv(rank) /\ SInv /\ RInv /\ [Next]_vars => RInv'
  BY NextReads
<1>3. WInv(rank) /\ SInv /\ RInv => RoundTrip
  BY LeadsBack
<1>4. QED
  BY <1>1, <1>2, <1>3, ValuesInvariance, DecidedAlways, PTL DEF Spec
=============================================================================
