---------------------------- MODULE Configurator ----------------------------
(***************************************************************************)
(* The widget engine of the configuration view                             *)
(* (resources/config/main.js).                                             *)
(*                                                                         *)
(* Every symbol, choice, menu and comment of the Kconfig tree is a widget. *)
(* A change of a widget's value propagates to the widgets whose            *)
(* expressions mention it (its referrers), which evaluate their condition, *)
(* take a value and propagate in turn.  JavaScript runs one user event to  *)
(* its end before the next, but the calls in between nest: a widget may be *)
(* evaluated while others are half way through their own change.  The      *)
(* model therefore makes one step of each call.                            *)
(*                                                                         *)
(* propagateCallstack is the code's own global, which propagate() consults *)
(* to stop loops.  work is the JavaScript call stack cut at the entries of *)
(* propagateCallstack: work[k] lists, in order, the calls still to be made *)
(* at a moment when propagateCallstack has length k - 1.                   *)
(***************************************************************************)
EXTENDS KconfigExpr, FiniteSetsExt, Functions

CONSTANTS
    Bool, Tristate, Number, Text,  \* symbols by type; Number is int and hex
    Choice,                        \* choices, which have no symbol
    Label,                         \* menus and comments
    Children,                      \* the options of each choice, in order
    Database,                      \* optiondb: all symbols, in order
    LabelList, ChoiceList,         \* menus then comments; choices, in order
    Node,                          \* the expressions of each widget
    TypeDefault,                   \* _typedefault of the symbols
    Promptless,                    \* symbols without a prompt
    Modules,                       \* the MODULES symbol, or None
    None,
    Shipped,                       \* what kconfig2json.py may have computed;
                                   \* an option's user_value, sent as a
                                   \* number, is never recognised: Unset
    Files,                         \* .config files the user may load
    Entries,                       \* what the user may type in a text field
    ReadBack,                      \* what a text with a backslash or a =
                                   \* in it reads back as: Unset, if lost
    ShowInactive,                  \* are inactive options selectable?
    Saving                         \* bound: does the user ever save?

Unset == -1                        \* undefined or null
Blank == -2                        \* an int or hex whose field is emptied
Malformed == -3                    \* in a file: a string without its quotes

Option == UNION {Range(Children[c]) : c \in Choice}
Parent(o) == CHOOSE c \in Choice : o \in Range(Children[c])
Stateful == Bool \cup Tristate \cup Option
Symbol == Stateful \cup Number \cup Text
Widget == Symbol \cup Choice \cup Label

Setting == Nat \cup {Unset, Blank}

MentionsConditions(w) ==
    UNION {SymbolsIn(Node[w][field]) :
              field \in {"cond", "dep", "rev_dep", "weak_rev_dep"}}

MentionsDefaults(w) ==
    UNION {SymbolsIn(Node[w].defaults[i].cond)
              \cup SymbolsIn(Node[w].defaults[i].expr)
              \cup {Node[w].defaults[i].name}
           : i \in DOMAIN Node[w].defaults}

MentionsRanges(w) ==
    UNION {SymbolsIn(Node[w].ranges[i]) : i \in DOMAIN Node[w].ranges}

(* The symbols whose change a widget has to hear of: those in its          *)
(* condition, its reverse dependencies, its defaults and the conditions of *)
(* its ranges.                                                             *)
Mentions(w) == MentionsConditions(w) \cup MentionsDefaults(w) \cup MentionsRanges(w)

DependOrder == Database \o LabelList \o ChoiceList

(* The elements of s that are in T, in their order.                        *)
Filtered(s, T) ==
    LET kept[i \in 0..Len(s)] ==
          IF i = 0 THEN <<>>
          ELSE IF s[i] \in T THEN Append(kept[i - 1], s[i]) ELSE kept[i - 1]
    IN  kept[Len(s)]

(* An option knows its choice from the start; every other referrer is      *)
(* added when it collects its dependencies.                                *)
Referrers ==
    [w \in Widget |->
        LET parent == IF w \in Option THEN <<Parent(w)>> ELSE <<>>
        IN  parent \o Filtered(DependOrder,
                               {x \in Widget : w \in Mentions(x)} \ Range(parent))]

ASSUME WidgetsDisjoint ==
    /\ \A w \in Bool \cup Tristate \cup Number \cup Text \cup Choice \cup Label :
          w \notin Option
    /\ \A w \in Choice \cup Label :
          w \notin Bool \cup Tristate \cup Number \cup Text
    /\ \A w \in Number \cup Text : w \notin Bool \cup Tristate
    /\ Number \cap Text = {}

ASSUME TreeTyped ==
    /\ Children \in [Choice -> Seq(Option)]
    /\ \A c \in Choice : Children[c] # <<>>
    /\ Database \in Seq(Symbol)
    /\ LabelList \in Seq(Label)
    /\ ChoiceList \in Seq(Choice)
    /\ TypeDefault \in [Symbol -> Setting]
    /\ Modules \in Bool \cup {None}
    /\ None \notin Widget
    /\ Entries \subseteq Nat

(* constructTree() collects every choice in choiceList, and an option is a *)
(* widget of the one choice it was laid out in.                            *)
ASSUME ChoicesApart ==
    /\ Choice \subseteq Range(ChoiceList)
    /\ \A c, d \in Choice :
          Range(Children[c]) \cap Range(Children[d]) # {} => c = d

(* Every widget is collected, and so asked what it depends on.             *)
ASSUME AllCollected ==
    /\ Symbol \subseteq Range(Database)
    /\ Label \subseteq Range(LabelList)

ASSUME ExpressionsTyped ==
    \A w \in Widget :
        /\ \A field \in {"cond", "dep", "rev_dep", "weak_rev_dep"} :
              IsExpr(Node[w][field])
        /\ \A i \in DOMAIN Node[w].defaults :
              IsExpr(Node[w].defaults[i].cond) /\ IsExpr(Node[w].defaults[i].expr)
        /\ \A i \in DOMAIN Node[w].ranges : IsExpr(Node[w].ranges[i])

ASSUME DefaultsTyped ==
    \A w \in Symbol \cup Choice :
        /\ DOMAIN Node[w].defaults \subseteq Nat
        /\ \A i \in DOMAIN Node[w].defaults :
              /\ Node[w].defaults[i].kind
                    \in {"constant", "reference", "expression"}
              /\ Node[w].defaults[i].default \in Nat
              /\ w \in Choice => Node[w].defaults[i].name \in Range(Children[w])

(* kconfiglib rejects a symbol that depends on itself.                     *)
ASSUME NoSelfReference ==
    \A w \in Widget : w \notin Range(Referrers[w])

(* A default that names a symbol names one of the same type; kconfiglib    *)
(* warns of others.                                                        *)
ASSUME ReferencesAlike ==
    \A w \in Symbol : \A i \in DOMAIN Node[w].defaults :
        LET d == Node[w].defaults[i]
        IN  /\ d.kind = "reference" /\ d.name \in Symbol
                  => \E T \in {Stateful, Number, Text} : {w, d.name} \subseteq T
            /\ d.kind = "expression" => w \in Stateful

(* Only an int or a hex is written without a value.                        *)
ASSUME InputsTyped ==
    /\ Files \subseteq [Symbol -> Setting \cup {Malformed}] /\ None \notin Files
    /\ \A f \in Files, s \in Symbol : f[s] = Blank => s \in Number
    /\ DOMAIN ReadBack \subseteq Nat /\ Range(ReadBack) \subseteq Nat \cup {Unset}
    /\ \A k \in Shipped : /\ k.value \in [Symbol -> Setting]
                          /\ k.user_value \in [Symbol -> Setting]

-----------------------------------------------------------------------------
(* Trees on which the engine settles, whatever the user does.              *)

CondSymbols(w) == SymbolsIn(Node[w].cond) \cup SymbolsIn(Node[w].dep)

(* The widgets are in layers, a choice and its options in one; expressions *)
(* are about lower layers, but a choice may default to one of its options. *)
(* kconfiglib finds a dependency loop in any other tree.                   *)
Layered(rank) ==
    /\ rank \in [Widget -> Nat]
    /\ \A o \in Option : rank[o] = rank[Parent(o)]
    /\ \A x \in Widget : \A s \in Mentions(x) \cap Widget :
          \/ rank[s] < rank[x]
          \/ x \in Choice /\ s \in Range(Children[x]) \ CondSymbols(x)

(* No option has a condition but its choice's, for which kconfig2json.py   *)
(* writes the condition y and no dependency.                               *)
PlainOptions ==
    \A o \in Option : Node[o].cond \in {<<>>, <<Tri(2)>>} /\ Node[o].dep = <<>>

(* No widget depends on a tristate that MODULES may change.                *)
ModulesUnheard ==
    Modules # None => \A w \in Widget : Mentions(w) \cap Tristate = {}

(* Nor is there such a tristate; only bools are selected, none is implied. *)
UserDecides ==
    /\ Modules = None \/ Tristate = {}
    /\ \A s \in Symbol \ Option :
          /\ Node[s].weak_rev_dep = <<>>
          /\ s \notin Bool \ Tristate => Node[s].rev_dep = <<>>

(* Options are neither selected nor implied (kconfiglib: "select/imply has *)
(* no effect on choice symbols").                                          *)
OptionsUnselected ==
    \A o \in Option : Node[o].rev_dep = <<>> /\ Node[o].weak_rev_dep = <<>>

VARIABLES
    active,              \* _active of each widget
    value,               \* _value of each symbol
    user_value,          \* user_value of each symbol
    chosen,              \* user_value of each choice, an option's name
    propagateCallstack,
    work,
    saved,               \* the .config file written last, or None
    edited               \* has anything happened since saved was loaded?

state == <<active, value, user_value, chosen>>
file == <<saved, edited>>
vars == <<active, value, user_value, chosen, propagateCallstack, work,
          saved, edited>>
-----------------------------------------------------------------------------
(* Reading the widgets.                                                    *)

Live(act, w) == act[w] /\ (w \in Option => act[Parent(w)])
IsActive(w) == Live(active, w)

Reads(act, s) == IF Live(act, s) THEN value[s] ELSE TypeDefault[s]
Value(s) == Reads(active, s)

EnvOf(act) ==
    [s \in Symbol |-> IF Reads(act, s) \in {Unset, Blank} THEN 0 ELSE Reads(act, s)]
Env == EnvOf(active)

Cond(w) ==
    IF Node[w].cond # <<>> THEN evaluateCond(Node[w].cond, Env)
    ELSE Node[w].dep # <<>> => evaluateCond(Node[w].dep, Env)

OptionCond(o) == Node[o].dep # <<>> => evaluateCond(Node[o].dep, Env)

isSelected(w) ==
    Node[w].rev_dep # <<>> /\ evaluateCond(Node[w].rev_dep, Env)

YMN(x) == IF x \in 0..2 THEN x ELSE Unset

(* The first default whose condition holds.                                *)
getDefault(w) ==
    LET d == Node[w].defaults
        hits == {i \in DOMAIN d : evaluateCond(d[i].cond, Env)}
        hit == d[Min(hits)]
    IN  IF hits = {} THEN TypeDefault[w]
        ELSE CASE hit.kind = "constant"   -> hit.default
               [] hit.kind = "reference"  -> IF hit.name \in Symbol
                                             THEN Value(hit.name)
                                             ELSE hit.default
               [] hit.kind = "expression" -> YMN(evaluateExpr(hit.expr, Env))

(* The value setValue(x) gives a widget.                                   *)
Assigned(w, x) ==
    LET y == IF x = Unset THEN getDefault(w) ELSE x
    IN  IF w \in Bool /\ isSelected(w) THEN 2
        ELSE IF w \in Text /\ y \in {Unset, Blank} THEN EmptyText ELSE y

\* mutant of Restored: the user's value is not restored
RestoredDefault(w) ==
    IF Node[w].weak_rev_dep # <<>>
    THEN YMN(evaluateExpr(Node[w].weak_rev_dep, Env))
    ELSE IF isSelected(w) THEN 2 ELSE Unset

(* The value _activate() hands to setValue(): the user's, overridden by    *)
(* "select", overridden by "imply".                                        *)
Restored(w) ==
    IF Node[w].weak_rev_dep # <<>>
    THEN YMN(evaluateExpr(Node[w].weak_rev_dep, Env))
    ELSE IF isSelected(w) THEN 2 ELSE user_value[w]

ChoiceDefault(c, act) ==
    LET d == Node[c].defaults
        hits == {i \in DOMAIN d :
                    evaluateCond(d[i].cond, EnvOf(act)) /\ act[d[i].name]}
        live == {i \in DOMAIN Children[c] : act[Children[c][i]]}
    IN  IF hits # {} THEN d[Min(hits)].name
        ELSE IF live # {} THEN Children[c][Min(live)]
        ELSE Children[c][1]

(* generateConfigFileContent() writes a string as it is.  loadConfig()     *)
(* unescapes what it reads of one, and parseConfig() takes a line apart at *)
(* the last = in it: a string with a = is one of no symbol.                *)
Read(s, x) == IF s \in Text /\ x \in DOMAIN ReadBack THEN ReadBack[x] ELSE x

(* The options choice(name, yes) of an option's parent leaves chosen.      *)
Chosen(o, x) ==
    CASE x = 2 -> o
      [] x = 0 /\ chosen[Parent(o)] = o -> None
      [] OTHER -> chosen[Parent(o)]

(* The options and values generateConfigFileContent() writes.              *)
Content ==
    [s \in Symbol |->
        IF ~IsActive(s) THEN Unset
        ELSE IF s \in Text /\ value[s] = Blank THEN EmptyText ELSE value[s]]
-----------------------------------------------------------------------------
(* The calls still to be made.                                             *)

Evaluate(w)       == [do |-> "evaluate", of |-> w]
Propagate(w, to)  == [do |-> "propagate", of |-> w, to |-> to]
Select(o, y, chg) == [do |-> "select", of |-> o, selected |-> y, changed |-> chg]
SetValue(s, x)    == [do |-> "set", of |-> s, to |-> x]
Guarded(c)        == [do |-> "guarded", of |-> c]
InvalidateTristate == [do |-> "modules"]

Task ==
    [do : {"evaluate"}, of : Widget]
      \cup [do : {"propagate"}, of : Widget, to : Seq(Widget)]
      \cup [do : {"select"}, of : Option, selected : BOOLEAN, changed : BOOLEAN]
      \cup [do : {"set"}, of : Symbol, to : Setting \cup {Malformed}]
      \cup [do : {"guarded"}, of : Choice]
      \cup [do : {"modules"}]

Notify(w) == <<Propagate(w, Referrers[w])>>

(* What a changed value sets off.                                          *)
Changed(w) ==
    Notify(w) \o (IF w = Modules THEN <<InvalidateTristate>> ELSE <<>>)

\* mutant of SelectOptions: the others are not deselected
SelectNamed(c, name, changed) == <<Select(name, TRUE, changed)>>

SelectOptions(c, name, changed) ==
    [i \in 1..Len(Children[c]) |->
        Select(Children[c][i], Children[c][i] = name, changed)]

\* mutant of EvaluateChoices: options are set, and no choice selects one
EvaluateNone == <<>>

EvaluateChoices == [i \in 1..Len(ChoiceList) |-> Guarded(ChoiceList[i])]

Depth == Len(work)
Running(kind) == work[Depth] # <<>> /\ Head(work[Depth]).do = kind
Call == Head(work[Depth])

(* The running call returns after making the calls in tasks...             *)
Then(tasks) ==
    /\ work' = [work EXCEPT ![Depth] = tasks \o Tail(@)]
    /\ UNCHANGED propagateCallstack

(* ... or w enters propagateCallstack for the time of inner, after which   *)
(* the calls in rest follow.                                               *)
Enter(w, inner, rest) ==
    /\ propagateCallstack' = Append(propagateCallstack, w)
    /\ work' = Append([work EXCEPT ![Depth] = rest \o Tail(@)], inner)

Quiescent == work = << <<>> >>
-----------------------------------------------------------------------------
Visible(w, val) ==
    LET env == [s \in Symbol |-> IF val[s] \in {Unset, Blank} THEN 0 ELSE val[s]]
        Yes(x) == Node[x].dep # <<>> => KconfigValue(Node[x].dep, env) = 2
    IN  Yes(w) /\ (w \in Option => Yes(Parent(w)))

(* constructTree(): the widgets as kconfig2json.py computed them, the      *)
(* choices about to be evaluated.                                          *)
Init ==
    /\ \E k \in Shipped :
          /\ value = k.value
          /\ user_value = k.user_value
          /\ active = [w \in Widget |-> Visible(w, k.value)]
          /\ chosen = [c \in Choice |->
                LET y == {o \in Range(Children[c]) : k.value[o] = 2}
                IN  IF y = {} THEN None ELSE CHOOSE o \in y : TRUE]
    /\ propagateCallstack = <<>>
    /\ work = << EvaluateChoices
                   \o IF Modules # None THEN <<InvalidateTristate>> ELSE <<>> >>
    /\ saved = None
    /\ edited = TRUE

(* BaseWidget.evaluate() of a widget that is neither option nor choice.    *)
EvaluateWidget ==
    /\ Running("evaluate")
    /\ Call.of \notin Option \cup Choice
    /\ LET w == Call.of
           x == IF Cond(w) /\ w \in Symbol THEN Assigned(w, Restored(w))
                ELSE value[w]
       IN  /\ active' = [active EXCEPT ![w] = Cond(w)]
           /\ IF w \in Symbol /\ x # value[w]
              THEN /\ value' = [value EXCEPT ![w] = x]
                   /\ Then(Changed(w) \o Notify(w))
              ELSE /\ UNCHANGED value
                   /\ Then(Notify(w))
    /\ UNCHANGED <<user_value, chosen, file>>

(* BaseWidget.evaluate() of an option: its own setValue() only tells the   *)
(* parent.                                                                 *)
EvaluateOption ==
    /\ Running("evaluate")
    /\ Call.of \in Option
    /\ LET o == Call.of IN
       /\ active' = [active EXCEPT ![o] = Cond(o)]
       /\ chosen' = IF Cond(o)
                    THEN [chosen EXCEPT ![Parent(o)] = Chosen(o, Restored(o))]
                    ELSE chosen
       /\ Then(Notify(o))
    /\ UNCHANGED <<value, user_value, file>>

(* ChoiceWidget.evaluate().                                                *)
EvaluateChoice ==
    /\ Running("evaluate")
    /\ Call.of \in Choice
    /\ LET c == Call.of
           act == [w \in Widget |->
                      IF w = c THEN Cond(c)
                      ELSE IF w \in Range(Children[c]) /\ Cond(c)
                      THEN OptionCond(w) ELSE active[w]]
           name == IF chosen[c] # None THEN chosen[c]
                   ELSE ChoiceDefault(c, act)
       IN  /\ active' = act
           /\ Then(SelectOptions(c, name, active[c] # Cond(c)))
    /\ UNCHANGED <<value, user_value, chosen, file>>

(* ChoiceOption.select().                                                  *)
SelectOption ==
    /\ Running("select")
    /\ LET o == Call.of
           x == IF Call.selected THEN 2 ELSE 0
       IN  IF Call.changed \/ value[o] # x
           THEN /\ value' = [value EXCEPT ![o] = x]
                /\ Then(Notify(o))
           ELSE /\ UNCHANGED value
                /\ Then(<<>>)
    /\ UNCHANGED <<active, user_value, chosen, file>>

(* propagate(): a referrer already in the call stack is skipped.           *)
PropagateEnd ==
    /\ Running("propagate")
    /\ Call.to = <<>>
    /\ Then(<<>>)
    /\ UNCHANGED <<state, file>>

PropagateSkip ==
    /\ Running("propagate")
    /\ Call.to # <<>>
    /\ Head(Call.to) \in Range(propagateCallstack)
    /\ Then(<<Propagate(Call.of, Tail(Call.to))>>)
    /\ UNCHANGED <<state, file>>

\* mutant of PropagateVisit: the same referrer is visited again
PropagateAgain ==
    /\ Running("propagate")
    /\ Call.to # <<>>
    /\ Head(Call.to) \notin Range(propagateCallstack)
    /\ Enter(Call.of, <<Evaluate(Head(Call.to))>>,
             <<Propagate(Call.of, Call.to)>>)
    /\ UNCHANGED <<state, file>>

PropagateVisit ==
    /\ Running("propagate")
    /\ Call.to # <<>>
    /\ Head(Call.to) \notin Range(propagateCallstack)
    /\ Enter(Call.of, <<Evaluate(Head(Call.to))>>,
             <<Propagate(Call.of, Tail(Call.to))>>)
    /\ UNCHANGED <<state, file>>

\* mutant of PropagateReturn: the entry of the caller is not removed
PropagateKeeps ==
    /\ work[Depth] = <<>>
    /\ Depth > 1
    /\ work' = SubSeq(work, 1, Depth - 1)
    /\ UNCHANGED <<state, file, propagateCallstack>>

PropagateReturn ==
    /\ work[Depth] = <<>>
    /\ Depth > 1
    /\ work' = SubSeq(work, 1, Depth - 1)
    /\ propagateCallstack' =
          SubSeq(propagateCallstack, 1, Len(propagateCallstack) - 1)
    /\ UNCHANGED <<state, file>>

(* A choice evaluated by constructTree() or loadConfig().                  *)
EvaluateGuarded ==
    /\ Running("guarded")
    /\ Enter(Call.of, <<Evaluate(Call.of)>>, <<>>)
    /\ UNCHANGED <<state, file>>

(* invalidateTristate(): TristateWidget.modulesChange() of each tristate,  *)
(* without propagation.                                                    *)
ModulesChange ==
    /\ Running("modules")
    /\ value' = [s \in Symbol |->
          IF s \notin Tristate THEN value[s]
          ELSE IF Value(Modules) = 2 THEN user_value[s]
          ELSE IF value[s] = 1 THEN 2 ELSE value[s]]
    /\ Then(<<>>)
    /\ UNCHANGED <<active, user_value, chosen, file>>

(* One option of loadConfig()'s loop.  A value that is there but empty is  *)
(* no user value, and yet it is the value that is set.                     *)
LoadOption ==
    /\ Running("set")
    /\ Call.to # Malformed
    /\ LET s == Call.of
           x == Read(s, Call.to)
       IN  /\ user_value' = IF x \in {Unset, Blank} THEN user_value
                            ELSE [user_value EXCEPT ![s] = x]
           /\ IF s \in Option
              THEN /\ chosen' = [chosen EXCEPT ![Parent(s)] = Chosen(s, x)]
                   /\ UNCHANGED value
                   /\ Then(<<>>)
              ELSE /\ value' = [value EXCEPT ![s] = Assigned(s, x)]
                   /\ UNCHANGED chosen
                   /\ Then(IF Assigned(s, x) # value[s] THEN Changed(s) ELSE <<>>)
    /\ UNCHANGED <<active, file>>

(* A string that does not match: the warning about it reads m[0] of a null *)
(* m, and the exception ends loadConfig() there.                           *)
LoadFails ==
    /\ Running("set")
    /\ Call.to = Malformed
    /\ work' = << <<>> >>
    /\ UNCHANGED <<state, propagateCallstack, file>>

Engine ==
    \/ EvaluateWidget \/ EvaluateOption \/ EvaluateChoice \/ SelectOption
    \/ PropagateEnd \/ PropagateSkip \/ PropagateVisit \/ PropagateReturn
    \/ EvaluateGuarded \/ ModulesChange \/ LoadOption \/ LoadFails
-----------------------------------------------------------------------------
(* The user, between two runs of the engine.                               *)

Start(tasks) ==
    /\ work' = << tasks >>
    /\ UNCHANGED propagateCallstack

UserSets(w, x) ==
    /\ value' = [value EXCEPT ![w] = x]
    /\ user_value' = [user_value EXCEPT ![w] = x]
    /\ edited' = TRUE
    /\ UNCHANGED <<active, chosen, saved>>

Editable(w) == Quiescent /\ active[w] /\ w \notin Promptless

ClickBool(w) ==
    /\ Editable(w)
    /\ UserSets(w, IF isSelected(w) \/ value[w] # 2 THEN 2 ELSE 0)
    /\ Start(Changed(w))

(* tristateNext(): n, then m if MODULES is y, then y, then n.              *)
ClickTristate(w) ==
    /\ Editable(w)
    /\ LET x == IF value[w] # Unset THEN value[w]
                ELSE IF getDefault(w) # Unset THEN getDefault(w) ELSE 0
       IN  UserSets(w, CASE x = 0 -> IF Modules # None /\ Value(Modules) = 2
                                     THEN 1 ELSE 2
                         [] x = 1 -> 2
                         [] x = 2 -> 0
                         [] OTHER -> x)
    /\ Start(Notify(w))

\* what the user may leave in the field of an int, a hex or a string
Typed(w) == IF w \in Number THEN Entries \cup {Blank} ELSE Entries

EditText(w, x) ==
    /\ Editable(w)
    /\ x # value[w]
    /\ UserSets(w, x)
    /\ Start(Notify(w))

(* The change handler of a choice's drop-down list keeps the choice in     *)
(* propagateCallstack while its options are selected.                      *)
PickOption(o) ==
    LET c == Parent(o) IN
    /\ Editable(c)
    /\ ShowInactive \/ active[o]
    /\ value[o] # 2
    /\ chosen' = [chosen EXCEPT ![c] = o]
    /\ propagateCallstack' = <<c>>
    /\ work' = << <<>>, SelectOptions(c, o, FALSE) >>
    /\ edited' = TRUE
    /\ UNCHANGED <<active, value, user_value, saved>>

(* loadConfig(): every user value is forgotten, then each option takes the *)
(* file's value or, without one, its default; choices are evaluated last.  *)
Load(f) ==
    /\ Quiescent
    /\ user_value' = [s \in Symbol |-> Unset]
    /\ chosen' = [c \in Choice |-> None]
    /\ Start([i \in 1..Len(Database) |-> SetValue(Database[i], f[Database[i]])]
               \o EvaluateChoices)
    /\ edited' = (f # saved)
    /\ UNCHANGED <<active, value, saved, propagateCallstack>>

Save ==
    /\ Saving
    /\ Quiescent
    /\ saved' = Content
    /\ edited' = TRUE
    /\ UNCHANGED <<state, propagateCallstack, work>>

User ==
    \/ \E w \in Bool : ClickBool(w)
    \/ \E w \in Tristate : ClickTristate(w)
    \/ \E w \in Number \cup Text : \E x \in Typed(w) : EditText(w, x)
    \/ \E o \in Option : PickOption(o)
    \/ \E f \in Files \cup ({saved} \ {None}) : Load(f)
    \/ Save

Next == Engine \/ User

Spec == Init /\ [][Next]_vars

(* JavaScript runs a handler to its end.                                   *)
FairSpec == Spec /\ WF_vars(Engine)
-----------------------------------------------------------------------------
(* Properties.                                                             *)

TypeOK ==
    /\ active \in [Widget -> BOOLEAN]
    /\ value \in [Symbol -> Setting]
    /\ user_value \in [Symbol -> Setting]
    /\ chosen \in [Choice -> Option \cup {None}]
    /\ propagateCallstack \in Seq(Widget)
    /\ work \in Seq(Seq(Task))
    /\ Len(work) = Len(propagateCallstack) + 1
    /\ saved \in [Symbol -> Setting] \cup {None}
    /\ edited \in BOOLEAN

(* "This logic is for avoid looping the propagation of value changes": no  *)
(* widget but an option (whose choice evaluates it again from within its   *)
(* own propagation) is entered into propagateCallstack twice.              *)
NoLoop ==
    \A i, j \in 1..Len(propagateCallstack) :
        propagateCallstack[i] = propagateCallstack[j]
            => i = j \/ propagateCallstack[i] \in Option

Shown ==
    /\ \A w \in Widget \ Option : active[w] = Cond(w)
    /\ \A o \in Option : active[Parent(o)] => active[o] = OptionCond(o)

(* A file's CONFIG_N= for an int or hex leaves N empty and without a value *)
(* of the user's: its next evaluation, if there is one, gives it another.  *)
(* An empty string is a value like any other.                              *)
Emptied(w) == w \notin Text /\ value[w] = Blank /\ user_value[w] = Unset

Valued ==
    \A w \in Symbol \ Option :
        active[w] => value[w] = Assigned(w, Restored(w)) \/ Emptied(w)

(* When the engine is at rest, every widget is shown or hidden as its      *)
(* condition says under the values now shown: the order of the nested      *)
(* evaluations leaves none behind.                                         *)
VisibilitySettled == Quiescent => Shown

(* When the engine is at rest, every active widget holds the value its     *)
(* evaluation would give it now: selected ones y, the user's value, or the *)
(* default computed from the values now shown.  An int or hex that was     *)
(* loaded without a value is excepted.                                     *)
ValuesSettled == Quiescent => Valued

(* Whatever becomes of its options' conditions, and whether it is shown or *)
(* not, a choice at rest holds exactly one of its options selected:        *)
(* select() never leaves two behind, however the evaluations of the choice *)
(* nest, nor does a file whose loading ends half way.                      *)
OneSelected ==
    Quiescent => \A c \in Choice :
        Cardinality({o \in Range(Children[c]) : value[o] = 2}) = 1

(* An active choice has exactly one option at y, and it is an active one.  *)
OneOption ==
    Quiescent =>
        \A c \in Choice : active[c] =>
            Cardinality({o \in Range(Children[c]) : Value(o) = 2}) = 1

(* The option that the user or a file has chosen is the one selected, in   *)
(* every choice that is shown: none of the nested evaluations, which read  *)
(* the chosen option at one moment and select it at another, goes by an    *)
(* older one.  (A file whose loading ends half way leaves a chosen option  *)
(* unselected until the choice is evaluated again: the property fails      *)
(* under Options.cfg.)                                                     *)
ChosenStands ==
    Quiescent => \A c \in Choice :
        active[c] /\ chosen[c] # None => value[chosen[c]] = 2

\* no number of the file f is empty, no text has a backslash or a = in it
Readable(f) == \A s \in Symbol : f[s] # Blank /\ Read(s, f[s]) = f[s]

(* Loading the .config written last, whatever was done since, leads back   *)
(* to the configuration that was saved, if the file is one that            *)
(* loadConfig() reads as it was written.                                   *)
RoundTrip ==
    Quiescent /\ ~edited /\ Readable(saved) => Content = saved

(* So does any other .config saved here.  (It fails under Menu.cfg: an     *)
(* emptied number reads back as one without a value, main.js:1520, and a   *)
(* text with a = in it is lost, main.js:1484.)                             *)
SavesComeBack == Quiescent /\ ~edited => Content = saved

(* Every propagation comes to an end.                                      *)
Settles == ~Quiescent ~> Quiescent
=============================================================================
