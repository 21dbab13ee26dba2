--------------------------- MODULE KconfigSymbols ---------------------------
(***************************************************************************)
(* Symbols and choices of kconfiglib.py: what their values are, when a     *)
(* computed value is remembered, and what assigning, loading and writing a *)
(* configuration do to them.                                               *)
(*                                                                         *)
(* A tree is a parsed and finalized Kconfig file: the conditions already   *)
(* carry the dependencies of the enclosing menus, ifs and choices.  It is  *)
(* a record of                                                             *)
(*   order     the defined symbols in definition order                     *)
(*   type      of a symbol or choice: "bool", "tristate", "int", "string"  *)
(*   prompts   the conditions of an item's prompts                         *)
(*   defaults, ranges    sequences of values with a condition              *)
(*   rev_dep, weak_rev_dep, direct_dep                                     *)
(*   members   the symbols of each choice, in order                        *)
(*   optional  the choices that may be switched off                        *)
(*   modules   the set that holds the symbol MODULES, if it is defined     *)
(*   asked     the attributes the program asks for, <<attribute, item>>    *)
(*                                                                         *)
(* n, m and y are 0, 1 and 2.  A text stands for its rank among the texts, *)
(* -1 being the empty one, which is no number and precedes them all.       *)
(***************************************************************************)
EXTENDS KconfigTerms, FiniteSets, FiniteSetsExt, SequencesExt

CONSTANTS Trees,           \* the trees to look at
          TextValues,      \* what may be assigned to an int or a string
          Files            \* .config files not written by this program

VARIABLES tree,            \* the parsed Kconfig files
          dependents,      \* _dependents of each item
          config,          \* what the user has set
          cache,           \* the values computed and not yet invalidated
          reads            \* history: what the cached values were computed from

vars == <<tree, dependents, config, cache, reads>>

-----------------------------------------------------------------------------
(* The shape of a tree.                                                    *)

Empty == -1
NotSet == -2               \* the line "# CONFIG_X is not set"

Symbols == Range(tree.order)
UniqueChoices == DOMAIN tree.members
Items == Symbols \cup UniqueChoices
Tristates == {x \in Items : tree.type[x] \in {"bool", "tristate"}}
ChoiceOf(s) == {c \in UniqueChoices : s \in Range(tree.members[c])}

(* _build_dep: what a change of an item may matter to.                     *)
DependsOn(x) ==
    UNION ({Names(e) : e \in tree.prompts[x]}
       \cup {Names(d.cond) : d \in Range(tree.defaults[x])}
       \cup IF x \in UniqueChoices THEN {} ELSE
            {Names(d.value) : d \in Range(tree.defaults[x])}
       \cup {Names(r.low) \cup Names(r.high) \cup Names(r.cond) :
                r \in Range(tree.ranges[x])}
       \cup {Names(tree.rev_dep[x]), Names(tree.weak_rev_dep[x]),
             Names(tree.direct_dep[x])})

\* mutant of Dependents: without _add_choice_deps
DependentsOfConditions(x) == {y \in Items : x \in DependsOn(y)}

(* _build_dep and then _add_choice_deps.                                   *)
Dependents(x) == {y \in Items : x \in DependsOn(y)} \cup ChoiceOf(x)

-----------------------------------------------------------------------------
(* Values.  Every computation yields its value v together with what it     *)
(* read on the way, r, a set of <<attribute, item>>: the attributes are     *)
(* computed lazily, and their conditions with short-circuits.  u is what   *)
(* the user has set: [user, picked], functions on the items with a user    *)
(* value and on the choices with a user selection.                         *)

Pure(v) == [v |-> v, r |-> {}]
After(a, b) == [b EXCEPT !.r = a.r \cup @]
Biggest(S) == Max(S \cup {0})
Highest(as) == [v |-> Biggest({a.v : a \in as}), r |-> UNION {a.r : a \in as}]

RECURSIVE expr_value(_, _), Compute(_, _)

\* the value of an attribute; reading it is one read, whatever it takes
Look(u, attribute, x) == Compute(u, <<attribute, x>>).v
Read(u, attribute, x) == [v |-> Look(u, attribute, x), r |-> {<<attribute, x>>}]

\* the second operand of an && or || is looked at if it matters
Both(a, b) == IF a.v = 0 THEN a ELSE After(a, [b EXCEPT !.v = Min({a.v, @})])
Either(a, b) == IF a.v = 2 THEN a ELSE After(a, [b EXCEPT !.v = Max({a.v, @})])

(* The first of a sequence that is not n: its index, or 0, and what was    *)
(* read to find it.                                                        *)
FirstOf(as) ==
    LET active == {i \in DOMAIN as : as[i].v # 0}
        first == IF active = {} THEN 0 ELSE Min(active)
    IN  [v |-> first,
         r |-> UNION {as[i].r : i \in {j \in DOMAIN as : first = 0 \/ j <= first}}]

\* MODULES is n, or not there
NoModules(u) == [v |-> \A m \in tree.modules : Look(u, "value", m) = 0,
                 r |-> {<<"value", m>> : m \in tree.modules}]

\* an m becomes a y where m cannot be had
PromotedIf(bool, a) ==
    IF a.v # 1 THEN a ELSE After(a, [bool EXCEPT !.v = IF @ THEN 2 ELSE 1])

(* Choice.tri_value and Choice.type.                                       *)
WantedMode(u, c) == Max({IF c \in tree.optional THEN 0 ELSE 1}
                        \cup {u.user[x] : x \in {c} \cap DOMAIN u.user})

Mode(u, c) ==
    PromotedIf(IF tree.type[c] = "tristate" THEN NoModules(u) ELSE Pure(TRUE),
               [Read(u, "visibility", c) EXCEPT !.v = Min({WantedMode(u, c), @})])

(* Symbol.type and Choice.type: m may be out of question for a tristate.   *)
NotTristate(u, x) ==
    LET modes == Highest({Mode(u, c) : c \in ChoiceOf(x)})
    IN  IF tree.type[x] # "tristate" THEN Pure(TRUE)
        ELSE IF modes.v = 2 THEN [modes EXCEPT !.v = TRUE]
        ELSE After(modes, NoModules(u))

TriValue(u, x) ==
    CASE x \in UniqueChoices   -> Mode(u, x)
      [] x \in Tristates -> Read(u, "value", x)
      [] OTHER           -> Pure(0)

\* str_value of an operand; the text of a number is its value
StrValue(u, e) == IF e.op = "const" THEN Pure(e.arg) ELSE Read(u, "value", e.arg)

Holds(op, x, y) == CASE op = "="  -> x = y
                     [] op = "!=" -> x # y
                     [] op = "<"  -> x < y
                     [] op = "<=" -> x <= y

Related(op, a, b) == After(a, [b EXCEPT !.v = IF Holds(op, a.v, @) THEN 2 ELSE 0])

expr_value(u, e) ==
    CASE e.op = "const" -> Pure(e.arg)
      [] e.op = "ref"   -> TriValue(u, e.arg)
      [] e.op = "not"   -> [expr_value(u, e.l) EXCEPT !.v = 2 - @]
      [] e.op = "and"   -> Both(expr_value(u, e.l), expr_value(u, e.r))
      [] e.op = "or"    -> Either(expr_value(u, e.l), expr_value(u, e.r))
      [] OTHER          -> Related(e.op, StrValue(u, e.l), StrValue(u, e.r))

FirstActive(u, props) ==
    FirstOf([i \in DOMAIN props |-> expr_value(u, props[i].cond)])

\* _visibility: a choice in y mode hides what is m, one in m mode the bools
InChoice(u, x, vis) ==
    LET tristate == tree.type[x] = "tristate"
        asked == {c \in ChoiceOf(x) : IF tristate THEN vis.v = 1
                                      ELSE tree.type[c] = "tristate"}
        modes == {Mode(u, c) : c \in asked}
        hidden == \E m \in modes : tristate <=> m.v = 2
        read == After(vis, [r |-> UNION {m.r : m \in modes}])
    IN  IF hidden THEN After(read, Pure(0))
        ELSE After(read, PromotedIf(NotTristate(u, x), vis))

Visibility(u, x) == InChoice(u, x, Highest({expr_value(u, e) : e \in tree.prompts[x]}))

-----------------------------------------------------------------------------
(* Choice.selection, {} if there is none.                                  *)

\* the default that was hit, or else the first member seen
DefaultOrFirst(c, hit, seen) ==
    IF hit.v # 0 THEN [hit EXCEPT !.v = {tree.defaults[c][@].value.arg}]
    ELSE After(hit, [seen EXCEPT !.v = {tree.members[c][i] : i \in {@} \ {0}}])

_get_selection_from_defaults(u, c) ==
    LET props == tree.defaults[c]
        syms == tree.members[c]
    IN  DefaultOrFirst(c,
            FirstOf([i \in DOMAIN props |->
                        Both(expr_value(u, props[i].cond),
                             Read(u, "visibility", props[i].value.arg))]),
            FirstOf([i \in DOMAIN syms |-> Read(u, "visibility", syms[i])]))

InYMode(mode, a) == IF mode.v = 2 THEN After(mode, a) ELSE [mode EXCEPT !.v = {}]

\* mutant of Selection: the user's selection counts even when it is hidden
SelectionAsPicked(u, c) ==
    InYMode(Mode(u, c), IF c \in DOMAIN u.picked THEN Pure({u.picked[c]})
                        ELSE _get_selection_from_defaults(u, c))

Selection(u, c) ==
    LET picked == {u.picked[x] : x \in {c} \cap DOMAIN u.picked}
        visible == {s \in picked : Look(u, "visibility", s) # 0}
        looked == [v |-> visible, r |-> {<<"visibility", s>> : s \in picked}]
    IN  InYMode(Mode(u, c), IF visible # {} THEN looked
                            ELSE After(looked, _get_selection_from_defaults(u, c)))

-----------------------------------------------------------------------------
(* Symbol.tri_value and Symbol.str_value.  w is _write_to_conf, which they *)
(* set on the way.                                                         *)
Written(a, w) == [v |-> a.v, r |-> a.r, w |-> w]

DefaultOf(u, props, first) ==
    IF first.v = 0 THEN first
    ELSE LET cond == expr_value(u, props[first.v].cond).v
         IN  After(first, [expr_value(u, props[first.v].value) EXCEPT !.v = Min({@, cond})])

DefaultTri(u, s) == DefaultOf(u, tree.defaults[s], FirstActive(u, tree.defaults[s]))

\* an imply counts while the direct dependencies are met
Implied(default, weak, direct) ==
    IF weak.v # 0 /\ direct.v # 0
    THEN Written(After(default, After(direct, [weak EXCEPT !.v = Max({@, default.v})])), TRUE)
    ELSE Written([default EXCEPT !.r = @ \cup weak.r
                                         \cup IF weak.v # 0 THEN direct.r ELSE {}],
                 default.v # 0)

\* a select counts always, and looks at the dependencies to warn
Raised(a, rev, direct) ==
    IF rev.v = 0 THEN [a EXCEPT !.r = @ \cup rev.r]
    ELSE [v |-> Max({a.v, rev.v}), r |-> a.r \cup rev.r \cup direct.r, w |-> TRUE]

\* m cannot be had: the symbol is a bool, or implied by y
LockedBy(bool, weak) == IF bool.v THEN bool ELSE After(bool, [weak EXCEPT !.v = @ = 2])

Unpromoted(u, s, vis) ==
    LET unset == Implied(DefaultTri(u, s), expr_value(u, tree.weak_rev_dep[s]),
                         expr_value(u, tree.direct_dep[s]))
    IN  IF vis.v # 0 /\ s \in DOMAIN u.user
        THEN Written([vis EXCEPT !.v = Min({u.user[s], @})], TRUE)
        ELSE After(vis, [unset EXCEPT !.w = @ \/ vis.v # 0])

PromotedTri(a, locked) == Written(PromotedIf(locked, a), a.w)

PlainTri(u, s) ==
    PromotedTri(Raised(Unpromoted(u, s, Read(u, "visibility", s)),
                       expr_value(u, tree.rev_dep[s]), expr_value(u, tree.direct_dep[s])),
                LockedBy(NotTristate(u, s), expr_value(u, tree.weak_rev_dep[s])))

MemberTri(u, s, c) ==
    LET vis == Read(u, "visibility", s)
        set == s \in DOMAIN u.user /\ u.user[s] # 0
        selected == [Read(u, "selection", c) EXCEPT !.v = IF s \in @ THEN 2 ELSE 0]
    IN  Written(After(vis, IF vis.v = 2 THEN selected
                           ELSE Pure(IF vis.v = 1 /\ set THEN 1 ELSE 0)),
                vis.v # 0)

\* the range of an int that is in effect, a pair or <<>>
Number(t) == IF t = Empty THEN 0 ELSE t
Pair(low, high) == [v |-> <<Number(low.v), Number(high.v)>>, r |-> low.r \cup high.r]

Limits(u, props, first) ==
    IF first.v = 0 THEN [first EXCEPT !.v = <<>>]
    ELSE After(first, Pair(StrValue(u, props[first.v].low), StrValue(u, props[first.v].high)))

Fits(t, limits) == limits = <<>> \/ Number(t) \in limits[1]..limits[2]

Clamped(t, limits) == IF Fits(t, limits) THEN t
                      ELSE IF Number(t) < limits[1] THEN limits[1] ELSE limits[2]

DefaultText(u, props, first) ==
    IF first.v = 0 THEN Written([first EXCEPT !.v = Empty], FALSE)
    ELSE Written(After(first, StrValue(u, props[first.v].value)), TRUE)

ClampedText(vis, limits, default) ==
    [v |-> Clamped(default.v, limits.v), r |-> vis.r \cup limits.r \cup default.r,
     w |-> vis.v # 0 \/ default.w]

TextWithin(u, s, vis, limits) ==
    IF /\ vis.v # 0
       /\ s \in DOMAIN u.user
       /\ tree.type[s] = "string" \/ (u.user[s] # Empty /\ Fits(u.user[s], limits.v))
    THEN Written(After(vis, [limits EXCEPT !.v = u.user[s]]), TRUE)
    ELSE ClampedText(vis, limits,
                     DefaultText(u, tree.defaults[s], FirstActive(u, tree.defaults[s])))

Text(u, s) ==
    TextWithin(u, s, Read(u, "visibility", s),
               IF tree.type[s] = "string" THEN Pure(<<>>)
               ELSE Limits(u, tree.ranges[s], FirstActive(u, tree.ranges[s])))

Value(u, s) ==
    IF s \notin Tristates THEN Text(u, s)
    ELSE IF ChoiceOf(s) = {} THEN PlainTri(u, s)
    ELSE MemberTri(u, s, CHOOSE c \in ChoiceOf(s) : TRUE)

-----------------------------------------------------------------------------
(* Symbol.assignable and Choice.assignable.                                *)

\* mutant of LockedToY: an imply of y counts for nothing
LockedIfBool(u, s) == NotTristate(u, s)

LockedToY(u, s) == LockedBy(NotTristate(u, s), expr_value(u, tree.weak_rev_dep[s]))

Offered(s, vis, rev, locked) ==
    LET range == IF vis.v = 2 THEN 0..2 ELSE IF locked.v THEN {0, 2} ELSE 0..1
    IN  IF vis.v = 0 THEN [vis EXCEPT !.v = {}]
        ELSE IF (vis.v = 2 /\ ChoiceOf(s) # {}) \/ rev.v = 2
             THEN After(vis, [rev EXCEPT !.v = {2}])
        ELSE IF vis.v = 1 /\ rev.v = 1 THEN After(vis, [rev EXCEPT !.v = {1}])
        ELSE After(vis, After(rev, After(locked, Pure(
                {v \in range : v >= rev.v /\ (locked.v => v # 1)}))))

SymbolAssignable(u, s) ==
    Offered(s, Read(u, "visibility", s), expr_value(u, tree.rev_dep[s]), LockedToY(u, s))

ChoiceAssignable(u, c) ==
    LET vis == Look(u, "visibility", c)
        bool == NotTristate(u, c)
        seen == [r |-> {<<"visibility", c>>}
                       \cup (IF vis = 2 THEN bool.r ELSE {})]
    IN  After(seen, Pure({v \in 0..vis : /\ v = 0 => c \in tree.optional
                                         /\ v = 1 /\ vis = 2 => ~bool.v}
                         \ (IF vis = 0 THEN {0} ELSE {})))

-----------------------------------------------------------------------------
(* The cache: the attributes that were computed, with what was stored.     *)

\* (the assignable of a text is () for ever)
Attributes == {<<"visibility", x>> : x \in Items}
              \cup {<<"assignable", x>> : x \in Tristates}
              \cup {<<"value", s>> : s \in Symbols}
              \cup {<<"selection", c>> : c \in UniqueChoices}

Compute(u, k) ==
    LET x == k[2] IN
    CASE k[1] = "visibility" -> Visibility(u, x)
      [] k[1] = "value"      -> Value(u, x)
      [] k[1] = "selection"  -> Selection(u, x)
      [] k[1] = "assignable" -> IF x \in Symbols THEN SymbolAssignable(u, x)
                                ELSE ChoiceAssignable(u, x)

Stored(u, k) == LET a == Compute(u, k)
                IN  IF k[1] = "value" THEN <<a.v, a.w>> ELSE a.v

(* The items that the attributes ks of item x are computed from.           *)
ItemsRead(x, ks) ==
    {j[2] : j \in UNION {Compute(config, k).r : k \in {k \in ks : k[2] = x}}}
        \ {x}

(* Everything computed to answer for the attributes ks.                    *)
RECURSIVE Computed(_, _, _)
Computed(u, ks, known) ==
    IF ks \subseteq known THEN {}
    ELSE LET new == ks \ known IN
         new \cup Computed(u, UNION {Compute(u, k).r : k \in new},
                           known \cup new)


(* _rec_invalidate: it goes on to the dependents whose visibility is       *)
(* cached, and to everything from MODULES.                                 *)
HasCachedVis(x) == <<"visibility", x>> \in DOMAIN cache

RECURSIVE Reached(_)
Reached(xs) ==
    LET next == xs \cup {y \in UNION {dependents[x] : x \in xs} :
                            HasCachedVis(y)}
    IN  IF xs \cap tree.modules # {} THEN Items
        ELSE IF next = xs THEN xs ELSE Reached(next)

\* mutant of Invalidated: no further than the dependents themselves
InvalidatedNearby(xs) == xs \cup UNION {dependents[x] : x \in xs}

Invalidated(xs) == Reached(xs)

-----------------------------------------------------------------------------
(* Assignments.  A pass over a file is a chain of them: st is what the     *)
(* user has set, the items with _was_set, and those _rec_invalidate was    *)
(* called on.  What a chain invalidates is what its members do, as none of *)
(* them computes a value.                                                  *)

Start == config @@ [was_set |-> {}, changed |-> {}]

Drop(f, x) == [y \in DOMAIN f \ {x} |-> f[y]]
With(f, x, v) == [y \in DOMAIN f \cup {x} |-> IF y = x THEN v ELSE f[y]]

ValidFor(x, v) == CASE tree.type[x] = "bool"     -> v \in {0, 2}
                    [] tree.type[x] = "tristate" -> v \in 0..2
                    [] tree.type[x] = "int"      -> v # Empty
                    [] tree.type[x] = "string"   -> TRUE

HasPrompt(x) == tree.prompts[x] # {}

\* Symbol.set_value, after the test for an unchanged value
Assign(st, s, v) ==
    LET c == ChoiceOf(s) IN
    IF ~ValidFor(s, v) THEN st
    ELSE IF c # {} /\ v = 2
    THEN [user |-> With(st.user, s, v), was_set |-> st.was_set \cup {s} \cup c,
          picked |-> With(st.picked, CHOOSE x \in c : TRUE, s),
          changed |-> st.changed \cup c]
    ELSE [st EXCEPT !.user = With(@, s, v), !.was_set = @ \cup {s},
                    !.changed = @ \cup {x \in {s} : HasPrompt(x)}]

AssignMode(st, c, v) ==
    IF ~ValidFor(c, v) THEN st
    ELSE [st EXCEPT !.user = With(@, c, v), !.was_set = @ \cup {c},
                    !.changed = @ \cup {c}]

Unset(st, s) ==
    IF s \notin DOMAIN st.user THEN st
    ELSE [st EXCEPT !.user = Drop(@, s),
                    !.changed = @ \cup {x \in {s} : HasPrompt(x)}]

UnsetMode(st, c) ==
    IF c \notin DOMAIN st.user \cup DOMAIN st.picked THEN st
    ELSE [st EXCEPT !.user = Drop(@, c), !.picked = Drop(@, c),
                    !.changed = @ \cup {c}]

UnsetAll(st, kept) ==
    LET syms == FoldLeft(Unset, st, SelectSeq(tree.order, LAMBDA s :
                                                 s \notin kept))
    IN  FoldLeft(UnsetMode, syms, SetToSeq(UniqueChoices \ kept))

(* One line of a .config file, <<symbol, value>>.  The text of a value is  *)
(* never equal to the number that is stored for a bool or a tristate, so   *)
(* only texts are found to be unchanged.                                   *)
\* mutant of LoadLine: the mode of a choice is not inferred
LoadLineOnly(st, line) ==
    LET s == line[1]
        v == IF line[2] = NotSet THEN 0 ELSE line[2]
    IN  IF s \notin Symbols \/ (line[2] = NotSet /\ s \notin Tristates) THEN st
        ELSE Assign(st, s, v)

LoadLine(st, line) ==
    LET s == line[1]
        v == IF line[2] = NotSet THEN 0 ELSE line[2]
        moded == IF v = 0 THEN st
                 ELSE FoldLeft(LAMBDA t, c : AssignMode(t, c, v), st,
                               SetToSeq(ChoiceOf(s)))
    IN  IF s \notin Symbols \/ (line[2] = NotSet /\ s \notin Tristates)
           \/ ~ValidFor(s, v) THEN st
        ELSE IF s \notin Tristates /\ s \in DOMAIN st.user /\ st.user[s] = v
        THEN [st EXCEPT !.was_set = @ \cup {s}]
        ELSE Assign(moded, s, v)

Load(st, lines, replace) ==
    LET read == FoldLeft(LoadLine, st, lines)
    IN  IF replace THEN UnsetAll(read, read.was_set) ELSE read

Settings(st) == [user |-> st.user, picked |-> st.picked]

-----------------------------------------------------------------------------
(* What write_config and write_min_config put into a file.                 *)

Line(u, s) == LET v == Look(u, "value", s)
              IN  <<s, IF s \in Tristates /\ v = 0 THEN NotSet ELSE v>>

Lines(u, syms) == [i \in DOMAIN syms |-> Line(u, syms[i])]

_config_contents(u) ==
    Lines(u, SelectSeq(tree.order, LAMBDA s : Compute(u, <<"value", s>>).w))

\* _str_default: the value without a user value, as the C tools compute it
StrDefault(u, s) ==
    CASE s \notin Tristates -> DefaultText(u, tree.defaults[s], FirstActive(u, tree.defaults[s]))
      [] ChoiceOf(s) # {}   -> Pure(0)
      [] OTHER -> PromotedIf(NotTristate(u, s),
                             Highest({DefaultTri(u, s), expr_value(u, tree.rev_dep[s]),
                                      expr_value(u, tree.weak_rev_dep[s])}))

\* a symbol that its choice selects by itself
SelectedByDefault(u, s) ==
    \E c \in ChoiceOf(s) : /\ c \notin tree.optional
                           /\ _get_selection_from_defaults(u, c).v = {s}
                           /\ tree.type[s] = "bool"
                           /\ Look(u, "value", s) = 2

\* the symbol cannot be changed from what its selectors make it
Locked(u, s) == /\ ChoiceOf(s) = {}
                /\ Look(u, "visibility", s) <= expr_value(u, tree.rev_dep[s]).v

_min_config_contents(u) ==
    Lines(u, SelectSeq(tree.order, LAMBDA s :
                 /\ ~Locked(u, s)
                 /\ Look(u, "value", s) # StrDefault(u, s).v
                 /\ ~SelectedByDefault(u, s)
                 /\ Compute(u, <<"value", s>>).w))

\* the attributes write_min_config computes, those of its expressions included
MinConfigReads(u) ==
    LET plain == {s \in Symbols : ChoiceOf(s) = {}}
        free == {s \in Symbols : ~Locked(u, s)}
        differ == {s \in free : Look(u, "value", s) # StrDefault(u, s).v}
    IN  {<<"visibility", s>> : s \in plain}
        \cup UNION {expr_value(u, tree.rev_dep[s]).r : s \in plain}
        \cup {<<"value", s>> : s \in free}
        \cup UNION {StrDefault(u, s).r : s \in free}
        \cup UNION {_get_selection_from_defaults(u, c).r : c \in
                UNION {ChoiceOf(s) : s \in differ} \ tree.optional}

-----------------------------------------------------------------------------
(* The steps of a program that uses the library.                           *)

NoSettings == [user |-> <<>>, picked |-> <<>>]

Init == /\ tree \in Trees
        /\ dependents = [x \in Items |-> Dependents(x)]
        /\ config = NoSettings
        /\ cache = <<>>
        /\ reads = [x \in Items |-> {}]

Answer(ks) ==
    LET new == Computed(config, ks, DOMAIN cache)
    IN  /\ cache' = [k \in new |-> Stored(config, k)] @@ cache
        /\ reads' = [x \in Items |-> reads[x] \cup ItemsRead(x, new)]
        /\ UNCHANGED <<tree, dependents, config>>

\* an attribute is asked for
Get(k) == k \notin DOMAIN cache /\ Answer({k})

WriteConfig == Answer({<<"value", s>> : s \in Symbols})
WriteMinConfig == Answer(MinConfigReads(config))

Finish(st) ==
    LET gone == Invalidated(st.changed)
    IN  /\ config' = Settings(st)
        /\ cache' = [k \in {k \in DOMAIN cache : k[2] \notin gone} |-> cache[k]]
        /\ reads' = [x \in Items |-> IF x \in gone THEN {} ELSE reads[x]]
        /\ UNCHANGED <<tree, dependents>>

\* Symbol.set_value and Choice.set_value
Same(x, v) == x \in DOMAIN config.user /\ config.user[x] = v

SetValue(s, v) == /\ ~(Same(s, v) /\ ChoiceOf(s) = {})
                  /\ Finish(Assign(Start, s, v))
SetMode(c, v) == ~Same(c, v) /\ Finish(AssignMode(Start, c, v))

UnsetValue(s) == Finish(Unset(Start, s))
UnsetChoice(c) == Finish(UnsetMode(Start, c))
UnsetValues == Finish(UnsetAll(Start, {}))

LoadConfig(lines, replace) == Finish(Load(Start, lines, replace))

ValuesFor(x) == IF x \in Tristates THEN 0..2 ELSE TextValues

Next == \/ \E k \in tree.asked : Get(k)
        \/ WriteConfig
        \/ WriteMinConfig
        \/ \E s \in Symbols : \E v \in ValuesFor(s) : SetValue(s, v)
        \/ \E c \in UniqueChoices, v \in 0..2 : SetMode(c, v)
        \/ \E s \in Symbols : UnsetValue(s)
        \/ \E c \in UniqueChoices : UnsetChoice(c)
        \/ UnsetValues
        \/ \E lines \in Files, replace \in BOOLEAN : LoadConfig(lines, replace)

Spec == Init /\ [][Next]_vars

-----------------------------------------------------------------------------
(* What has to hold.                                                       *)

\* No stale value: what is in the cache is what would be computed now.
CacheFresh == \A k \in DOMAIN cache : cache[k] = Stored(config, k)

\* _rec_invalidate may stop at an item without a cached visibility, because
\* an item that has anything cached has cached its visibility, and so has
\* every item it was computed from.
StopIsSafe == \A k \in DOMAIN cache :
                 /\ HasCachedVis(k[2])
                 /\ Compute(config, k).r \subseteq DOMAIN cache

\* The cache keeps the promise of KconfigCache: what stays cached after a
\* change was computed from nothing that was changed or dropped.  A value may
\* be computed from the dependencies and from MODULES, whose change drops
\* everything; a user value of an item without a prompt is no setting, and
\* the user value y of a choice symbol is one of the choice.
Setting(x) == IF x \in UniqueChoices
              THEN <<config.picked, {v \in 0..2 : Same(x, v)}>>
              ELSE {v \in ValuesFor(x) : HasPrompt(x) /\ Same(x, v)}

Cache == INSTANCE KconfigCache WITH
    dependents <- [x \in Items |-> IF x \in tree.modules THEN Items
                                   ELSE dependents[x]],
    setting    <- [x \in Items |-> Setting(x)],
    cached     <- {x \in Items : HasCachedVis(x)},
    stale      <- {}

ImplementsCache == Cache!Spec

\* The rest is about configurations, whatever is cached; every configuration
\* is reached with an empty cache, so that it suffices to look there.
Unread == cache = <<>>

Values(u) == [s \in Symbols |-> Look(u, "value", s)]

Loaded(u, lines, replace) ==
    Settings(Load(u @@ [was_set |-> {}, changed |-> {}], lines, replace))

\* Loading the file that write_config writes leads to the values written,
\* whether the program is running or starts anew, and merging it into the
\* running configuration changes nothing.
FileRoundTrip ==
    LET file == _config_contents(config)
    IN  Unread =>
        /\ Values(Loaded(NoSettings, file, TRUE)) = Values(config)
        /\ \A replace \in BOOLEAN :
              Values(Loaded(config, file, replace)) = Values(config)

\* So does the file that write_min_config writes.
MinRoundTrip ==
    Unread => Values(Loaded(NoSettings, _min_config_contents(config), TRUE))
        = Values(config)

\* A value that assignable offers is respected.
AssignableRespected ==
    Unread => \A s \in Symbols \cap Tristates :
                 \A v \in Look(config, "assignable", s) :
                    Look(Settings(Assign(Start, s, v)), "value", s) = v

\* A choice in y mode with a visible symbol has exactly one that is y, and
\* in m mode none is.
OneMemberSelected ==
    Unread => \A c \in UniqueChoices :
       LET on == {s \in Range(tree.members[c]) : Look(config, "value", s) = 2}
           seen == {s \in Range(tree.members[c]) : Look(config, "visibility", s) # 0}
       IN  IF Mode(config, c).v = 2 /\ seen # {}
           THEN Cardinality(on) = 1 ELSE on = {}

\* Loading a file in place of the configuration forgets the configuration:
\* the values are those the file alone leads to.
LoadForgets ==
    Unread => \A lines \in Files : Values(Loaded(config, lines, TRUE))
                            = Values(Loaded(NoSettings, lines, TRUE))
=============================================================================
