-------------------------- MODULE MCKconfigSymbols --------------------------
(***************************************************************************)
(* Six small trees for KconfigSymbols: MODULES with a select and an imply, *)
(* a choice whose default is hidden, a symbol that follows a choice, two   *)
(* tristate choices, and numbers under a range.                            *)
(***************************************************************************)
EXTENDS KconfigSymbols

Y == Const(2)
M == Const(1)
N == Const(0)
Default(value, cond) == [value |-> value, cond |-> cond]

Fn(xs, f, d) == [x \in xs |-> IF x \in DOMAIN f THEN f[x] ELSE d]

(* A tree of the symbols in order and the choices in members, of which the *)
(* attributes asked are asked for; what is not said of an item in props is *)
(* empty.                                                                  *)
ValuesOf(xs) == {<<"value", x>> : x \in xs}
AssignableOf(x) == {<<"assignable", x>>}
SelectionOf(c) == {<<"selection", c>>}

Tree(order, members, types, asked, props) ==
    LET items == Range(order) \cup DOMAIN members
    IN  [order |-> order, members |-> members, type |-> types,
         prompts |-> Fn(items, props.prompts, {}),
         defaults |-> Fn(items, props.defaults, <<>>),
         ranges |-> Fn(items, props.ranges, <<>>),
         rev_dep |-> Fn(items, props.rev_dep, N),
         weak_rev_dep |-> Fn(items, props.weak_rev_dep, N),
         direct_dep |-> Fn(items, props.direct_dep, Y),
         optional |-> props.optional,
         modules |-> {"MODULES"} \cap Range(order),
         asked |-> asked]

None == [prompts |-> <<>>, defaults |-> <<>>, ranges |-> <<>>,
         rev_dep |-> <<>>, weak_rev_dep |-> <<>>, direct_dep |-> <<>>,
         optional |-> {}]

(* B depends on A and selects C, which A implies. *)
Selects == Tree(<<"MODULES", "A", "B", "C">>, <<>>,
    [MODULES |-> "bool", A |-> "tristate", B |-> "tristate", C |-> "tristate"],
    ValuesOf({"A", "B", "C"}) \cup AssignableOf("C"),
    [None EXCEPT
        !.prompts = [A |-> {Y}, B |-> {Ref("A")}, C |-> {Y}],
        !.defaults = [MODULES |-> <<Default(Y, Y)>>,
                      B |-> <<Default(M, Ref("A"))>>],
        !.rev_dep = [C |-> Ref("B")],
        !.weak_rev_dep = [C |-> Ref("A")],
        !.direct_dep = [B |-> Ref("A")]])

(* X is the default of the choice; A hides it. *)
Hidden == Tree(<<"A", "X", "Y1">>, [ch |-> <<"Y1", "X">>],
    [A |-> "bool", X |-> "bool", Y1 |-> "bool", ch |-> "bool"],
    ValuesOf({"A", "Y1"}) \cup AssignableOf("X") \cup SelectionOf("ch"),
    [None EXCEPT
        !.prompts = [A |-> {Y}, ch |-> {Y},
                     X |-> {And(Ref("ch"), Not(Ref("A")))}, Y1 |-> {Ref("ch")}],
        !.defaults = [ch |-> <<Default(Ref("X"), Y)>>],
        !.direct_dep = [X |-> And(Ref("ch"), Not(Ref("A"))), Y1 |-> Ref("ch")]])

(* D follows what the choice selects. *)
Follower == Tree(<<"X", "Y1", "D">>, [ch |-> <<"X", "Y1">>],
    [X |-> "bool", Y1 |-> "bool", D |-> "bool", ch |-> "bool"],
    ValuesOf({"X", "D"}) \cup SelectionOf("ch"),
    [None EXCEPT
        !.prompts = [ch |-> {Y}, X |-> {Ref("ch")}, Y1 |-> {Ref("ch")},
                     D |-> {Ref("X")}],
        !.defaults = [D |-> <<Default(Y, Ref("Y1"))>>],
        !.direct_dep = [X |-> Ref("ch"), Y1 |-> Ref("ch")]])

(* Tristate choices: one that may be switched off, one with a bool Z. *)
Modes(s, type, optional, asked) == Tree(<<"MODULES", "X", s>>, [ch |-> <<"X", s>>],
    [MODULES |-> "bool", X |-> "tristate", ch |-> "tristate"] @@ s :> type, asked,
    [None EXCEPT
        !.prompts = [MODULES |-> {Y}, ch |-> {Y}, X |-> {Ref("ch")}]
                    @@ s :> {Ref("ch")},
        !.direct_dep = [X |-> Ref("ch")] @@ s :> Ref("ch"),
        !.optional = optional])

(* K is kept between L and 3 while A is set; T is a text. *)
Ranges == Tree(<<"A", "L", "K", "T">>, <<>>,
    [A |-> "bool", L |-> "int", K |-> "int", T |-> "string"],
    ValuesOf({"A", "L", "K", "T"}),
    [None EXCEPT
        !.prompts = [A |-> {Y}, L |-> {Ref("A")}, K |-> {Y},
                     T |-> {Compare("<", Ref("K"), Const(2))}],
        !.defaults = [L |-> <<Default(Const(1), Not(Ref("A")))>>,
                      K |-> <<Default(Const(4), Ref("A")),
                              Default(Ref("L"), Y)>>,
                      T |-> <<Default(Const(2), N)>>],
        !.ranges = [K |-> <<[low |-> Ref("L"), high |-> Const(3),
                             cond |-> Ref("A")]>>],
        !.direct_dep = [L |-> Ref("A"), T |-> Compare("<", Ref("K"), Const(2))]])

(* Two trees whose minimal configuration is not enough: a choice whose mode *)
(* only the selected bool tells of, and a prompt that is visible as m.      *)
ZFirst == Tree(<<"MODULES", "Z", "X">>, [ch |-> <<"Z", "X">>],
    [MODULES |-> "bool", X |-> "tristate", ch |-> "tristate", Z |-> "bool"], {},
    [None EXCEPT
        !.prompts = [MODULES |-> {Y}, ch |-> {Y}, X |-> {Ref("ch")}, Z |-> {Ref("ch")}],
        !.direct_dep = [X |-> Ref("ch"), Z |-> Ref("ch")]])

Weak == Tree(<<"MODULES", "A", "B">>, <<>>,
    [MODULES |-> "bool", A |-> "tristate", B |-> "tristate"], {},
    [None EXCEPT
        !.prompts = [A |-> {Y}, B |-> {M}],
        !.defaults = [MODULES |-> <<Default(Y, Y)>>, B |-> <<Default(Y, Y)>>],
        !.rev_dep = [B |-> Ref("A")]])

MCTrees ==
    {Selects, Hidden, Follower, Ranges,
     Modes("Y1", "tristate", {"ch"}, ValuesOf({"X", "Y1"}) \cup SelectionOf("ch")),
     Modes("Z", "bool", {}, ValuesOf({"Z"}) \cup AssignableOf("X"))}
MCMinTrees == {ZFirst, Weak}
MCTexts == {Empty, 0, 2, 5}
MCFiles == {<<<<"X", 1>>, <<"A", 2>>, <<"GONE", 2>>>>,
            <<<<"X", 2>>, <<"Y1", 1>>, <<"MODULES", NotSet>>>>,
            <<<<"K", 5>>, <<"L", 2>>, <<"K", 0>>, <<"T", NotSet>>, <<"C", 1>>>>}
=============================================================================
