---------------------------- MODULE MCKconfigTree ----------------------------
(***************************************************************************)
(* Sets of Kconfig lines for KconfigTree.  Every sequence of them, up to a *)
(* length, is read.                                                        *)
(***************************************************************************)
EXTENDS KconfigTree

Bool == [kind |-> "type", type |-> "bool"]
Prompt(e) == <<Bool, [kind |-> "prompt", cond |-> e]>>
DependsOnLine(e) == <<[kind |-> "depends", cond |-> e]>>
Visible(e) == <<[kind |-> "visible", cond |-> e]>>
Default(v, e) == <<[kind |-> "default", value |-> v, cond |-> e]>>
Selects(s, e) == <<[kind |-> "select", value |-> s, cond |-> e]>>
Implies(s, e) == <<[kind |-> "imply", value |-> s, cond |-> e]>>
IntType == [kind |-> "type", type |-> "int"]
Bounds(low, high, e) == <<[kind |-> "range", bounds |-> <<low, high>>, cond |-> e]>>
Env == <<[kind |-> "env"]>>

ConfigLine(s, ps) == [op |-> "config", item |-> s, properties |-> ps]
CommentLine(ps) == [op |-> "comment", properties |-> ps]
IfLine(e) == [op |-> "if", cond |-> e]
MenuLine(ps) == [op |-> "menu", properties |-> ps]
ChoiceLine(c, ps) == [op |-> "choice", item |-> c, properties |-> ps]
EndLine(t) == [op |-> "end", token |-> t]
SourceLine(f) == [op |-> "source", file |-> f]

A == Ref("A")
B == Ref("B")
D == Ref("D")

(* Submenus of symbols with and without prompts, inside ifs and menus.     *)
Submenus == [max |-> 5, lines |->
    {ConfigLine("A", Prompt(Y)), ConfigLine("B", Prompt(Y) \o DependsOnLine(A)),
     ConfigLine("B", Default(Y, A)), ConfigLine("C", Prompt(Or(A, B))),
     ConfigLine("C", Prompt(B) \o DependsOnLine(A)),
     CommentLine(DependsOnLine(A)), IfLine(A), EndLine("endif"),
     MenuLine(Visible(B)), EndLine("endmenu")}]

(* Choices, one of them in two places, with conditions on and in them.     *)
ChoicesIn == [max |-> 5, lines |->
    {ConfigLine("A", Prompt(Y)), ConfigLine("B", Prompt(Y) \o DependsOnLine(A)),
     ConfigLine("C", Default(Y, Y)),
     ChoiceLine("c1", <<Bool>> \o Prompt(Y)), ChoiceLine("c2", Default(A, Y)),
     ChoiceLine("c2", Prompt(A)),
     EndLine("endchoice"), IfLine(A), EndLine("endif")}]

(* Definitions in several places, selects, implies, ranges and loops.      *)
Several == [max |-> 4, lines |->
    {ConfigLine("A", Prompt(Y) \o Selects("B", Ref("C"))), ConfigLine("A", Default(B, Compare("=", D, Const(1)))),
     ConfigLine("D", <<IntType>> \o Bounds(Const(0), Const(2), A)),
     ConfigLine("D", Bounds(Const(1), Const(2), Y)),
     ConfigLine("B", Default(N, Y)), ConfigLine("B", Default(Y, Not(A))),
     ConfigLine("B", Prompt(Compare("=", A, Const(1))) \o Implies("C", Y)),
     ConfigLine("C", Prompt(Y) \o Selects("B", Y)), ConfigLine("C", DependsOnLine(B)),
     ChoiceLine("c1", <<Bool>> \o Prompt(Y)), ChoiceLine("c1", Prompt(B)),
     EndLine("endchoice"), IfLine(Ref("C")), EndLine("endif")}]

(* Files of this and of another architecture, and a file that sources the  *)
(* top file again.                                                         *)
FilesIn == [max |-> 5, lines |->
    {ConfigLine("A", Prompt(Y)), ConfigLine("B", Prompt(A)), ConfigLine("C", Env),
     ChoiceLine("c1", Prompt(Y)), ChoiceLine("c2", <<>>), EndLine("endchoice"),
     SourceLine("arch/arm/Kconfig"), SourceLine("arch/z80/Kconfig"),
     SourceLine("Kconfig"), MenuLine(<<>>), EndLine("endmenu")}]

(* A condition that the precedence of a test gets wrong.                   *)
NotY == [max |-> 2, lines |->
    {ConfigLine("A", Prompt(Y)), ConfigLine("B", Prompt(Compare("!=", A, Y))),
     ConfigLine("C", Prompt(Compare("!=", N, A))), CommentLine(<<>>)}]

MCGrammars == {Submenus, ChoicesIn, Several, FilesIn}
MCNotY == {NotY}
MCOrders == {<<"A", "B", "C", "D", "c1", "c2">>, <<"c2", "c1", "D", "C", "B", "A">>}
=============================================================================
