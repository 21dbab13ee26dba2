------------------------------- MODULE MCMenu -------------------------------
(***************************************************************************)
(* A menu without choices.  LIGHT is selected by PANEL and depends on      *)
(* nothing else; the menu and DEPTH depend on both of them; FAST is hidden *)
(* and takes its default from LIGHT; WIDE is tristate in a tree without    *)
(* MODULES; NAME is a text.  Texts are numbers: 1 is the empty text, 5 and *)
(* 7 are others, 5 one with a = in it.                                     *)
(*                                                                         *)
(*   config PANEL  bool  select LIGHT                                      *)
(*   config LIGHT  bool  default y if PANEL                                *)
(*   config FAST   bool (no prompt)  default LIGHT                         *)
(*   config DEPTH  int  depends on LIGHT && !PANEL                         *)
(*                      default 5 if FAST, default 7, range 1 9 if LIGHT   *)
(*   config WIDE   tristate  depends on DEPTH = 7 && NAME != ""            *)
(*                      default PANEL || FAST                              *)
(*   config NAME   string  default "7" if FAST                             *)
(*   menu          visible when WIDE || FAST                               *)
(*                                                                         *)
(* In the database, DEPTH and WIDE come before what they depend on.        *)
(***************************************************************************)
EXTENDS Configurator, KconfigNodes

Bools == {"PANEL", "LIGHT", "FAST"}
Tristates == {"WIDE"}
Numbers == {"DEPTH"}
Texts == {"NAME"}
Symbols == Bools \cup Tristates \cup Numbers \cup Texts
Order == <<"DEPTH", "WIDE", "PANEL", "LIGHT", "FAST", "NAME">>

Large == <<Sym("DEPTH"), Num(7), Op("="),
           Sym("NAME"), Str(EmptyText), Op("!="), Op("&&")>>

Tree == [w \in Symbols \cup {"menu"} |->
    CASE w = "PANEL" -> Bare
      [] w = "LIGHT" -> [Bare EXCEPT
            !.rev_dep = <<Sym("PANEL")>>,
            !.defaults = <<Constant(2, <<Sym("PANEL")>>)>>]
      [] w = "FAST"  -> [Bare EXCEPT
            !.defaults = <<Reference("LIGHT", 0, Yes)>>]
      [] w = "DEPTH" -> [Bare EXCEPT
            !.dep = <<Sym("LIGHT"), Sym("PANEL"), Op("!"), Op("&&")>>,
            !.cond = <<Sym("LIGHT"), Sym("PANEL"), Op("!"), Op("&&")>>,
            !.defaults = <<Constant(5, <<Sym("FAST")>>), Constant(7, Yes)>>,
            !.ranges = << <<Sym("LIGHT")>> >>]
      [] w = "WIDE"  -> [Bare EXCEPT
            !.dep = Large, !.cond = Large,
            !.defaults = <<Expression(<<Sym("PANEL"), Sym("FAST"), Op("||")>>, Yes)>>]
      [] w = "NAME"  -> [Bare EXCEPT
            !.defaults = <<Constant(7, <<Sym("FAST")>>)>>]
      [] w = "menu"  -> [Bare EXCEPT
            !.dep = <<Sym("WIDE"), Sym("FAST"), Op("||")>>]]

TypeDefaults == [s \in Symbols |-> IF s \in Texts THEN EmptyText ELSE 0]

NoValue == [s \in Symbols |-> -1]

\* without a .config every symbol is at its default; after make olddefconfig
\* each visible symbol has a user value
Kernel == {
    [value |-> [NoValue EXCEPT !["PANEL"] = 0, !["LIGHT"] = 0, !["FAST"] = 0,
                               !["DEPTH"] = -2, !["WIDE"] = 0, !["NAME"] = 1],
     user_value |-> NoValue],
    [value |-> [NoValue EXCEPT !["PANEL"] = 0, !["LIGHT"] = 2, !["FAST"] = 2,
                               !["DEPTH"] = 7, !["WIDE"] = 0, !["NAME"] = 7],
     user_value |-> [NoValue EXCEPT !["PANEL"] = 0, !["LIGHT"] = 2,
                               !["FAST"] = 2, !["DEPTH"] = 7, !["WIDE"] = 0, !["NAME"] = 7]]}

\* a defconfig that mentions two symbols only, one of them wrongly
Defconfigs == {[NoValue EXCEPT !["PANEL"] = 2, !["LIGHT"] = 0]}

\* the text with a = in it is lost
Lost == [x \in {5} |-> -1]

OptionsOf == << >>
ChoiceIds == {}
Labels == <<"menu">>
ChoiceOrder == << >>

\* the tree is one of those the theorems are about
Layer == [w \in Symbols \cup {"menu"} |->
    CASE w = "PANEL" -> 0 [] w = "LIGHT" -> 1 [] w = "FAST" -> 2
      [] w \in {"DEPTH", "NAME"} -> 3 [] w = "WIDE" -> 4 [] w = "menu" -> 5]

ASSUME MenuSettles ==
    /\ Layered(Layer) /\ PlainOptions /\ ModulesUnheard /\ UserDecides
    /\ OptionsUnselected
=============================================================================
