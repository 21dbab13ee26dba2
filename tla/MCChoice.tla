------------------------------ MODULE MCChoice ------------------------------
(***************************************************************************)
(* Two nested choices, as HOST_LINUX / HOST_WINDOWS and the choice below   *)
(* HOST_WINDOWS that the tests click through.                              *)
(*                                                                         *)
(*   config BOARD   bool                                                   *)
(*   choice host    depends on BOARD, default WINDOWS if !SMALL            *)
(*     config LINUX bool     config WINDOWS bool                           *)
(*   choice shell   depends on WINDOWS                                     *)
(*     config CYGWIN bool    config MSYS bool                              *)
(*   config SMALL   bool                                                   *)
(*   config LOG     bool  depends on CYGWIN  default y if SMALL            *)
(*   comment        visible when LINUX || LOG                              *)
(***************************************************************************)
EXTENDS Configurator, KconfigNodes

ChoiceIds == {"host", "shell"}
OptionsOf == [c \in ChoiceIds |-> IF c = "host" THEN <<"LINUX", "WINDOWS">>
                                ELSE <<"CYGWIN", "MSYS">>]
Bools == {"BOARD", "SMALL", "LOG"}
Symbols == Bools \cup {"LINUX", "WINDOWS", "CYGWIN", "MSYS"}
Order == <<"BOARD", "LINUX", "WINDOWS", "CYGWIN", "MSYS", "SMALL", "LOG">>
ChoiceOrder == <<"host", "shell">>
Labels == <<"comment">>

Tree == [w \in Symbols \cup ChoiceIds \cup {"comment"} |->
    CASE w = "host"  -> [Bare EXCEPT
            !.dep = <<Sym("BOARD")>>,
            !.defaults = <<[Constant(0, <<Sym("SMALL"), Op("!")>>)
                               EXCEPT !.name = "WINDOWS"]>>]
      [] w = "shell" -> [Bare EXCEPT !.dep = <<Sym("WINDOWS")>>]
      [] w = "LOG"   -> [Bare EXCEPT
            !.dep = <<Sym("CYGWIN")>>,
            !.defaults = <<Constant(2, <<Sym("SMALL")>>)>>]
      [] w \in {"LINUX", "WINDOWS", "CYGWIN", "MSYS"} -> [Bare EXCEPT !.cond = Yes]
      [] w = "comment" -> [Bare EXCEPT !.dep = <<Sym("LINUX"), Sym("LOG"), Op("||")>>]
      [] OTHER -> Bare]

TypeDefaults == [s \in Symbols |-> IF s \in Bools THEN 0 ELSE -1]
NoValue == [s \in Symbols |-> -1]

Kernel == {
    [value |-> [s \in Symbols |-> 0], user_value |-> NoValue],
    [value |-> [s \in Symbols |-> IF s \in {"BOARD", "WINDOWS", "CYGWIN"}
                                  THEN 2 ELSE 0],
     user_value |-> [s \in Symbols |-> IF s \in Bools THEN
                                       IF s = "BOARD" THEN 2 ELSE 0 ELSE -1]]}

\* a file with two options of one choice set, and one that mentions no choice
Defconfigs == {
    [NoValue EXCEPT !["BOARD"] = 2, !["LINUX"] = 2, !["WINDOWS"] = 2, !["MSYS"] = 2],
    [NoValue EXCEPT !["BOARD"] = 2, !["SMALL"] = 2, !["LINUX"] = 0]}

\* the tree is one of those the theorems are about
Layer == [w \in Symbols \cup ChoiceIds \cup {"comment"} |->
    CASE w \in {"BOARD", "SMALL"} -> 0
      [] w \in {"host", "LINUX", "WINDOWS"} -> 1
      [] w \in {"shell", "CYGWIN", "MSYS"} -> 2
      [] w = "LOG" -> 3
      [] w = "comment" -> 4]

ASSUME ChoiceSettles ==
    /\ Layered(Layer) /\ PlainOptions /\ ModulesUnheard /\ UserDecides
    /\ OptionsUnselected
=============================================================================
