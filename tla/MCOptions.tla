------------------------------ MODULE MCOptions ------------------------------
(***************************************************************************)
(* A choice whose option has a dependency of its own (as CHOICE_DEP_ITEM   *)
(* in test/kconfigtree/choice/Kconfig), an implied symbol, a tristate      *)
(* under MODULES, and a text.                                              *)
(*                                                                         *)
(*   choice rate                                                           *)
(*     config FAST bool  depends on TURBO                                  *)
(*     config SLOW bool                                                    *)
(*   config CACHE   bool                                                   *)
(*   config TURBO   bool  imply CACHE                                      *)
(*   config MODULES bool  option modules                                   *)
(*   config DRV     tristate  depends on CACHE || SLOW  default TURBO      *)
(*   config NAME    string  depends on DRV                                 *)
(***************************************************************************)
EXTENDS Configurator, KconfigNodes

ChoiceIds == {"rate"}
OptionsOf == [c \in ChoiceIds |-> <<"FAST", "SLOW">>]
Bools == {"CACHE", "TURBO", "MODULES"}
Tristates == {"DRV"}
Texts == {"NAME"}
Symbols == Bools \cup Tristates \cup Texts \cup {"FAST", "SLOW"}
Order == <<"FAST", "SLOW", "CACHE", "TURBO", "NAME", "MODULES", "DRV">>
ChoiceOrder == <<"rate">>
Labels == << >>

Tree == [w \in Symbols \cup ChoiceIds |->
    CASE w = "FAST"  -> [Bare EXCEPT !.dep = <<Sym("TURBO")>>,
                                     !.cond = <<Sym("TURBO")>>]
      [] w = "CACHE" -> [Bare EXCEPT !.weak_rev_dep = <<Sym("TURBO")>>]
      [] w = "DRV"   -> [Bare EXCEPT
            !.dep = <<Sym("CACHE"), Sym("SLOW"), Op("||")>>,
            !.cond = <<Sym("CACHE"), Sym("SLOW"), Op("||")>>,
            !.defaults = <<Reference("TURBO", 0, Yes)>>]
      [] w = "NAME"  -> [Bare EXCEPT !.dep = <<Sym("DRV")>>,
                                     !.cond = <<Sym("DRV")>>]
      [] OTHER -> Bare]

TypeDefaults == [s \in Symbols |->
    CASE s \in Texts -> EmptyText
      [] s \in Bools \cup Tristates -> 0
      [] OTHER -> -1]
NoValue == [s \in Symbols |-> -1]

\* what kconfiglib computes without a .config
Kernel == {
    [value |-> [s \in Symbols |-> CASE s = "SLOW" -> 2 [] s \in Texts -> EmptyText
                                    [] OTHER -> 0],
     user_value |-> NoValue]}

\* a configuration with a driver as module, and one whose text has lost its
\* quotes
Modular == [NoValue EXCEPT !["FAST"] = 2, !["SLOW"] = 0, !["TURBO"] = 2,
                           !["CACHE"] = 2, !["MODULES"] = 2, !["DRV"] = 1,
                           !["NAME"] = 2]
Defconfigs == {Modular, [Modular EXCEPT !["NAME"] = -3]}
NoFiles == {}

(* "user_value member ... will be restored by MODULES enabled again": an   *)
(* active tristate keeps a value, without which it is not written.         *)
NothingLost ==
    Quiescent => \A t \in Tristate : active[t] => value[t] # Unset
=============================================================================
