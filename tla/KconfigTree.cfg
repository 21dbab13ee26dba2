SPECIFICATION Spec
CONSTANTS
    Symbols = {"A", "B", "C", "D"}
    ChoiceIds = {"c1", "c2"}
    NamedChoices = {"c2"}
    Grammars <- MCGrammars
    SkippedFiles = {"arch/z80/Kconfig"}
    SetOrders <- MCOrders
INVARIANTS
    DefinitionOrder
    DependenciesExact
    PropertiesGathered
    SubmenusJustified
    LoopsFound
    JsonComplete
CHECK_DEADLOCK FALSE
