CONSTANTS
  Bool <- Bools
  Tristate <- Tristates
  Number = {}
  Text <- Texts
  Choice <- ChoiceIds
  Label = {}
  Children <- OptionsOf
  Database <- Order
  LabelList <- Labels
  ChoiceList <- ChoiceOrder
  Node <- Tree
  TypeDefault <- TypeDefaults
  Promptless = {}
  Modules = "MODULES"
  None = None
  Shipped <- Kernel
  Files <- Defconfigs
  Entries = {1}
  ShowInactive = TRUE
  Saving = FALSE
  ReadBack <- AsWritten
SPECIFICATION FairSpec
INVARIANTS OneSelected
PROPERTY Settles
