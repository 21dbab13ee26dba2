CONSTANTS
  Bool <- Bools
  Tristate = {}
  Number = {}
  Text = {}
  Choice <- ChoiceIds
  Label = {"comment"}
  Children <- OptionsOf
  Database <- Order
  LabelList <- Labels
  ChoiceList <- ChoiceOrder
  Node <- Tree
  TypeDefault <- TypeDefaults
  Promptless = {}
  Modules = None
  None = None
  Shipped <- Kernel
  Files <- Defconfigs
  Entries = {}
  ReadBack <- AsWritten
  ShowInactive = FALSE
  Saving = TRUE
SPECIFICATION FairSpec
INVARIANTS TypeOK NoLoop VisibilitySettled ValuesSettled OneOption
  ChosenStands RoundTrip
PROPERTY Settles
