CONSTANTS
  Bool <- Bools
  Tristate <- Tristates
  Number <- Numbers
  Text <- Texts
  Choice <- ChoiceIds
  Label = {"menu"}
  Children <- OptionsOf
  Database <- Order
  LabelList <- Labels
  ChoiceList <- ChoiceOrder
  Node <- Tree
  TypeDefault <- TypeDefaults
  Promptless = {"FAST"}
  Modules = None
  None = None
  Shipped <- Kernel
  Files <- Defconfigs
  Entries = {1, 5}
  ShowInactive = FALSE
  Saving = TRUE
  ReadBack <- Lost
SPECIFICATION Spec
INVARIANTS VisibilitySettled ValuesSettled RoundTrip
