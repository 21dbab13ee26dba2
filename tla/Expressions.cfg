CONSTANTS
  Stateful = {"A", "B"}
  Levels = {0, 1, 2}
  Ints = {"I"}
  Numbers = {0, 12}
  Strings = {"S"}
  Texts = {1, 2}
  Literals = {1}
  MaxTokens = 5
  MODULES = "B"
SPECIFICATION Spec
INVARIANTS ExactOnBooleans ConditionsDecided TextKeepsMeaning
CHECK_DEADLOCK FALSE
