CONSTANTS
  Panel = {p1, p2}
  None = None
SPECIFICATION Spec
INVARIANT NotHalfMade
