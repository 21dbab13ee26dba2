CONSTANTS
  Panel = {p1, p2, p3}
  None = None
SPECIFICATION FairSpec
INVARIANTS OneOldDefconfig TrackedIsOpen
PROPERTY LivesAsPromised
