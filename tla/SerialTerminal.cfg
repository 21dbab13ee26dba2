CONSTANTS
  Terminals = {t1, t2, t3}
  Tasks = {flash, boot}
  AutoTasks = {flash}
  MaxUpdating = 2
  undefined = undefined
SPECIFICATION FairSpec
INVARIANTS TypeOK FlashUndisturbed
PROPERTY LineFreed
