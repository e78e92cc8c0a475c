SPECIFICATION SlotsSpec
CONSTANTS
  ns = ns
  child = child
  nsSlot = nsSlot
  nsKeySlot = nsKeySlot
  childSlot = childSlot
  Stores = {ns, child}
  NoStore = NoStore
  SlotsOf <- MCSlotsOf
  LooksLike <- MCLooksLike
  BaseSlot <- MCBaseSlot
  MaxSlots = 1
  MaxInflight = 1
  PruneInterval = 2
  r1 = r1
  r2 = r2
  Requests = {r1, r2}
  MaxVersion = 2
  DeleteWhileShowing = FALSE
SYMMETRY MCSymmetry
INVARIANTS SlotsTypeOK IndexComplete
PROPERTY DeletionIsExact
