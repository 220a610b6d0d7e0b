SPECIFICATION Spec
CONSTANTS
  MemSize = 8
  Sizes = {1, 2, 3}
  Handles = {h1, h2, h3, h4, h5}
  NoBlock = NoBlock
  MaxNulls = 2
SYMMETRY HandleSymmetry
INVARIANTS
  TypeOK
  BlocksDisjoint
  NoByteLost
  FreeListOrdered
  FreeListCoalesced
PROPERTIES
  RegionsSpec
  FreeingHeldSucceeds
