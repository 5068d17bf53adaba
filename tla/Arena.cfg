CONSTANTS
  a1 = a1
  a2 = a2
  b1 = b1
  b2 = b2
  b3 = b3
  Object <- MCObject
  Buffer <- MCBuffer
  Null = Null
  MaxBlocks = 3
  Bases = {4, 8}
  Capacities = {6, 14}
  Requests = {0, 2, 13}
  Alignments = {1, 4, 8}
  BaseAlign = 4
  Word = 16
SYMMETRY Symmetric
SPECIFICATION Spec
INVARIANTS
  TypeOK
  OwnedOnce
  UsedWithinCapacity
  BlocksApart
