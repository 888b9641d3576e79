SPECIFICATION CallsSpec
CONSTANTS
  Bufs <- MCBufs
  Vectors <- MCVectors
  FDs = {0, 1, 2, 7}
  CELLS = 40
  Ptrs = {0, 1, 4, 39}
  Bases <- MCBases
  Canonical <- MCCanonical
  MODULUS = 256
  MULTIPLIER = 45
  SHIFT = 4
  SEED0 = 78
  Sizes = {0, 1, 3}
  MaxCalls = 3
INVARIANTS
  AsciiShownOnce
  SerialIsUtf8
  RandomIsOneStream
PROPERTIES
  StructsExact
