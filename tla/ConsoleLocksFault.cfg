CONSTANT MaxDepth = 4
SPECIFICATION LocksSpec
INVARIANT NeverSpins
