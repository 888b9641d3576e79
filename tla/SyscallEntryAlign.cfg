CONSTANTS
  STACK_WORDS = 20
  UserStacks = {100}
  MaxCalls = 1
SPECIFICATION Spec
INVARIANT CallAligned
