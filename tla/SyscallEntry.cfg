CONSTANTS
  STACK_WORDS = 20
  UserStacks = {100, 101}
  MaxCalls = 2
SPECIFICATION Spec
INVARIANTS
  RegistersPreserved
  ArgumentsDelivered
  UserStackUntouched
  SelectorsMatchGdt
