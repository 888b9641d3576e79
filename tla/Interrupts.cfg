CONSTANTS
  BUFFER_SIZE = 3
  Scancodes = {0, 1}
  None = None
  MaxKeys = 4
  TickModulus = 2
SPECIFICATION FairSpec
INVARIANTS
  HandlersOnlyInterruptUser
  InServiceMatchesHandler
  OnlyHandledVectors
  KeyboardNeverStuck
PROPERTIES
  KeysRead
  TickServed
