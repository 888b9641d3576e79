CONSTANTS
  BUFFER_SIZE = 3
  Scancodes = {0, 1}
  None = None
  MaxKeys = 2
  TickModulus = 2
SPECIFICATION FairSpec
PROPERTY KeyboardOpen
