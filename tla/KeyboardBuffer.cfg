CONSTANTS
  BUFFER_SIZE = 4
  Scancodes = {0, 1, 2}
  None = None
SPECIFICATION KbSpec
PROPERTY ImplementsFifo
