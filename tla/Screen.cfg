CONSTANTS
  FONT = 2
  Infos <- MCInfos
  Glyph <- MCGlyph
  Chars <- MCChars
  Texts <- MCTexts
  Welcome <- MCWelcome
SPECIFICATION Spec
INVARIANTS
  StoresInside
  LineOnScreen
  NoStaleText
PROPERTY ImplementsTerminal
