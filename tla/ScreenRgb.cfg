CONSTANTS
  FONT = 2
  Infos <- RGBInfos
  Glyph <- MCGlyph
  Chars <- MCChars
  Texts <- MCTexts
  Welcome <- MCWelcome
SPECIFICATION Spec
INVARIANT Legible
