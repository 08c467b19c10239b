\* Names that contain the character "*".
CONSTANTS
  Chars <- MCChars
  Star = "*"
  AnyChar = "?"
  Patterns <- ShortPatterns
  Texts <- ShortTexts
SPECIFICATION Spec
INVARIANT
  StarMatchesAnything
