\* Every pattern of up to four characters against every name of up to five.
CONSTANTS
  Chars <- MCChars
  Star = "*"
  AnyChar = "?"
  Patterns <- ShortPatterns
  Texts <- ShortTexts
SPECIFICATION FairSpec
INVARIANTS
  TypeOK
  AcceptsOnlyMatches
  RejectsOnlyMismatches
PROPERTY
  Terminates
