\* A limit of six characters, a marker of two, texts of one to ten.
SPECIFICATION Spec
CONSTANTS
  MaxChars = 6
  MarkerLength = 2
  NoteLength = 1
  Texts <- MCTexts
CHECK_DEADLOCK FALSE
INVARIANTS
  WithinLimit
  NothingBinary
  ChangesAreExplained
PROPERTIES
  GuardIsStable
