\* A message over the limit, sent by the extension.
SPECIFICATION Spec
CONSTANTS
  MaxChars = 6
  MarkerLength = 2
  NoteLength = 1
  Texts <- MCTexts
CHECK_DEADLOCK FALSE
INVARIANTS
  TruncationIsRecorded
