SPECIFICATION Spec
CONSTANTS
  Tasks <- MCTwo
  Loggers <- MCOne
  Consoles <- MCOne
  Texts <- MCTexts
  Strays <- MCStrays
  Levels <- MCLevels
  NL = NL
  NUL = NUL
  LOG_SIZE = 4
  LOG_BUFFER_SIZE = 2
  MAX_TEXT = 3
  CONSOLE_LIMIT = 1
  MAX_MSG_QUEUE = 1
  MaxChars = 3
INVARIANTS TypeOK
PROPERTIES LogKeepsNewest ServerLogKeepsNewest
CHECK_DEADLOCK FALSE
