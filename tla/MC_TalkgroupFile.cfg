CONSTANTS
  TgHeaders <- MC_TgHeaders
  ChHeaders <- MC_ChHeaders
  Numbers = {101, 102}
  MaxRows = 2

SPECIFICATION Spec
\* Loading ends: the loader returns or the program exits.
CHECK_DEADLOCK FALSE

INVARIANT TypeOK
INVARIANT LoadMatchesFile
