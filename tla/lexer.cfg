SPECIFICATION LiveSpec
CONSTANTS
  MaxErrs = {2}
  Sources <- MCSources
  MaxCharacter = 12
  Short = 4
  Long = 4
INVARIANT PiecesTile
INVARIANT NoDivisionSwallowed
INVARIANT RegexpEndsAtItsSlash
PROPERTY EndsUnlessContinued
