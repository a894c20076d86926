SPECIFICATION LiveSpec
CONSTANTS
  MaxErrs = {2}
  Sources <- MCSources
  MaxCharacter = 12
  Short = 3
  Long = 1
PROPERTY EndsAlways
