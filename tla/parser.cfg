SPECIFICATION LiveSpec
CONSTANTS
  MaxErrs = {1, 3}
  Texts <- MCTexts
  Names = {"a", "b", "c", "f"}
  Numbers = {"0", "1", "2"}
  Strings = {"'s'", "'t'"}
  More = 0
INVARIANT TypeOK
INVARIANT AcceptsJavaScript
INVARIANT TreeIsJavaScript
INVARIANT JSONExact
INVARIANT DisruptIsAbrupt
PROPERTY Ends
