SPECIFICATION Spec
CONSTANTS
  lib1 = lib1
  lib2 = lib2
  lib3 = lib3
  TextLength = 2
  Names = {lib1, lib2, lib3}
  Default = "half a second"
  Characters <- Chars
  KindOf <- MCKindOf
  Sources <- MCSources
  MaxNames = 2
  MaxLength = 4
INVARIANT FirstErrorEndsRun
INVARIANT LibrariesLast
PROPERTY LintSeesSource
