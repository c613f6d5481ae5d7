SPECIFICATION Spec
CONSTANTS
  MM = 3
  FieldPoly = 11
  CodeSizes <- MCCodeSizes
  Symbols = {1, 6}
  MaxErrors = 3
  MaxDamage = 4
  RllTable <- MCRllTable
  RllCaps = {"NTSC", "PAL", "SP"}
  Texts <- MCTexts
  MaxFlips = 1
INVARIANTS
  ImplementsGroupCode
  BitErrorsStayLocal
  RunsAreShort
  StackFits
CHECK_DEADLOCK FALSE
