CONSTANTS
  Modulus = 256
  BufferSize = 5
  NUL = NUL
  Texts <- MCTexts
  Words <- MCWords
  Characters = {"z", "0"}
  Strings <- MCStrings
SPECIFICATION Spec
INVARIANTS TypeOK ReadsInsideText DivisorNeverWraps BufferHolds OutputIsFormatted
PROPERTY FormatReturns
